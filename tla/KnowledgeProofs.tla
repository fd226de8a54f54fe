---------------------------- MODULE KnowledgeProofs ----------------------------
(***************************************************************************)
(* Proofs about Knowledge for any number of versions, contents, reviewers  *)
(* and workers: a completed embedding is of the text the version has, what *)
(* was published under the policy is covered by its pair of runs, and what *)
(* the agent retrieves was approved by people or by a pair of runs.        *)
(***************************************************************************)
EXTENDS Knowledge, FiniteSetTheorems, TLAPS

Review == [status : {"none", "approved", "invalidated"}, of : MaybeContent,
           mode : {"none", "section", "manual", "policy"}]
Section == [of : MaybeContent, approved : BOOLEAN]
Version == [status : Statuses \cup {"none"}, content : MaybeContent, mode : Modes,
            reviewStatus : {"required", "approved"}, review : Review,
            embedding : {"pending_review", "queued", "completed", "not_applicable", "metadata_only"},
            chunks : MaybeContent, pinned : MaybeContent, publishedAt : BOOLEAN, section : Section]
ReviewRun == [status : {"none", "queued", "leased", "lapsed", "completed", "refused"},
              low : BOOLEAN, outV : Nat, outC : MaybeContent, revised : Nat,
              holder : Reviewers \cup {None}]
Task == [status : {"none", "queued", "running", "succeeded", "failed"},
         owner : Workers \cup {None}, lapsed : BOOLEAN, attempts : Int, polls : Int,
         stage : {"pending", "processing"}, initial : RunKeys \cup {None}]
Job == [task : Tasks \cup {None}, loaded : BOOLEAN]

\* The two approving runs of a content, or the person who approved it.
Backed(c) ==
    \/ c \in endorsed
    \/ \A p \in Phases : \E k \in RunKeys : k.phase = p /\ run[k].status = "completed" /\ run[k].outC = c
Pair(v, c) ==
    \A p \in Phases : \E k \in RunKeys : k.phase = p /\ run[k].low /\ Eligible(k, run, v, c)

\* What holds of a version row: an approval is of the present text, also when the
\* worker has written it again, and a published row has what its review asks for.
RowOK(v, x) ==
    /\ x.embedding = "completed" => x.chunks = x.content
    /\ x.reviewStatus = "approved" => x.review.of = x.content /\ Backed(x.content)
    /\ x.section.approved => x.section.of \in endorsed
    /\ x.status = "published" =>
          /\ x.mode = "full_text" => x.chunks = x.content
          /\ x.review.mode = "policy" => Pair(v, x.content)

VersPart ==
    /\ doc \in [status : Statuses, current : Versions]
    /\ ver \in [Versions -> Version]
    /\ \A v \in Versions : ver[v].status = "none" <=> v > doc.current
    /\ \A v \in Versions : RowOK(v, ver[v])

\* There are runs of versions that exist only.
RunsPart ==
    /\ run \in [RunKeys -> ReviewRun]
    /\ \A k \in RunKeys : run[k].status # "none" => k.v <= doc.current

\* The embedding task of the policy names the first of its two runs.
Named(k, y) == k.by = "policy" /\ y.status \in {"queued", "running"} => y.initial \in RunKeys
TasksPart == task \in [Tasks -> Task] /\ \A k \in Tasks : Named(k, task[k])

\* What a worker has loaded was approved, whatever became of the version since.
JobsPart ==
    /\ job \in [Workers -> Job]
    /\ \A w \in Workers : job[w].loaded => job[w].task \in Embeddings /\ Backed(job[w].task.c)

RestPart ==
    /\ source \in BOOLEAN
    /\ leased \in [Reviewers -> RunKeys \cup {None}]
    /\ editing \in Versions \cup {0}
    /\ endorsed \subseteq Contents /\ acts \in 0..MaxActs
    /\ signing # None => /\ signing.v \in Versions /\ signing.c \in endorsed
                         /\ signing.m \in Modes

IInv == VersPart /\ RunsPart /\ TasksPart /\ JobsPart /\ RestPart
-----------------------------------------------------------------------------
(* Approvals are never taken back.                                         *)

Grows ==
    /\ endorsed \subseteq endorsed'
    /\ \A k \in RunKeys : run[k].status = "completed" => run'[k] = run[k]

LEMMA GrowsKeeps ==
    ASSUME Grows
    PROVE  /\ \A c : Backed(c) => Backed(c)'
           /\ \A v, c : Pair(v, c) => Pair(v, c)'
           /\ \A v, x : RowOK(v, x) => RowOK(v, x)'
<1>1. ASSUME NEW c, Backed(c) PROVE Backed(c)'
  <2>1. CASE c \in endorsed
    BY <2>1 DEF Grows, Backed
  <2>2. CASE \A p \in Phases : \E k \in RunKeys : k.phase = p /\ run[k].status = "completed" /\ run[k].outC = c
    <3>1. \A p \in Phases : \E k \in RunKeys : k.phase = p /\ run'[k].status = "completed" /\ run'[k].outC = c
      BY <2>2 DEF Grows
    <3> QED
      BY <3>1 DEF Backed
  <2> QED
    BY <1>1, <2>1, <2>2 DEF Backed
<1>2. ASSUME NEW v, NEW c, Pair(v, c) PROVE Pair(v, c)'
  BY <1>2 DEF Grows, Pair, Eligible
<1>3. ASSUME NEW v, NEW x, RowOK(v, x) PROVE RowOK(v, x)'
  BY <1>1, <1>2, <1>3 DEF Grows, RowOK
<1> QED
  BY <1>1, <1>2, <1>3

\* What a step does not touch stays.
LEMMA Frames ==
    ASSUME IInv, Grows
    PROVE  /\ UNCHANGED <<ver, doc>> => VersPart'
           /\ UNCHANGED run /\ doc.current <= doc'.current /\ doc'.current \in Nat => RunsPart'
           /\ UNCHANGED task => TasksPart'
           /\ job' \in [Workers -> Job] /\ (\A w \in Workers : job'[w] = job[w] \/ ~job'[w].loaded) => JobsPart'
           /\ UNCHANGED <<source, leased, editing, signing>> /\ endorsed' \subseteq Contents /\ acts' \in 0..MaxActs
                 => RestPart'
<1>1. UNCHANGED <<ver, doc>> => VersPart'
  BY GrowsKeeps DEF IInv, VersPart
<1>2. UNCHANGED run /\ doc.current <= doc'.current /\ doc'.current \in Nat => RunsPart'
  BY DEF IInv, VersPart, RunsPart, Versions, RunKeys
<1>3. UNCHANGED task => TasksPart'
  BY DEF IInv, TasksPart, Named
<1>4. job' \in [Workers -> Job] /\ (\A w \in Workers : job'[w] = job[w] \/ ~job'[w].loaded) => JobsPart'
  BY GrowsKeeps DEF IInv, JobsPart
<1>5. UNCHANGED <<source, leased, editing, signing>> /\ endorsed' \subseteq Contents /\ acts' \in 0..MaxActs => RestPart'
  BY DEF IInv, RestPart, Grows
<1> QED
  BY <1>1, <1>2, <1>3, <1>4, <1>5

LEMMA SameGrows == UNCHANGED <<run, endorsed>> => Grows
BY DEF Grows

\* One row of a version is written.
LEMMA RowWritten ==
    ASSUME IInv, Grows, NEW v \in Versions, NEW x \in Version, ver' = [ver EXCEPT ![v] = x], RowOK(v, x)',
           doc' \in [status : Statuses, current : Versions],
           \/ doc'.current = doc.current /\ (x.status = "none" <=> ver[v].status = "none")
           \/ doc'.current = doc.current + 1 /\ v = doc.current + 1 /\ x.status # "none"
    PROVE  VersPart'
<1>1. /\ ver' \in [Versions -> Version] /\ ver'[v] = x
      /\ \A u \in Versions : u # v => ver'[u] = ver[u]
  BY DEF IInv, VersPart
<1>2. \A u \in Versions : RowOK(u, ver[u])'
  <2> TAKE u \in Versions
  <2>1. CASE u = v
    BY <1>1, <2>1
  <2>2. CASE u # v
    <3>1. RowOK(u, ver[u])
      BY DEF IInv, VersPart
    <3> QED
      BY <1>1, <2>2, <3>1, GrowsKeeps
  <2> QED
    BY <2>1, <2>2
<1>3. \A u \in Versions : ver'[u].status = "none" <=> u > doc'.current
  BY <1>1 DEF IInv, VersPart, Versions
<1> QED
  BY <1>1, <1>2, <1>3 DEF VersPart

\* One run that is not completed is written.
LEMMA RunWritten ==
    ASSUME IInv, NEW k \in RunKeys, NEW y \in ReviewRun, run[k].status # "completed",
           run' = [run EXCEPT ![k] = y], endorsed \subseteq endorsed'
    PROVE  /\ Grows /\ run' \in [RunKeys -> ReviewRun] /\ run'[k] = y
           /\ doc'.current \in Nat /\ doc.current <= doc'.current /\ k.v <= doc'.current => RunsPart'
<1>1. run' \in [RunKeys -> ReviewRun] /\ run'[k] = y /\ \A j \in RunKeys : j # k => run'[j] = run[j]
  BY DEF IInv, RunsPart
<1>2. ASSUME doc'.current \in Nat, doc.current <= doc'.current, k.v <= doc'.current
      PROVE  RunsPart'
  BY <1>1, <1>2 DEF IInv, RunsPart, VersPart, RunKeys, Versions
<1> QED
  BY <1>1, <1>2 DEF Grows

LEMMA NewRunIs ==
    /\ NoRun \in ReviewRun /\ NoRun.status = "none"
    /\ \A s \in {"queued", "refused"} : /\ [NoRun EXCEPT !.status = s] \in ReviewRun
                                        /\ [NoRun EXCEPT !.status = s].status = s
BY DEF NoRun, ReviewRun, MaybeContent

LEMMA QueueNewIs ==
    ASSUME IInv, NEW k \in RunKeys, run' = QueueNew(run, k), endorsed \subseteq endorsed'
    PROVE  /\ Grows /\ run' \in [RunKeys -> ReviewRun]
           /\ doc'.current \in Nat /\ doc.current <= doc'.current /\ k.v <= doc'.current => RunsPart'
<1>1. CASE run[k].status = "none"
  BY <1>1, NewRunIs, RunWritten DEF QueueNew
<1>2. CASE run[k].status # "none"
  <2>1. run' = run /\ Grows
    BY <1>2 DEF QueueNew, Grows
  <2> QED
    BY <2>1, Frames DEF IInv, RunsPart
<1> QED
  BY <1>1, <1>2

\* One task is written, or enqueued when there is none of its key.
LEMMA TaskWritten ==
    ASSUME TasksPart, NEW k \in Tasks, NEW y \in Task, task' = [task EXCEPT ![k] = y], Named(k, y)
    PROVE  TasksPart'
BY DEF TasksPart, Named

LEMMA NewTaskIs ==
    \A i \in RunKeys \cup {None} :
        /\ [NoTask EXCEPT !.status = "queued", !.initial = i] \in Task
        /\ [NoTask EXCEPT !.status = "queued", !.initial = i].initial = i
<1> TAKE i \in RunKeys \cup {None}
<1>1. NoTask \in Task
  BY DEF NoTask, Task
<1>2. [NoTask EXCEPT !.status = "queued", !.initial = i] \in Task
  BY <1>1 DEF Task
<1>3. [NoTask EXCEPT !.status = "queued", !.initial = i].initial = i
  BY <1>1 DEF Task
<1> QED
  BY <1>2, <1>3

LEMMA EnqueueIs ==
    ASSUME TasksPart, NEW k \in Tasks, NEW i \in RunKeys \cup {None}, k.by = "policy" => i \in RunKeys,
           task' = Enqueue(task, k, i)
    PROVE  TasksPart'
<1>1. CASE task[k].status = "none"
  <2>1. task' = [task EXCEPT ![k] = [NoTask EXCEPT !.status = "queued", !.initial = i]]
    BY <1>1 DEF Enqueue
  <2>2. Named(k, [NoTask EXCEPT !.status = "queued", !.initial = i])
    BY NewTaskIs DEF Named
  <2> QED
    BY <2>1, <2>2, NewTaskIs, TaskWritten
<1>2. CASE task[k].status # "none"
  BY <1>2 DEF Enqueue, TasksPart, Named
<1> QED
  BY <1>1, <1>2

\* Keys of runs and of tasks.
LEMMA KeysAre ==
    /\ \A v \in Versions, c \in Contents, p \in Phases :
          /\ [v |-> v, c |-> c, phase |-> p] \in RunKeys
          /\ [v |-> v, c |-> c, phase |-> p].v = v /\ [v |-> v, c |-> c, phase |-> p].c = c
          /\ [v |-> v, c |-> c, phase |-> p].phase = p
    /\ \A v \in Versions, c \in Contents, b \in {"section", "manual", "policy"} :
          /\ [v |-> v, c |-> c, by |-> b] \in Tasks /\ [v |-> v, c |-> c, by |-> b] \in Embeddings
          /\ [v |-> v, c |-> c, by |-> b].by = b
    /\ Ocr \in Tasks /\ Ocr.by = "upload"
    /\ \A k \in Embeddings : k \in Tasks /\ k.v \in Versions /\ k.c \in Contents
                             /\ k.by \in {"section", "manual", "policy"}
    /\ \A k \in RunKeys : k.v \in Versions /\ k.c \in Contents /\ k.phase \in Phases
    /\ \A v \in Versions : v \in Nat /\ v >= 1
BY DEF RunKeys, Tasks, Embeddings, Ocr, Versions

\* Exactly one run of each phase is eligible, so there is one.
LEMMA PairIs ==
    ASSUME NEW keys, NEW rs, NEW v, NEW c, PublicationReady(keys, rs, v, c), NEW p \in Phases
    PROVE  \E k \in keys : k.phase = p /\ rs[k].low /\ Eligible(k, rs, v, c)
<1>1. Cardinality({k \in keys : k.phase = p /\ Eligible(k, rs, v, c)}) = 1
  BY DEF PublicationReady, Paired
<1>2. {k \in keys : k.phase = p /\ Eligible(k, rs, v, c)} # {}
  BY <1>1, FS_EmptySet
<1> QED
  BY <1>2 DEF PublicationReady
-----------------------------------------------------------------------------
(* Requests of administrators and reviewers.                               *)

LEMMA CurrentIs ==
    ASSUME IInv
    PROVE  /\ Cur = doc.current /\ Cur \in Versions /\ Cur \in Nat /\ doc.status \in Statuses
           /\ doc = [status |-> doc.status, current |-> Cur]
           /\ \A v \in Versions : ver[v] \in Version /\ RowOK(v, ver[v])
           /\ \A v \in Versions : ver[v].status = "none" <=> v > Cur
           /\ ver[Cur].status # "none"
           /\ acts \in 0..MaxActs /\ endorsed \subseteq Contents
           /\ job \in [Workers -> Job]
<1>1. doc \in [status : Statuses, current : Versions] /\ Cur \in Versions
  BY DEF Cur, IInv, VersPart
<1>2. doc = [status |-> doc.status, current |-> Cur]
  BY <1>1 DEF Cur
<1>3. ver \in [Versions -> Version] /\ \A v \in Versions : RowOK(v, ver[v])
  BY DEF IInv, VersPart
<1>4. \A v \in Versions : ver[v].status = "none" <=> v > Cur
  BY DEF Cur, IInv, VersPart
<1>5. ver[Cur].status # "none" /\ Cur \in Nat
  BY <1>1, <1>4 DEF Versions
<1>6. acts \in 0..MaxActs /\ endorsed \subseteq Contents /\ job \in [Workers -> Job]
  BY DEF IInv, RestPart, JobsPart
<1> QED
  BY <1>1, <1>2, <1>3, <1>4, <1>5, <1>6 DEF Cur

LEMMA ActIs == acts \in 0..MaxActs /\ Act => acts' \in 0..MaxActs
BY KnowledgeAssumption DEF Act

LEMMA BeginEditKeeps == IInv /\ BeginEdit => IInv'
<1> SUFFICES ASSUME IInv, BeginEdit PROVE IInv'
  OBVIOUS
<1> USE DEF BeginEdit
<1>1. Grows
  BY SameGrows
<1>2. VersPart' /\ RunsPart' /\ TasksPart' /\ JobsPart'
  BY <1>1, Frames, CurrentIs
<1>3. RestPart'
  BY CurrentIs, ActIs DEF IInv, RestPart
<1> QED
  BY <1>2, <1>3 DEF IInv

LEMMA ToggleSourceKeeps == IInv /\ ToggleSource => IInv'
<1> SUFFICES ASSUME IInv, ToggleSource PROVE IInv'
  OBVIOUS
<1> USE DEF ToggleSource
<1>1. Grows
  BY SameGrows
<1>2. VersPart' /\ RunsPart' /\ TasksPart' /\ JobsPart'
  BY <1>1, Frames, CurrentIs
<1>3. RestPart'
  BY CurrentIs, ActIs DEF IInv, RestPart
<1> QED
  BY <1>2, <1>3 DEF IInv

\* Every section was approved, so the text a sign-off takes was.
LEMMA BeginSignOffKeeps == IInv /\ BeginSignOff => IInv'
<1> SUFFICES ASSUME IInv, BeginSignOff PROVE IInv'
  OBVIOUS
<1> USE DEF BeginSignOff
<1>1. Grows
  BY SameGrows
<1>2. VersPart' /\ RunsPart' /\ TasksPart' /\ JobsPart'
  BY <1>1, Frames, CurrentIs
<1>3. ver[Cur].content \in endorsed /\ ver[Cur].mode \in Modes
  BY CurrentIs DEF SectionsReady, RowOK, Version
<1>4. PICK s : s = [v |-> Cur, c |-> ver[Cur].content, m |-> ver[Cur].mode]
  OBVIOUS
<1>5. s.v \in Versions /\ s.c \in endorsed /\ s.m \in Modes
  BY <1>3, <1>4, CurrentIs
<1>6. RestPart'
  BY <1>4, <1>5, CurrentIs, ActIs DEF IInv, RestPart
<1> QED
  BY <1>2, <1>6 DEF IInv

LEMMA RetryReviewKeeps == IInv /\ RetryReview => IInv'
<1> SUFFICES ASSUME IInv, RetryReview PROVE IInv'
  OBVIOUS
<1>1. PICK p \in Phases : LET k == [v |-> Cur, c |-> ver[Cur].content, phase |-> p]
                          IN  MayRequeue(run, k) /\ run' = Requeued(run, k)
  BY DEF RetryReview
<1>2. PICK k : k = [v |-> Cur, c |-> ver[Cur].content, phase |-> p]
  OBVIOUS
<1>3. k \in RunKeys /\ k.v = Cur
  BY <1>2, CurrentIs, KeysAre DEF RetryReview, Resolvable, Version, MaybeContent
<1>4. run[k].status # "completed" /\ run' = [run EXCEPT ![k] = [NoRun EXCEPT !.status = "queued"]]
  BY <1>1, <1>2 DEF MayRequeue, Requeued
<1>5. Grows /\ RunsPart'
  BY <1>3, <1>4, NewRunIs, RunWritten, CurrentIs DEF RetryReview
<1>6. VersPart' /\ TasksPart' /\ JobsPart' /\ RestPart'
  BY <1>5, Frames, CurrentIs, ActIs DEF RetryReview
<1> QED
  BY <1>5, <1>6 DEF IInv

LEMMA RequeuePendingKeeps == IInv /\ RequeuePending => IInv'
<1> SUFFICES ASSUME IInv, RequeuePending PROVE IInv'
  OBVIOUS
<1>1. PICK k : k = [v |-> Cur, c |-> ver[Cur].content, phase |-> "initial"]
  OBVIOUS
<1>2. k \in RunKeys /\ k.v = Cur
  BY <1>1, CurrentIs, KeysAre DEF RequeuePending, Version, MaybeContent, Phases
<1>3. run' = QueueNew(run, k)
  BY <1>1 DEF RequeuePending
<1>4. Grows /\ RunsPart'
  <2>1. endorsed \subseteq endorsed' /\ doc'.current = Cur
    BY DEF Cur, RequeuePending
  <2> QED
    BY <1>2, <1>3, <2>1, QueueNewIs, CurrentIs
<1>5. VersPart' /\ TasksPart' /\ JobsPart' /\ RestPart'
  BY <1>4, Frames, CurrentIs, ActIs DEF RequeuePending
<1> QED
  BY <1>4, <1>5 DEF IInv

\* An edit withdraws the approval, so nothing is asked of the new text.
LEMMA EditedIs ==
    \A row \in Version, c \in Contents, m \in Modes :
        /\ Edited(row, c, m) \in Version
        /\ Edited(row, c, m).status = "draft" /\ Edited(row, c, m).reviewStatus = "required"
        /\ Edited(row, c, m).embedding = "pending_review" /\ Edited(row, c, m).section = row.section
<1> TAKE row \in Version, c \in Contents, m \in Modes
<1>1. PICK y : y = [row EXCEPT !.content = c, !.mode = m, !.status = "draft", !.reviewStatus = "required"]
  OBVIOUS
<1>2. y \in Version /\ y.status = "draft" /\ y.reviewStatus = "required" /\ y.section = row.section
  BY <1>1 DEF Version, Statuses, MaybeContent
<1>3. PICK s : s = IF y.review.status = "none" THEN y.review.status ELSE "invalidated"
  OBVIOUS
<1>4. PICK t : t = [y.review EXCEPT !.status = s]
  OBVIOUS
<1>5. t \in Review
  BY <1>2, <1>3, <1>4 DEF Version, Review
<1>6. Rewritten(row, c, m) = [y EXCEPT !.review = t]
  BY <1>1, <1>2, <1>3, <1>4 DEF Rewritten, Version
<1>7. Rewritten(row, c, m) \in Version /\ Rewritten(row, c, m).status = "draft"
      /\ Rewritten(row, c, m).reviewStatus = "required" /\ Rewritten(row, c, m).section = row.section
  BY <1>2, <1>5, <1>6 DEF Version
<1> QED
  BY <1>7 DEF Edited, Version

LEMMA CommitEditKeeps == IInv /\ CommitEdit => IInv'
<1> SUFFICES ASSUME IInv, CommitEdit PROVE IInv'
  OBVIOUS
<1>1. editing \in Versions /\ editing' = 0 /\ UNCHANGED <<source, leased, signing, endorsed, acts>>
  BY DEF IInv, RestPart, CommitEdit
<1>2. Grows
  BY SameGrows DEF CommitEdit
<1>3. RestPart'
  BY <1>1 DEF IInv, RestPart
<1>4. VersPart' /\ doc'.current = Cur
  <2>1. CASE ver[editing].status \notin {"draft", "review"}
    BY <1>2, <2>1, Frames, CurrentIs DEF CommitEdit
  <2>2. CASE ver[editing].status \in {"draft", "review"}
    <3>1. PICK c \in Contents, m \in Modes : ver' = [ver EXCEPT ![editing] = Edited(ver[editing], c, m)]
      BY <1>1, <2>2, CurrentIs DEF CommitEdit
    <3>2. PICK x : x = Edited(ver[editing], c, m)
      OBVIOUS
    <3>3. PICK v : v = editing
      OBVIOUS
    <3>4. x \in Version /\ x.status = "draft" /\ x.reviewStatus = "required" /\ x.embedding = "pending_review"
          /\ x.section = ver[v].section
      BY <1>1, <3>2, <3>3, CurrentIs, EditedIs
    <3>5. RowOK(v, x)'
      BY <1>1, <1>2, <3>3, <3>4, CurrentIs DEF RowOK, Grows
    <3>6. ver[v].status # "none" /\ doc' = [doc EXCEPT !.status = "draft"]
      BY <2>2, <3>3 DEF CommitEdit
    <3>7. doc' \in [status : Statuses, current : Versions] /\ doc'.current = Cur
      BY <3>6, CurrentIs DEF Statuses
    <3> QED
      BY <1>1, <1>2, <3>1, <3>2, <3>3, <3>4, <3>5, <3>6, <3>7, CurrentIs, RowWritten
  <2> QED
    BY <2>1, <2>2
<1>5. RunsPart' /\ TasksPart' /\ JobsPart'
  BY <1>2, <1>4, Frames, CurrentIs DEF CommitEdit
<1> QED
  BY <1>3, <1>4, <1>5 DEF IInv

LEMMA SectionIs ==
    \A row \in Version, c \in Contents, b \in BOOLEAN :
        /\ [row EXCEPT !.section = [of |-> c, approved |-> b]] \in Version
        /\ [of |-> c, approved |-> b].of = c /\ [of |-> c, approved |-> b].approved = b
BY DEF Version, Section, MaybeContent

LEMMA OpenWorkspaceKeeps == IInv /\ OpenWorkspace => IInv'
<1> SUFFICES ASSUME IInv, OpenWorkspace PROVE IInv'
  OBVIOUS
<1>1. Grows
  BY SameGrows DEF OpenWorkspace
<1>2. PICK v, c, x : v = Cur /\ c = ver[Cur].content /\ x = [ver[Cur] EXCEPT !.section = [of |-> c, approved |-> FALSE]]
  OBVIOUS
<1>3. v \in Versions /\ c \in Contents /\ ver[v] \in Version /\ RowOK(v, ver[v])
  BY <1>2, CurrentIs DEF OpenWorkspace, Version, MaybeContent
<1>4. x \in Version /\ x.section.approved = FALSE
  BY <1>2, <1>3, SectionIs DEF Version
<1>5. x.status = ver[v].status /\ RowOK(v, x)
  BY <1>2, <1>3, <1>4 DEF RowOK, Version
<1>6. RowOK(v, x)'
  BY <1>1, <1>5, GrowsKeeps
<1>7. ver' = [ver EXCEPT ![v] = x] /\ UNCHANGED doc
  BY <1>2, CurrentIs DEF OpenWorkspace, IInv, VersPart
<1>8. VersPart'
  BY <1>1, <1>3, <1>4, <1>5, <1>6, <1>7, RowWritten, CurrentIs
<1>9. RunsPart' /\ TasksPart' /\ JobsPart' /\ RestPart'
  BY <1>1, <1>7, Frames, CurrentIs DEF OpenWorkspace
<1> QED
  BY <1>8, <1>9 DEF IInv

\* An approval endorses the text the section was cut from.
LEMMA DecideKeeps == IInv /\ Decide => IInv'
<1> SUFFICES ASSUME IInv, Decide PROVE IInv'
  OBVIOUS
<1>1. endorsed \subseteq endorsed' /\ endorsed' \subseteq Contents /\ Grows
  BY CurrentIs DEF Decide, Grows, Version, MaybeContent
<1>2. PICK v, s : v = Cur /\ s = [ver[Cur].section EXCEPT !.approved = ~@]
  OBVIOUS
<1>3. PICK x : x = [ver[Cur] EXCEPT !.section = s]
  OBVIOUS
<1>4. v \in Versions /\ ver[v] \in Version /\ ver[v].section \in Section /\ RowOK(v, ver[v])
  BY <1>2, CurrentIs DEF Version
<1>5. s \in Section /\ s.of = ver[v].content /\ s.approved = ~ver[v].section.approved
  BY <1>2, <1>4 DEF Decide, Section
<1>6. x \in Version /\ x.section = s /\ x.status = ver[v].status
  BY <1>2, <1>3, <1>4, <1>5 DEF Version
<1>7. RowOK(v, x)'
  <2>1. x.section.approved => x.section.of \in endorsed'
    BY <1>2, <1>4, <1>5, <1>6 DEF Decide
  <2>2. \A y : RowOK(v, y) => RowOK(v, y)'
    BY <1>1, GrowsKeeps
  <2>3. RowOK(v, [x EXCEPT !.section = NoSection])
    BY <1>2, <1>3, <1>4, <1>6 DEF RowOK, Version, NoSection
  <2>4. PICK y : y = [x EXCEPT !.section = NoSection]
    OBVIOUS
  <2>5. RowOK(v, y)'
    BY <2>2, <2>3, <2>4
  <2> QED
    BY <1>6, <2>1, <2>4, <2>5 DEF RowOK, Version
<1>8. ver' = [ver EXCEPT ![v] = x] /\ UNCHANGED doc
  BY <1>2, <1>3, CurrentIs DEF Decide, IInv, VersPart, Version
<1>9. VersPart'
  BY <1>1, <1>4, <1>6, <1>7, <1>8, RowWritten, CurrentIs
<1>10. RunsPart' /\ TasksPart' /\ JobsPart' /\ RestPart'
  BY <1>1, <1>8, Frames, CurrentIs DEF Decide
<1> QED
  BY <1>9, <1>10 DEF IInv

LEMMA DocStatusIs ==
    ASSUME IInv, NEW s \in Statuses, doc' = [doc EXCEPT !.status = s]
    PROVE  doc' \in [status : Statuses, current : Versions] /\ doc'.current = doc.current
BY CurrentIs

LEMMA CommitSignOffKeeps == IInv /\ CommitSignOff => IInv'
<1> SUFFICES ASSUME IInv, CommitSignOff PROVE IInv'
  OBVIOUS
<1>1. Grows
  BY SameGrows DEF CommitSignOff
<1>2. signing.v \in Versions /\ signing.c \in endorsed /\ signing.c \in Contents /\ signing.m \in Modes
  BY DEF IInv, RestPart, CommitSignOff
<1>3. RestPart'
  BY DEF IInv, RestPart, CommitSignOff
<1>4. VersPart' /\ TasksPart' /\ doc'.current = doc.current
  <2>1. CASE ~(signing.v = Cur /\ ver[signing.v].content = signing.c)
    BY <1>1, <2>1, Frames DEF CommitSignOff
  <2>2. CASE signing.v = Cur /\ ver[signing.v].content = signing.c
    <3>1. PICK v, c, e : v = Cur /\ c = signing.c /\ e = IF signing.m = "full_text" THEN "queued" ELSE "not_applicable"
      OBVIOUS
    <3>2. v \in Versions /\ c \in Contents /\ c \in endorsed /\ v = signing.v /\ ver[v].content = c
          /\ e \in {"queued", "not_applicable", "metadata_only"} /\ ver[v] \in Version /\ RowOK(v, ver[v])
          /\ ver[v].publishedAt \in BOOLEAN
      BY <1>2, <2>2, <3>1, CurrentIs DEF Version
    <3>3. PICK m, x : m = "section" /\
              x = [ver[v] EXCEPT !.status = "review", !.reviewStatus = "approved", !.embedding = e,
                                 !.review = [status |-> "approved", of |-> c, mode |-> m]]
      OBVIOUS
    <3>4. /\ x \in Version /\ x.status = "review" /\ x.content = c /\ x.embedding = e /\ x.section = ver[v].section
          /\ x.review.of = c
      <4>1. PICK t : t = [status |-> "approved", of |-> c, mode |-> m]
        OBVIOUS
      <4>2. t \in Review /\ t.of = c
        BY <3>2, <3>3, <4>1 DEF Review, MaybeContent
      <4> QED
        BY <3>2, <3>3, <4>1, <4>2 DEF Version, Statuses
    <3>5. RowOK(v, x)'
      BY <1>1, <3>2, <3>4 DEF RowOK, Backed, Grows
    <3>6. ver' = [ver EXCEPT ![v] = x]
      BY <2>2, <3>1, <3>3 DEF CommitSignOff
    <3>7. doc' = [doc EXCEPT !.status = "review"]
      BY <2>2 DEF CommitSignOff
    <3>8. doc' \in [status : Statuses, current : Versions] /\ doc'.current = doc.current
      BY <3>7, DocStatusIs DEF Statuses
    <3>9. VersPart'
      BY <1>1, <3>1, <3>2, <3>4, <3>5, <3>6, <3>8, RowWritten, CurrentIs
    <3>10. TasksPart'
      <4>1. PICK k : k = [v |-> v, c |-> c, by |-> "section"]
        OBVIOUS
      <4>2. k \in Tasks /\ k.by = "section" /\ TasksPart
        BY <3>2, <4>1, KeysAre DEF IInv
      <4>3. task' = Enqueue(task, k, None) \/ task' = task
        BY <2>2, <3>1, <4>1 DEF CommitSignOff
      <4> QED
        BY <1>1, <4>2, <4>3, EnqueueIs, Frames
    <3> QED
      BY <3>8, <3>9, <3>10
  <2> QED
    BY <2>1, <2>2
<1>5. RunsPart' /\ JobsPart'
  BY <1>1, <1>4, Frames, CurrentIs DEF CommitSignOff
<1> QED
  BY <1>3, <1>4, <1>5 DEF IInv

\* The person who resolves the review approves the text.
LEMMA ManualApproveKeeps == IInv /\ ManualApprove => IInv'
<1> SUFFICES ASSUME IInv, ManualApprove PROVE IInv'
  OBVIOUS
<1>1. PICK v, c, e, s, p :
          /\ v = Cur /\ c = ver[Cur].content
          /\ e = IF ver[Cur].mode = "full_text" THEN "queued" ELSE "not_applicable"
          /\ s = IF ver[Cur].mode = "full_text" THEN "review" ELSE "published"
          /\ p = (ver[Cur].publishedAt \/ ~(ver[Cur].mode = "full_text"))
  OBVIOUS
<1>2. /\ v \in Versions /\ c \in Contents /\ ver[v] \in Version /\ RowOK(v, ver[v])
      /\ e \in {"queued", "not_applicable", "metadata_only"} /\ s \in {"review", "published"} /\ p \in BOOLEAN
  <2>1. v \in Versions /\ c \in Contents /\ ver[v] \in Version /\ RowOK(v, ver[v])
    BY <1>1, CurrentIs DEF ManualApprove, Resolvable, Version, MaybeContent
  <2>2. e \in {"queued", "not_applicable", "metadata_only"} /\ s \in {"review", "published"}
    BY <1>1
  <2>3. p \in BOOLEAN
    BY <1>1
  <2> QED
    BY <2>1, <2>2, <2>3
<1>3. endorsed' = endorsed \cup {c} /\ Grows /\ endorsed' \subseteq Contents
  BY <1>1, <1>2, CurrentIs DEF ManualApprove, Grows
<1>4. PICK m, x : m = "manual" /\
          x = [ver[v] EXCEPT !.status = s, !.reviewStatus = "approved", !.publishedAt = p, !.embedding = e,
                             !.review = [status |-> "approved", of |-> c, mode |-> m]]
  OBVIOUS
<1>5. /\ x \in Version /\ x.status = s /\ x.content = c /\ x.embedding = e /\ x.section = ver[v].section
      /\ x.review.of = c /\ x.review.mode = "manual" /\ x.mode = ver[v].mode
  <2>1. PICK t : t = [status |-> "approved", of |-> c, mode |-> m]
    OBVIOUS
  <2>2. t \in Review /\ t.of = c /\ t.mode = "manual"
    BY <1>2, <1>4, <2>1 DEF Review, MaybeContent
  <2>3. PICK row : row = ver[v]
    OBVIOUS
  <2>4. row \in Version /\ row.content = c
    BY <1>1, <1>2, <2>3
  <2>5. x = [row EXCEPT !.status = s, !.reviewStatus = "approved", !.publishedAt = p, !.embedding = e, !.review = t]
    BY <1>4, <2>1, <2>3
  <2>6. x \in Version
    <3>1. s \in Statuses \cup {"none"}
      BY <1>2 DEF Statuses
    <3>2. e \in {"pending_review", "queued", "completed", "not_applicable", "metadata_only"}
      BY <1>2
    <3> QED
      BY <1>2, <2>2, <2>4, <2>5, <3>1, <3>2 DEF Version
  <2>7. /\ x.status = s /\ x.content = c /\ x.embedding = e /\ x.section = row.section
        /\ x.review = t /\ x.mode = row.mode
    BY <2>4, <2>5 DEF Version
  <2> QED
    BY <2>2, <2>3, <2>6, <2>7
<1>6. RowOK(v, x)'
  BY <1>1, <1>2, <1>3, <1>5 DEF RowOK, Backed
<1>7. ver' = [ver EXCEPT ![v] = x]
  <2>1. ver' = [ver EXCEPT ![Cur] =
                   [ver[Cur] EXCEPT !.status = IF ver[Cur].mode = "full_text" THEN "review" ELSE "published",
                       !.reviewStatus = "approved", !.publishedAt = ver[Cur].publishedAt \/ ~(ver[Cur].mode = "full_text"),
                       !.embedding = IF ver[Cur].mode = "full_text" THEN "queued" ELSE "not_applicable",
                       !.review = [status |-> "approved", of |-> ver[Cur].content, mode |-> "manual"]]]
    BY Zenon DEF ManualApprove
  <2>2. x = [ver[Cur] EXCEPT !.status = IF ver[Cur].mode = "full_text" THEN "review" ELSE "published",
                       !.reviewStatus = "approved", !.publishedAt = ver[Cur].publishedAt \/ ~(ver[Cur].mode = "full_text"),
                       !.embedding = IF ver[Cur].mode = "full_text" THEN "queued" ELSE "not_applicable",
                       !.review = [status |-> "approved", of |-> ver[Cur].content, mode |-> "manual"]]
    BY <1>1, <1>4
  <2> QED
    BY <1>1, <2>1, <2>2
<1>8. doc' = [doc EXCEPT !.status = s] /\ s \in Statuses
  BY <1>1 DEF ManualApprove, Statuses
<1>9. doc' \in [status : Statuses, current : Versions] /\ doc'.current = doc.current
  BY <1>8, DocStatusIs
<1>10. VersPart'
  BY <1>1, <1>2, <1>3, <1>5, <1>6, <1>7, <1>9, RowWritten, CurrentIs
<1>11. TasksPart'
  <2>1. PICK k : k = [v |-> v, c |-> c, by |-> "manual"]
    OBVIOUS
  <2>2. k \in Tasks /\ k.by = "manual" /\ TasksPart
    BY <1>2, <2>1, KeysAre DEF IInv
  <2>3. task' = Enqueue(task, k, None) \/ task' = task
    BY <1>1, <2>1 DEF ManualApprove
  <2> QED
    BY <1>3, <2>2, <2>3, EnqueueIs, Frames
<1>12. RunsPart' /\ JobsPart' /\ RestPart'
  BY <1>3, <1>9, Frames, CurrentIs, ActIs DEF ManualApprove
<1> QED
  BY <1>10, <1>11, <1>12 DEF IInv

\* An approval by people, embedded: no pair of runs is asked for.
LEMMA PublishKeeps == IInv /\ Publish => IInv'
<1> SUFFICES ASSUME IInv, Publish PROVE IInv'
  OBVIOUS
<1>1. Grows
  BY SameGrows DEF Publish
<1>2. PICK v, x : v = Cur /\ x = [ver[Cur] EXCEPT !.status = "published", !.publishedAt = TRUE]
  OBVIOUS
<1>3. v \in Versions /\ ver[v] \in Version /\ RowOK(v, ver[v]) /\ ver[v].status = "review" /\ ReviewedEvidence(v)
  BY <1>2, CurrentIs DEF Publish, PublicationGate
<1>4. x \in Version /\ x.status = "published"
  BY <1>2, <1>3 DEF Version, Statuses
<1>5. RowOK(v, x)
  BY <1>2, <1>3 DEF RowOK, ReviewedEvidence, Version
<1>6. RowOK(v, x)'
  BY <1>1, <1>5, GrowsKeeps
<1>7. ver' = [ver EXCEPT ![v] = x]
  BY <1>2, CurrentIs DEF Publish, IInv, VersPart
<1>8. doc' \in [status : Statuses, current : Versions] /\ doc'.current = doc.current
  BY DocStatusIs DEF Publish, Statuses
<1>9. VersPart'
  BY <1>1, <1>2, <1>3, <1>4, <1>6, <1>7, <1>8, RowWritten, CurrentIs
<1>10. RunsPart' /\ TasksPart' /\ JobsPart' /\ RestPart'
  BY <1>1, <1>8, Frames, CurrentIs DEF Publish
<1> QED
  BY <1>9, <1>10 DEF IInv

\* A status that is not published asks nothing of a row.
LEMMA StatusIs ==
    \A row \in Version, v \in Versions, s \in Statuses \ {"published"} : RowOK(v, row) =>
        LET x == [row EXCEPT !.status = s]
        IN  x \in Version /\ x.status = s /\ RowOK(v, x)
BY DEF Version, RowOK

LEMMA StatusWritten ==
    ASSUME IInv, Grows, NEW v \in Versions, v <= doc.current, NEW s \in Statuses \ {"published"},
           ver' = [ver EXCEPT ![v].status = s], doc' = [doc EXCEPT !.status = s]
    PROVE  VersPart' /\ doc'.current = doc.current
<1>1. PICK x : x = [ver[v] EXCEPT !.status = s]
  OBVIOUS
<1>2. x \in Version /\ x.status = s /\ RowOK(v, x) /\ s # "none" /\ ver[v].status # "none"
  <2>1. ver[v] \in Version /\ RowOK(v, ver[v])
    BY CurrentIs
  <2>2. x \in Version /\ x.status = s /\ RowOK(v, x)
    BY <1>1, <2>1, StatusIs
  <2>3. s # "none"
    BY DEF Statuses
  <2>4. ver[v].status # "none"
    <3>1. v \in Int /\ Cur \in Int /\ ~(v > Cur)
      BY CurrentIs DEF Versions
    <3> QED
      BY <3>1, CurrentIs
  <2> QED
    BY <2>2, <2>3, <2>4
<1>3. ver' = [ver EXCEPT ![v] = x]
  BY <1>1, CurrentIs DEF IInv, VersPart
<1>4. RowOK(v, x)'
  BY <1>2, GrowsKeeps
<1>5. doc' \in [status : Statuses, current : Versions] /\ doc'.current = doc.current
  BY DocStatusIs
<1> QED
  BY <1>2, <1>3, <1>4, <1>5, RowWritten

LEMMA ArchiveKeeps == IInv /\ Archive => IInv'
<1> SUFFICES ASSUME IInv, Archive PROVE IInv'
  OBVIOUS
<1>1. Grows
  BY SameGrows DEF Archive
<1>2. PICK v, s : v = Cur /\ s = "archived"
  OBVIOUS
<1>3. ver' = [ver EXCEPT ![v].status = s] /\ doc' = [doc EXCEPT !.status = s] /\ s \in Statuses \ {"published"}
  BY <1>2 DEF Archive, Statuses
<1>4. VersPart' /\ doc'.current = doc.current
  <2>1. v \in Versions /\ v <= doc.current
    BY <1>2, <1>3, CurrentIs
  <2> QED
    BY <1>1, <1>3, <2>1, StatusWritten
<1>5. RunsPart' /\ TasksPart' /\ JobsPart' /\ RestPart'
  BY <1>1, <1>4, Frames, CurrentIs, ActIs DEF Archive
<1> QED
  BY <1>4, <1>5 DEF IInv

LEMMA UploadCompleteKeeps == IInv /\ UploadComplete => IInv'
<1> SUFFICES ASSUME IInv, UploadComplete PROVE IInv'
  OBVIOUS
<1>1. Grows
  BY SameGrows DEF UploadComplete
<1>2. PICK v, s : v = 1 /\ s = "processing"
  OBVIOUS
<1>3. ver' = [ver EXCEPT ![v].status = s] /\ doc' = [doc EXCEPT !.status = s] /\ s \in Statuses \ {"published"} /\ v = Cur
  BY <1>2 DEF UploadComplete, Statuses
<1>4. VersPart' /\ doc'.current = doc.current
  <2>1. v \in Versions /\ v <= doc.current
    BY <1>2, <1>3, CurrentIs
  <2> QED
    BY <1>1, <1>3, <2>1, StatusWritten
<1>5. TasksPart'
  BY KeysAre, EnqueueIs DEF UploadComplete, IInv
<1>6. RunsPart' /\ JobsPart' /\ RestPart'
  BY <1>1, <1>4, Frames, CurrentIs, ActIs DEF UploadComplete
<1> QED
  BY <1>4, <1>5, <1>6 DEF IInv

\* The new version is the newest, so it has no run yet.
LEMMA ManualEditKeeps == IInv /\ ManualEdit => IInv'
<1> SUFFICES ASSUME IInv, ManualEdit PROVE IInv'
  OBVIOUS
<1>1. PICK c \in Contents :
          /\ ver' = [ver EXCEPT ![NextVersion] =
                [ver[Cur] EXCEPT !.status = "review", !.content = c,
                    !.reviewStatus = "required", !.embedding = "pending_review",
                    !.publishedAt = FALSE, !.chunks = None, !.section = NoSection]]
          /\ run' = Requeued(run, [v |-> NextVersion, c |-> c, phase |-> "initial"])
  BY DEF ManualEdit
<1>2. PICK v, x : v = NextVersion /\
          x = [ver[Cur] EXCEPT !.status = "review", !.content = c,
                  !.reviewStatus = "required", !.embedding = "pending_review",
                  !.publishedAt = FALSE, !.chunks = None, !.section = NoSection]
  OBVIOUS
<1>3. v \in Versions /\ v = doc.current + 1 /\ v > doc.current
  BY <1>2, CurrentIs, KnowledgeAssumption DEF ManualEdit, NextVersion, Versions
<1>4. x \in Version /\ x.status = "review" /\ x.reviewStatus = "required" /\ x.embedding = "pending_review"
      /\ x.section = NoSection
  <2>1. PICK row : row = ver[Cur]
    OBVIOUS
  <2>2. row \in Version
    BY <2>1, CurrentIs
  <2>3. x = [row EXCEPT !.status = "review", !.content = c,
                 !.reviewStatus = "required", !.embedding = "pending_review",
                 !.publishedAt = FALSE, !.chunks = None, !.section = NoSection]
    BY <1>2, <2>1
  <2>4. NoSection \in Section /\ c \in MaybeContent /\ None \in MaybeContent /\ "review" \in Statuses \cup {"none"}
    BY DEF NoSection, Section, MaybeContent, Statuses
  <2>5. x \in Version
    BY <2>2, <2>3, <2>4 DEF Version
  <2>6. /\ x.status = "review" /\ x.reviewStatus = "required" /\ x.embedding = "pending_review"
        /\ x.section = NoSection
    BY <2>2, <2>3 DEF Version
  <2> QED
    BY <2>5, <2>6
<1>5. RowOK(v, x)'
  BY <1>4 DEF RowOK, NoSection
<1>6. PICK k : k = [v |-> v, c |-> c, phase |-> "initial"]
  OBVIOUS
<1>7. k \in RunKeys /\ k.v = v
  BY <1>3, <1>6, KeysAre DEF Phases
<1>8. run[k].status # "completed" /\ run' = [run EXCEPT ![k] = [NoRun EXCEPT !.status = "queued"]]
  BY <1>1, <1>2, <1>3, <1>6, <1>7, CurrentIs DEF Requeued, IInv, RunsPart, Versions
<1>9. doc' \in [status : Statuses, current : Versions] /\ doc'.current = doc.current + 1
  BY <1>2, <1>3 DEF ManualEdit, Statuses
<1>10. Grows /\ RunsPart'
  <2>1. endorsed \subseteq endorsed' /\ doc'.current \in Nat /\ doc.current <= doc'.current /\ k.v <= doc'.current
    BY <1>3, <1>7, <1>9, CurrentIs DEF ManualEdit
  <2> QED
    BY <1>7, <1>8, <2>1, NewRunIs, RunWritten
<1>11. VersPart'
  BY <1>1, <1>2, <1>3, <1>4, <1>5, <1>9, <1>10, RowWritten
<1>12. TasksPart' /\ JobsPart' /\ RestPart'
  BY <1>10, Frames, CurrentIs, ActIs DEF ManualEdit
<1> QED
  BY <1>10, <1>11, <1>12 DEF IInv

\* The copy was approved by people and embedded; older publications are archived.
LEMMA RollbackKeeps == IInv /\ Rollback => IInv'
<1> SUFFICES ASSUME IInv, Rollback PROVE IInv'
  OBVIOUS
<1>1. Grows
  BY SameGrows DEF Rollback
<1>2. PICK t \in Versions \ {Cur} :
          /\ ver[t].publishedAt /\ ver[t].status \in {"published", "archived"} /\ ReviewedEvidence(t)
          /\ ver' = [v \in Versions |->
                IF v = NextVersion
                THEN [ver[t] EXCEPT !.status = "published", !.section = NoSection]
                ELSE IF ver[v].status = "published"
                     THEN [ver[v] EXCEPT !.status = "archived"] ELSE ver[v]]
  BY DEF Rollback
<1>3. PICK n, x : n = NextVersion /\ x = [ver[t] EXCEPT !.status = "published", !.section = NoSection]
  OBVIOUS
<1>4. n \in Versions /\ n = doc.current + 1 /\ n > doc.current
  BY <1>3, CurrentIs, KnowledgeAssumption DEF Rollback, NextVersion, Versions
<1>5. ver[t] \in Version /\ RowOK(t, ver[t])
  BY CurrentIs
<1>6. x \in Version /\ x.status = "published"
  BY <1>3, <1>5 DEF Version, Statuses, Section, NoSection, MaybeContent
<1>7. RowOK(n, x)
  BY <1>2, <1>3, <1>5 DEF RowOK, ReviewedEvidence, Version, NoSection
<1>8. doc' \in [status : Statuses, current : Versions] /\ doc'.current = doc.current + 1
  BY <1>3, <1>4, CurrentIs DEF Rollback
<1>9. VersPart'
  <2>1. ASSUME NEW u \in Versions
        PROVE  /\ ver'[u] \in Version /\ RowOK(u, ver[u])'
               /\ ver'[u].status = "none" <=> u > doc'.current
    <3>1. CASE u = n
      <4>1. ver'[u] = x
        BY <1>2, <1>3, <3>1
      <4> QED
        BY <1>1, <1>4, <1>6, <1>7, <1>8, <3>1, <4>1, GrowsKeeps DEF Versions
    <3>2. CASE u # n
      <4>1. ver[u] \in Version /\ RowOK(u, ver[u]) /\ (ver[u].status = "none" <=> u > doc.current)
        BY CurrentIs
      <4>2. u > doc'.current <=> u > doc.current
        BY <1>4, <1>8, <3>2, CurrentIs DEF Versions
      <4>3. PICK y : y = IF ver[u].status = "published" THEN [ver[u] EXCEPT !.status = "archived"] ELSE ver[u]
        OBVIOUS
      <4>4. ver'[u] = y
        BY <1>2, <1>3, <3>2, <4>3
      <4>5. y \in Version /\ RowOK(u, y) /\ (y.status = "none" <=> ver[u].status = "none")
        <5>1. PICK s : s = "archived"
          OBVIOUS
        <5>2. s \in Statuses \ {"published"} /\ s # "none"
          BY <5>1 DEF Statuses
        <5> QED
          BY <4>1, <4>3, <5>1, <5>2, StatusIs
      <4> QED
        BY <1>1, <4>1, <4>2, <4>4, <4>5, GrowsKeeps
    <3> QED
      BY <3>1, <3>2
  <2>2. ver' \in [Versions -> Version]
    BY <1>2, <2>1
  <2> QED
    BY <1>8, <2>1, <2>2 DEF VersPart
<1>10. RunsPart' /\ TasksPart' /\ JobsPart' /\ RestPart'
  BY <1>1, <1>8, Frames, CurrentIs DEF Rollback
<1> QED
  BY <1>9, <1>10 DEF IInv
-----------------------------------------------------------------------------
(* The automation review.                                                  *)

LEMMA ReviewDroppedKeeps == ASSUME NEW r \in Reviewers PROVE IInv /\ ReviewDropped(r) => IInv'
<1> SUFFICES ASSUME IInv, ReviewDropped(r) PROVE IInv'
  OBVIOUS
<1> USE DEF ReviewDropped
<1>1. Grows
  BY SameGrows
<1>2. VersPart' /\ RunsPart' /\ TasksPart' /\ JobsPart'
  BY <1>1, Frames, CurrentIs
<1>3. RestPart'
  BY DEF IInv, RestPart
<1> QED
  BY <1>2, <1>3 DEF IInv

LEMMA ReviewLapsesKeeps == ASSUME NEW k \in RunKeys PROVE IInv /\ ReviewLapses(k) => IInv'
<1> SUFFICES ASSUME IInv, ReviewLapses(k) PROVE IInv'
  OBVIOUS
<1> USE DEF ReviewLapses
<1>1. PICK y : y = [run[k] EXCEPT !.status = "lapsed"]
  OBVIOUS
<1>2. y \in ReviewRun /\ k.v <= doc.current /\ run' = [run EXCEPT ![k] = y]
  BY <1>1 DEF IInv, RunsPart, ReviewRun
<1>3. Grows /\ RunsPart'
  <2>1. endorsed \subseteq endorsed' /\ doc'.current \in Nat /\ doc.current <= doc'.current /\ k.v <= doc'.current
    BY <1>2, CurrentIs
  <2> QED
    BY <1>2, <2>1, RunWritten
<1>4. VersPart' /\ TasksPart' /\ JobsPart' /\ RestPart'
  BY <1>3, Frames, CurrentIs, ActIs
<1> QED
  BY <1>3, <1>4 DEF IInv

LEMMA ReviewClaimKeeps == ASSUME NEW r \in Reviewers PROVE IInv /\ ReviewClaim(r) => IInv'
<1> SUFFICES ASSUME IInv, ReviewClaim(r) PROVE IInv'
  OBVIOUS
<1>1. PICK k \in RunKeys :
          /\ run[k].status \in {"queued", "lapsed"}
          /\ run' = [x \in RunKeys |->
                CASE x = k -> [run[k] EXCEPT !.status = "leased", !.holder = r]
                  [] x # k /\ run[x].status = "lapsed" ->
                        [run[x] EXCEPT !.status = "queued", !.holder = None]
                  [] OTHER -> run[x]]
          /\ leased' = [leased EXCEPT ![r] = k]
  BY DEF ReviewClaim
<1>2. \A x \in RunKeys : /\ run'[x] \in ReviewRun
                         /\ run[x].status = "completed" => run'[x] = run[x]
                         /\ run'[x].status # "none" => run[x].status # "none"
  <2> TAKE x \in RunKeys
  <2>1. run[x] \in ReviewRun
    BY DEF IInv, RunsPart
  <2>2. CASE x = k
    <3>1. run'[x] = [run[x] EXCEPT !.status = "leased", !.holder = r]
      BY <1>1, <2>2
    <3> QED
      BY <1>1, <2>1, <2>2, <3>1 DEF ReviewRun
  <2>3. CASE x # k /\ run[x].status = "lapsed"
    <3>1. run'[x] = [run[x] EXCEPT !.status = "queued", !.holder = None]
      BY <1>1, <2>3
    <3> QED
      BY <2>1, <2>3, <3>1 DEF ReviewRun
  <2>4. CASE x # k /\ run[x].status # "lapsed"
    <3>1. run'[x] = run[x]
      BY <1>1, <2>4
    <3> QED
      BY <2>1, <3>1
  <2> QED
    BY <2>2, <2>3, <2>4
<1>3. Grows
  BY <1>2 DEF Grows, ReviewClaim
<1>4. RunsPart'
  BY <1>1, <1>2 DEF IInv, RunsPart, ReviewClaim
<1>5. VersPart' /\ TasksPart' /\ JobsPart'
  BY <1>3, Frames, CurrentIs DEF ReviewClaim
<1>6. RestPart'
  BY <1>1 DEF IInv, RestPart, ReviewClaim
<1> QED
  BY <1>4, <1>5, <1>6 DEF IInv

LEMMA LeaseIs ==
    ASSUME IInv, NEW r \in Reviewers, LeaseValid(r)
    PROVE  /\ leased[r] \in RunKeys /\ run[leased[r]].status = "leased" /\ leased[r].v = Cur
           /\ ver[Cur].content = leased[r].c /\ leased[r].c \in Contents /\ leased[r].phase \in Phases
BY KeysAre DEF LeaseValid, LeaseHeld, IInv, RestPart

LEMMA NeedsHumanIs ==
    ASSUME IInv, Grows, NeedsHuman(Cur)
    PROVE  VersPart' /\ doc'.current = doc.current
<1>1. PICK v, x : v = Cur /\ x = [ver[Cur] EXCEPT !.status = "review", !.reviewStatus = "required"]
  OBVIOUS
<1>2. v \in Versions /\ ver[v] \in Version /\ RowOK(v, ver[v]) /\ ver[v].status # "none"
  BY <1>1, CurrentIs
<1>3. x \in Version /\ x.status = "review" /\ RowOK(v, x)
  BY <1>1, <1>2 DEF Version, Statuses, RowOK
<1>4. ver' = [ver EXCEPT ![v] = x]
  BY <1>1, <1>2, CurrentIs DEF NeedsHuman, IInv, VersPart
<1>5. doc' \in [status : Statuses, current : Versions] /\ doc'.current = doc.current
  BY DocStatusIs DEF NeedsHuman, Statuses
<1> QED
  BY <1>2, <1>3, <1>4, <1>5, GrowsKeeps, RowWritten

LEMMA RefusedIs ==
    ASSUME IInv, NEW k \in RunKeys, run[k].status # "completed", k.v = Cur, Refused(k),
           UNCHANGED endorsed
    PROVE  Grows /\ (doc'.current = doc.current => RunsPart')
<1>1. run' = [run EXCEPT ![k] = [NoRun EXCEPT !.status = "refused"]] /\ endorsed \subseteq endorsed'
  BY DEF Refused
<1>2. PICK y : y = [NoRun EXCEPT !.status = "refused"]
  OBVIOUS
<1>3. y \in ReviewRun /\ run' = [run EXCEPT ![k] = y]
  BY <1>1, <1>2, NewRunIs
<1>4. doc'.current = doc.current => doc'.current \in Nat /\ doc.current <= doc'.current /\ k.v <= doc'.current
  BY CurrentIs
<1> QED
  BY <1>1, <1>3, <1>4, RunWritten

LEMMA ReviewRefusedKeeps == ASSUME NEW r \in Reviewers PROVE IInv /\ ReviewRefused(r) => IInv'
<1> SUFFICES ASSUME IInv, ReviewRefused(r) PROVE IInv'
  OBVIOUS
<1>1. PICK k : k = leased[r]
  OBVIOUS
<1>2. k \in RunKeys /\ run[k].status # "completed" /\ k.v = Cur /\ Refused(k)
  BY <1>1, LeaseIs DEF ReviewRefused
<1>3. Grows /\ (doc'.current = doc.current => RunsPart')
  BY <1>2, RefusedIs DEF ReviewRefused
<1>4. VersPart' /\ doc'.current = doc.current
  BY <1>3, NeedsHumanIs DEF ReviewRefused
<1>5. TasksPart' /\ JobsPart'
  BY <1>3, Frames, CurrentIs DEF ReviewRefused
<1>6. RestPart'
  BY DEF IInv, RestPart, ReviewRefused
<1> QED
  BY <1>3, <1>4, <1>5, <1>6 DEF IInv

LEMMA FinishedIs ==
    ASSUME NEW low \in BOOLEAN, NEW v \in Versions, NEW c \in Contents, NEW n \in Versions \cup {0}
    PROVE  LET y == [status |-> "completed", low |-> low, outV |-> v, outC |-> c, revised |-> n, holder |-> None]
           IN  y \in ReviewRun /\ y.status = "completed" /\ y.outC = c /\ y.outV = v
BY DEF ReviewRun, Versions, MaybeContent

\* An approving initial run: of the present text, or of a new version it wrote.
LEMMA InitialApprovedKeeps == ASSUME NEW r \in Reviewers PROVE IInv /\ InitialApproved(r) => IInv'
<1> SUFFICES ASSUME IInv, InitialApproved(r) PROVE IInv'
  OBVIOUS
<1>1. PICK k : k = leased[r]
  OBVIOUS
<1>2. k \in RunKeys /\ run[k].status = "leased" /\ k.v = Cur /\ ver[Cur].content = k.c /\ k.c \in Contents
      /\ k.phase = "initial"
  BY <1>1, LeaseIs DEF InitialApproved
<1>3. PICK low \in BOOLEAN, revised \in MaybeContent :
         /\ revised # None => Cur < MaxVersions
         /\ LET v == IF revised = None THEN Cur ELSE NextVersion
                c == IF revised = None THEN k.c ELSE revised
            IN  /\ IF revised = None THEN UNCHANGED <<ver, doc>>
                   ELSE /\ ver' = [ver EXCEPT ![v] =
                              [ver[Cur] EXCEPT !.status = "review",
                                  !.content = c, !.reviewStatus = "required",
                                  !.review = NoReview, !.chunks = None,
                                  !.embedding = "pending_review",
                                  !.publishedAt = FALSE,
                                  !.section = NoSection]]
                        /\ doc' = [status |-> "review", current |-> v]
                /\ run' = QueueNew(Finished(k, low, v, c, IF revised = None THEN 0 ELSE v),
                                   [v |-> v, c |-> c, phase |-> "verify"])
  BY <1>1 DEF InitialApproved
<1>4. PICK v, c, n : /\ v = IF revised = None THEN Cur ELSE NextVersion
                     /\ c = IF revised = None THEN k.c ELSE revised
                     /\ n = IF revised = None THEN 0 ELSE v
  OBVIOUS
<1>5. v \in Versions /\ c \in Contents /\ n \in Versions \cup {0} /\ doc.current <= v
      /\ (revised # None => v = doc.current + 1)
  BY <1>2, <1>3, <1>4, CurrentIs, KnowledgeAssumption DEF NextVersion, Versions, MaybeContent
<1>6. doc' \in [status : Statuses, current : Versions] /\ doc'.current = v
  BY <1>3, <1>4, <1>5, CurrentIs DEF Statuses
<1>7. Grows /\ RunsPart'
  <2>1. PICK y : y = [status |-> "completed", low |-> low, outV |-> v, outC |-> c, revised |-> n, holder |-> None]
    OBVIOUS
  <2>2. y \in ReviewRun /\ y.status = "completed"
    BY <1>5, <2>1, FinishedIs
  <2>3. PICK rs, k2 : rs = [run EXCEPT ![k] = y] /\ k2 = [v |-> v, c |-> c, phase |-> "verify"]
    OBVIOUS
  <2>4. k2 \in RunKeys /\ k2.v = v /\ k2.phase = "verify" /\ k2 # k
    BY <1>2, <1>5, <2>3, KeysAre DEF Phases
  <2>5. run' = QueueNew(rs, k2)
    BY <1>3, <1>4, <2>1, <2>3 DEF Finished
  <2>6. \A j \in RunKeys : run[j] \in ReviewRun /\ (run[j].status # "none" => j.v <= v)
    <3>1. \A j \in RunKeys : run[j] \in ReviewRun /\ (run[j].status # "none" => j.v <= doc.current)
      BY DEF IInv, RunsPart
    <3>2. \A j \in RunKeys : j.v \in Nat
      BY KeysAre
    <3>3. v \in Nat /\ doc.current \in Nat
      BY <1>5, CurrentIs, KeysAre
    <3> QED
      BY <1>5, <3>1, <3>2, <3>3
  <2>7. \A j \in RunKeys : /\ rs[j] \in ReviewRun /\ (rs[j].status # "none" => j.v <= v)
                           /\ run[j].status = "completed" => rs[j] = run[j]
    BY <1>2, <1>5, <2>2, <2>3, <2>6, CurrentIs DEF IInv, RunsPart
  <2>8. \A j \in RunKeys : /\ run'[j] \in ReviewRun /\ (run'[j].status # "none" => j.v <= v)
                           /\ run[j].status = "completed" => run'[j] = run[j]
    <3>1. CASE rs[k2].status = "none"
      <4>1. run' = [rs EXCEPT ![k2] = [NoRun EXCEPT !.status = "queued"]]
        BY <2>5, <3>1 DEF QueueNew
      <4>2. \A j \in RunKeys : run'[j] = IF j = k2 THEN [NoRun EXCEPT !.status = "queued"] ELSE rs[j]
        BY <2>3, <4>1 DEF IInv, RunsPart
      <4>3. run[k2].status # "completed" /\ k2.v <= v
        BY <1>5, <2>3, <2>4, <3>1 DEF IInv, RunsPart, Versions
      <4> QED
        BY <2>4, <2>7, <4>2, <4>3, NewRunIs
    <3>2. CASE rs[k2].status # "none"
      BY <2>5, <2>7, <3>2 DEF QueueNew
    <3> QED
      BY <3>1, <3>2
  <2>9. run' \in [RunKeys -> ReviewRun]
    <3>1. rs \in [RunKeys -> ReviewRun]
      BY <2>2, <2>3 DEF IInv, RunsPart
    <3> QED
      BY <2>5, <3>1, NewRunIs DEF QueueNew
  <2> QED
    BY <1>6, <2>8, <2>9 DEF Grows, RunsPart, InitialApproved
<1>8. VersPart'
  <2>1. CASE revised = None
    BY <1>3, <1>7, <2>1, Frames
  <2>2. CASE revised # None
    <3>1. PICK x : x = [ver[Cur] EXCEPT !.status = "review", !.content = c, !.reviewStatus = "required",
                                        !.review = NoReview, !.chunks = None, !.embedding = "pending_review",
                                        !.publishedAt = FALSE, !.section = NoSection]
      OBVIOUS
    <3>2. ver' = [ver EXCEPT ![v] = x]
      BY <1>3, <1>4, <2>2, <3>1
    <3>3. x \in Version /\ x.status = "review" /\ x.reviewStatus = "required" /\ x.embedding = "pending_review"
          /\ x.section = NoSection
      <4>1. NoReview \in Review /\ NoSection \in Section
        BY DEF NoReview, NoSection, Review, Section, MaybeContent
      <4> QED
        BY <1>5, <3>1, <4>1, CurrentIs DEF Version, Statuses, MaybeContent
    <3>4. RowOK(v, x)'
      BY <3>3 DEF RowOK, NoSection
    <3> QED
      BY <1>5, <1>6, <1>7, <2>2, <3>2, <3>3, <3>4, RowWritten
  <2> QED
    BY <2>1, <2>2
<1>9. TasksPart' /\ JobsPart'
  BY <1>7, Frames, CurrentIs DEF InitialApproved
<1>10. RestPart'
  BY DEF IInv, RestPart, InitialApproved
<1> QED
  BY <1>7, <1>8, <1>9, <1>10 DEF IInv

\* With its pair the text counts as approved.
LEMMA PairBacks ==
    ASSUME NEW v, NEW c, Pair(v, c)
    PROVE  Backed(c)
BY DEF Pair, Backed, Eligible

LEMMA FirstInitialIs ==
    ASSUME NEW v \in Versions, NEW c \in Contents
    PROVE  FirstInitial(v, c) \in RunKeys
<1>1. CASE \E k \in RunKeys : run[k].revised = v
  BY <1>1 DEF FirstInitial
<1>2. CASE ~\E k \in RunKeys : run[k].revised = v
  <2>1. FirstInitial(v, c) = [v |-> v, c |-> c, phase |-> "initial"]
    BY <1>2 DEF FirstInitial
  <2> QED
    BY <2>1, KeysAre DEF RunKeys, Phases
<1> QED
  BY <1>1, <1>2

\* The pair is complete: an approving run that makes it so embeds or publishes.
LEMMA VerifyApprovedKeeps == ASSUME NEW r \in Reviewers PROVE IInv /\ VerifyApproved(r) => IInv'
<1> SUFFICES ASSUME IInv, VerifyApproved(r) PROVE IInv'
  OBVIOUS
<1>1. PICK k, v : k = leased[r] /\ v = Cur
  OBVIOUS
<1>2. k \in RunKeys /\ run[k].status = "leased" /\ k.v = v /\ ver[v].content = k.c /\ k.c \in Contents
      /\ k.phase = "verify" /\ v \in Versions /\ v = doc.current /\ v \in Nat
  BY <1>1, LeaseIs, CurrentIs DEF VerifyApproved
<1>3. PICK low \in BOOLEAN :
         LET done == Finished(k, low, Cur, k.c, 0)
             ready == PublicationReady(RunKeys, done, Cur, k.c)
             full == ver[Cur].mode = "full_text"
             review == [status |-> "approved", of |-> k.c, mode |-> "policy"]
         IN  \/ /\ ready /\ full
                /\ ver' = [ver EXCEPT ![Cur] =
                      [@ EXCEPT !.status = "review", !.reviewStatus = "approved",
                          !.embedding = "queued", !.review = review]]
                /\ task' = Enqueue(task, [v |-> Cur, c |-> k.c, by |-> "policy"],
                                   FirstInitial(Cur, k.c))
                /\ run' = done
                /\ UNCHANGED doc
             \/ /\ ready /\ ~full
                /\ ver' = [ver EXCEPT ![Cur] =
                      [@ EXCEPT !.status = "published", !.publishedAt = TRUE,
                          !.reviewStatus = "approved",
                          !.embedding = "metadata_only", !.review = review]]
                /\ doc' = [doc EXCEPT !.status = "published"]
                /\ run' = done
                /\ UNCHANGED task
             \/ /\ ~ready /\ NeedsHuman(Cur)
                /\ Refused(k)
                /\ UNCHANGED task
  BY <1>1 DEF VerifyApproved
<1>4. RestPart'
  BY DEF IInv, RestPart, VerifyApproved
<1>5. PICK done, t : done = Finished(k, low, Cur, k.c, 0) /\ t = [status |-> "approved", of |-> k.c, mode |-> "policy"]
  OBVIOUS
<1>6. t \in Review /\ t.of = k.c /\ t.mode = "policy"
  BY <1>2, <1>5 DEF Review, MaybeContent
<1>7. ASSUME run' = done, doc'.current = doc.current
      PROVE  Grows /\ RunsPart'
  <2>1. PICK y : y = [status |-> "completed", low |-> low, outV |-> v, outC |-> k.c, revised |-> 0, holder |-> None]
    OBVIOUS
  <2>2. y \in ReviewRun /\ run' = [run EXCEPT ![k] = y]
    BY <1>1, <1>2, <1>5, <1>7, <2>1, FinishedIs DEF Finished
  <2>3. endorsed \subseteq endorsed' /\ doc'.current \in Nat /\ doc.current <= doc'.current /\ k.v <= doc'.current
    BY <1>2, <1>7, CurrentIs DEF VerifyApproved
  <2> QED
    BY <1>2, <2>2, <2>3, RunWritten
<1>8. ASSUME PublicationReady(RunKeys, done, v, k.c), run' = done
      PROVE  Pair(v, k.c)' /\ Backed(k.c)'
  <2>1. \A p \in Phases : \E j \in RunKeys : j.phase = p /\ done[j].low /\ Eligible(j, done, v, k.c)
    BY <1>8, PairIs
  <2>2. Pair(v, k.c)'
    BY <1>8, <2>1 DEF Pair, Eligible
  <2> QED
    BY <2>2 DEF Pair, Backed, Eligible
<1>9. CASE /\ PublicationReady(RunKeys, done, v, k.c) /\ ver[v].mode = "full_text"
           /\ ver' = [ver EXCEPT ![v] =
                   [@ EXCEPT !.status = "review", !.reviewStatus = "approved", !.embedding = "queued", !.review = t]]
           /\ task' = Enqueue(task, [v |-> v, c |-> k.c, by |-> "policy"], FirstInitial(v, k.c))
           /\ run' = done /\ UNCHANGED doc
  <2>1. Grows /\ RunsPart' /\ Backed(k.c)'
    BY <1>7, <1>8, <1>9
  <2>2. PICK x : x = [ver[v] EXCEPT !.status = "review", !.reviewStatus = "approved", !.embedding = "queued", !.review = t]
    OBVIOUS
  <2>3. ver[v] \in Version /\ RowOK(v, ver[v]) /\ ver[v].status # "none"
    BY <1>1, <1>2, CurrentIs
  <2>4. /\ x \in Version /\ x.status = "review" /\ x.content = k.c /\ x.embedding = "queued"
        /\ x.review.of = k.c /\ x.section = ver[v].section
    BY <1>2, <1>6, <2>2, <2>3 DEF Version, Statuses
  <2>5. RowOK(v, x)'
    BY <2>1, <2>3, <2>4 DEF RowOK, Grows
  <2>6. VersPart'
    BY <1>2, <1>9, <2>1, <2>2, <2>3, <2>4, <2>5, RowWritten DEF IInv, VersPart
  <2>7. TasksPart'
    <3>1. PICK q, i : q = [v |-> v, c |-> k.c, by |-> "policy"] /\ i = FirstInitial(v, k.c)
      OBVIOUS
    <3>2. q \in Tasks /\ i \in RunKeys /\ i \in RunKeys \cup {None} /\ TasksPart
      BY <1>2, <3>1, FirstInitialIs, KeysAre DEF IInv
    <3> QED
      BY <1>9, <3>1, <3>2, EnqueueIs
  <2>8. JobsPart'
    BY <2>1, Frames, CurrentIs DEF VerifyApproved
  <2> QED
    BY <1>4, <2>1, <2>6, <2>7, <2>8 DEF IInv
<1>10. CASE /\ PublicationReady(RunKeys, done, v, k.c) /\ ver[v].mode # "full_text"
            /\ ver' = [ver EXCEPT ![v] =
                    [@ EXCEPT !.status = "published", !.publishedAt = TRUE, !.reviewStatus = "approved",
                              !.embedding = "metadata_only", !.review = t]]
            /\ doc' = [doc EXCEPT !.status = "published"]
            /\ run' = done /\ UNCHANGED task
  <2>1. doc' \in [status : Statuses, current : Versions] /\ doc'.current = doc.current
    BY <1>10, DocStatusIs DEF Statuses
  <2>2. Grows /\ RunsPart' /\ Backed(k.c)' /\ Pair(v, k.c)'
    BY <1>7, <1>8, <1>10, <2>1
  <2>3. PICK x : x = [ver[v] EXCEPT !.status = "published", !.publishedAt = TRUE, !.reviewStatus = "approved",
                                    !.embedding = "metadata_only", !.review = t]
    OBVIOUS
  <2>4. ver[v] \in Version /\ RowOK(v, ver[v]) /\ ver[v].status # "none"
    BY <1>1, <1>2, CurrentIs
  <2>5. /\ x \in Version /\ x.status = "published" /\ x.content = k.c /\ x.embedding = "metadata_only"
        /\ x.review.of = k.c /\ x.section = ver[v].section /\ x.mode # "full_text"
    BY <1>2, <1>6, <1>10, <2>3, <2>4 DEF Version, Statuses
  <2>6. RowOK(v, x)'
    BY <2>2, <2>4, <2>5 DEF RowOK, Grows
  <2>7. VersPart'
    BY <1>2, <1>10, <2>1, <2>2, <2>3, <2>4, <2>5, <2>6, RowWritten
  <2>8. JobsPart' /\ TasksPart'
    BY <1>10, <2>2, Frames, CurrentIs DEF VerifyApproved
  <2> QED
    BY <1>4, <2>2, <2>7, <2>8 DEF IInv
<1>11. CASE NeedsHuman(Cur) /\ Refused(k) /\ UNCHANGED task
  <2>1. Grows /\ (doc'.current = doc.current => RunsPart')
    BY <1>1, <1>2, <1>11, RefusedIs DEF VerifyApproved
  <2>2. VersPart' /\ doc'.current = doc.current
    BY <1>11, <2>1, NeedsHumanIs
  <2>3. TasksPart' /\ JobsPart'
    BY <1>11, <2>1, Frames, CurrentIs DEF VerifyApproved
  <2> QED
    BY <1>4, <2>1, <2>2, <2>3 DEF IInv
<1> QED
  BY <1>1, <1>3, <1>5, <1>9, <1>10, <1>11
-----------------------------------------------------------------------------
(* The ingestion worker.                                                   *)

LEMMA TaskLapsesKeeps == ASSUME NEW k \in Tasks PROVE IInv /\ TaskLapses(k) => IInv'
<1> SUFFICES ASSUME IInv, TaskLapses(k) PROVE IInv'
  OBVIOUS
<1>1. Grows
  BY SameGrows DEF TaskLapses
<1>2. PICK y : y = [task[k] EXCEPT !.lapsed = TRUE]
  OBVIOUS
<1>3. task[k] \in Task /\ Named(k, task[k]) /\ TasksPart
  BY DEF IInv, TasksPart
<1>4. y \in Task /\ Named(k, y)
  BY <1>2, <1>3 DEF Task, Named
<1>5. task' = [task EXCEPT ![k] = y]
  BY <1>2 DEF TaskLapses, IInv, TasksPart
<1>6. TasksPart'
  BY <1>3, <1>4, <1>5, TaskWritten
<1>7. VersPart' /\ RunsPart' /\ JobsPart' /\ RestPart'
  BY <1>1, Frames, CurrentIs, ActIs DEF TaskLapses
<1> QED
  BY <1>6, <1>7 DEF IInv

\* A worker that begins or ends a task has nothing loaded.
LEMMA JobIs ==
    ASSUME IInv, NEW w \in Workers, NEW k \in Tasks \cup {None}, job' = [job EXCEPT ![w] = [task |-> k, loaded |-> FALSE]]
    PROVE  job' \in [Workers -> Job] /\ \A u \in Workers : job'[u] = job[u] \/ ~job'[u].loaded
BY DEF IInv, JobsPart, Job

LEMMA IdleIs ==
    ASSUME IInv, NEW w \in Workers, Idle(w)
    PROVE  job' \in [Workers -> Job] /\ \A u \in Workers : job'[u] = job[u] \/ ~job'[u].loaded
BY JobIs DEF Idle, NoJob

LEMMA WorkerGoneKeeps == ASSUME NEW w \in Workers PROVE IInv /\ WorkerGone(w) => IInv'
<1> SUFFICES ASSUME IInv, WorkerGone(w) PROVE IInv'
  OBVIOUS
<1>1. Grows
  BY SameGrows DEF WorkerGone
<1>2. VersPart' /\ RunsPart' /\ TasksPart' /\ JobsPart' /\ RestPart'
  BY <1>1, Frames, CurrentIs, IdleIs DEF WorkerGone
<1> QED
  BY <1>2 DEF IInv

LEMMA ClaimTaskKeeps == ASSUME NEW w \in Workers PROVE IInv /\ ClaimTask(w) => IInv'
<1> SUFFICES ASSUME IInv, ClaimTask(w) PROVE IInv'
  OBVIOUS
<1>1. Grows
  BY SameGrows DEF ClaimTask
<1>2. PICK k \in Tasks :
          /\ task[k].status = "queued" \/ task[k].status = "running"
          /\ task' = [task EXCEPT ![k] =
                [@ EXCEPT !.status = "running", !.owner = w, !.lapsed = FALSE, !.attempts = task[k].attempts + 1]]
          /\ job' = [job EXCEPT ![w] = [task |-> k, loaded |-> FALSE]]
  BY DEF ClaimTask
<1>3. task[k] \in Task /\ Named(k, task[k]) /\ TasksPart
  BY DEF IInv, TasksPart
<1>4. PICK a, y : a = task[k].attempts + 1 /\
          y = [task[k] EXCEPT !.status = "running", !.owner = w, !.lapsed = FALSE, !.attempts = a]
  OBVIOUS
<1>5. y \in Task /\ Named(k, y)
  <2>1. a \in Int
    BY <1>3, <1>4 DEF Task
  <2>2. y \in Task
    BY <1>3, <1>4, <2>1 DEF Task
  <2>3. y.initial = task[k].initial
    BY <1>3, <1>4 DEF Task
  <2> QED
    BY <1>2, <1>3, <2>2, <2>3 DEF Named
<1>6. task' = [task EXCEPT ![k] = y]
  BY <1>2, <1>4
<1>7. TasksPart'
  BY <1>3, <1>5, <1>6, TaskWritten
<1>8. job' \in [Workers -> Job] /\ \A u \in Workers : job'[u] = job[u] \/ ~job'[u].loaded
  <2>1. k \in Tasks \cup {None}
    OBVIOUS
  <2> QED
    BY <1>2, <2>1, JobIs
<1>9. VersPart' /\ RunsPart' /\ JobsPart' /\ RestPart'
  BY <1>1, <1>8, Frames, CurrentIs DEF ClaimTask
<1> QED
  BY <1>7, <1>9 DEF IInv

\* What the worker writes of its task: it is finished or queued again.
LEMMA FinishIs ==
    ASSUME IInv, NEW k \in Tasks, NEW s \in {"succeeded", "failed"}, Finish(k, s)
    PROVE  TasksPart'
<1>1. PICK y : y = [NoTask EXCEPT !.status = s]
  OBVIOUS
<1>2. y \in Task /\ y.status = s
  BY <1>1, NewTaskIs DEF NoTask, Task
<1>3. task' = [task EXCEPT ![k] = y] /\ Named(k, y) /\ TasksPart
  BY <1>1, <1>2 DEF Finish, Named, IInv
<1> QED
  BY <1>2, <1>3, TaskWritten

LEMMA RequeueIs ==
    ASSUME IInv, NEW k \in Tasks, NEW n \in Int, Requeue(k, n), task[k].status = "running"
    PROVE  TasksPart'
<1>1. task[k] \in Task /\ Named(k, task[k]) /\ TasksPart
  BY DEF IInv, TasksPart
<1>2. PICK a, y : a = task[k].attempts - 1 /\
          y = [task[k] EXCEPT !.status = "queued", !.owner = None, !.lapsed = FALSE,
                  !.attempts = a, !.stage = "processing", !.polls = n]
  OBVIOUS
<1>3. y \in Task /\ Named(k, y)
  <2>1. a \in Int
    BY <1>1, <1>2 DEF Task
  <2>2. y \in Task
    BY <1>1, <1>2, <2>1 DEF Task
  <2>3. y.initial = task[k].initial
    BY <1>1, <1>2 DEF Task
  <2> QED
    BY <1>1, <2>2, <2>3 DEF Named
<1>4. task' = [task EXCEPT ![k] = y]
  BY <1>2 DEF Requeue
<1> QED
  BY <1>1, <1>3, <1>4, TaskWritten

LEMMA RetryIs ==
    ASSUME IInv, NEW k \in Tasks, Retry(k), task[k].status = "running"
    PROVE  TasksPart'
<1>1. task[k] \in Task /\ Named(k, task[k]) /\ TasksPart
  BY DEF IInv, TasksPart
<1>2. PICK y : y = [task[k] EXCEPT !.status = "queued", !.owner = None, !.lapsed = FALSE]
  OBVIOUS
<1>3. y \in Task /\ Named(k, y)
  BY <1>1, <1>2 DEF Task, Named
<1>4. task' = [task EXCEPT ![k] = y]
  BY <1>2 DEF Retry
<1> QED
  BY <1>1, <1>3, <1>4, TaskWritten

LEMMA DeferOcrKeeps == ASSUME NEW w \in Workers PROVE IInv /\ DeferOcr(w) => IInv'
<1> SUFFICES ASSUME IInv, DeferOcr(w) PROVE IInv'
  OBVIOUS
<1>1. Grows
  BY SameGrows DEF DeferOcr
<1>2. PICK n \in Int : Requeue(Ocr, n)
  <2>1. Requeue(Ocr, 0) \/ Requeue(Ocr, task[Ocr].polls + 1)
    BY DEF DeferOcr
  <2>2. task[Ocr].polls + 1 \in Int /\ 0 \in Int
    BY KeysAre DEF IInv, TasksPart, Task
  <2> QED
    BY <2>1, <2>2
<1>3. TasksPart'
  BY <1>2, KeysAre, RequeueIs DEF DeferOcr, Holds
<1>4. VersPart' /\ RunsPart' /\ JobsPart' /\ RestPart'
  BY <1>1, Frames, CurrentIs, IdleIs DEF DeferOcr
<1> QED
  BY <1>3, <1>4 DEF IInv

LEMMA WorkerFailsKeeps == ASSUME NEW w \in Workers PROVE IInv /\ WorkerFails(w) => IInv'
<1> SUFFICES ASSUME IInv, WorkerFails(w) PROVE IInv'
  OBVIOUS
<1>1. Grows
  BY SameGrows DEF WorkerFails
<1>2. PICK k \in Tasks : Holds(w, k) /\ (Retry(k) \/ Finish(k, "failed"))
  BY DEF WorkerFails
<1>3. TasksPart'
  BY <1>2, RetryIs, FinishIs DEF Holds
<1>4. VersPart' /\ RunsPart' /\ JobsPart' /\ RestPart'
  BY <1>1, Frames, CurrentIs, IdleIs DEF WorkerFails
<1> QED
  BY <1>3, <1>4 DEF IInv

LEMMA SaveParsedKeeps == ASSUME NEW w \in Workers PROVE IInv /\ SaveParsed(w) => IInv'
<1> SUFFICES ASSUME IInv, SaveParsed(w) PROVE IInv'
  OBVIOUS
<1>1. PICK c \in Contents :
          /\ ver' = [ver EXCEPT ![1] =
                [@ EXCEPT !.content = c, !.status = "review",
                    !.reviewStatus = "required", !.embedding = "pending_review",
                    !.review = NoReview, !.section = [of |-> c, approved |-> FALSE]]]
          /\ run' = QueueNew(run, [v |-> 1, c |-> c, phase |-> "initial"])
  BY DEF SaveParsed
<1>2. PICK v, t : v = 1 /\ t = [of |-> c, approved |-> FALSE]
  OBVIOUS
<1>3. v = Cur /\ v \in Versions /\ ver[v] \in Version /\ ver[v].status # "none"
  BY <1>2, CurrentIs DEF SaveParsed
<1>4. t \in Section /\ t.approved = FALSE /\ NoReview \in Review
  BY <1>2 DEF NoReview, Review, Section, MaybeContent
<1>5. PICK k : k = [v |-> v, c |-> c, phase |-> "initial"]
  OBVIOUS
<1>6. k \in RunKeys /\ k.v = v
  BY <1>3, <1>5 DEF RunKeys, Phases
<1>7. doc' \in [status : Statuses, current : Versions] /\ doc'.current = doc.current
  BY DocStatusIs DEF SaveParsed, Statuses
<1>8. Grows /\ RunsPart'
  <2>1. endorsed \subseteq endorsed' /\ doc'.current \in Nat /\ doc.current <= doc'.current /\ k.v <= doc'.current
    BY <1>3, <1>6, <1>7, CurrentIs DEF SaveParsed
  <2>2. run' = QueueNew(run, k)
    BY <1>1, <1>2, <1>5
  <2> QED
    BY <1>6, <2>1, <2>2, QueueNewIs
<1>9. PICK x : x = [ver[v] EXCEPT !.content = c, !.status = "review", !.reviewStatus = "required",
                                  !.embedding = "pending_review", !.review = NoReview, !.section = t]
  OBVIOUS
<1>10. x \in Version /\ x.status = "review" /\ x.reviewStatus = "required" /\ x.embedding = "pending_review"
       /\ x.section = t
  BY <1>3, <1>4, <1>9 DEF Version, Statuses, MaybeContent
<1>11. RowOK(v, x)'
  BY <1>4, <1>10 DEF RowOK
<1>12. ver' = [ver EXCEPT ![v] = x]
  BY <1>1, <1>2, <1>9
<1>13. VersPart'
  BY <1>3, <1>7, <1>8, <1>10, <1>11, <1>12, RowWritten
<1>14. TasksPart'
  BY FinishIs, KeysAre DEF SaveParsed
<1>15. JobsPart' /\ RestPart'
  BY <1>8, Frames, CurrentIs, IdleIs DEF SaveParsed
<1> QED
  BY <1>8, <1>13, <1>14, <1>15 DEF IInv

\* The text that is loaded has its approval.
LEMMA LoadApprovedKeeps == ASSUME NEW w \in Workers PROVE IInv /\ LoadApproved(w) => IInv'
<1> SUFFICES ASSUME IInv, LoadApproved(w) PROVE IInv'
  OBVIOUS
<1>1. Grows
  BY SameGrows DEF LoadApproved
<1>2. VersPart' /\ RunsPart' /\ RestPart'
  BY <1>1, Frames, CurrentIs DEF LoadApproved
<1>3. PICK k \in Embeddings :
          /\ Holds(w, k)
          /\ \/ Loadable(k) /\ job' = [job EXCEPT ![w].loaded = TRUE] /\ UNCHANGED task
             \/ Finish(k, "succeeded") /\ Idle(w)
  BY DEF LoadApproved
<1>4. CASE Loadable(k) /\ job' = [job EXCEPT ![w].loaded = TRUE] /\ UNCHANGED task
  <2>1. Backed(k.c)
    BY <1>4, CurrentIs, KeysAre DEF Loadable, RowOK
  <2>2. job[w].task = k /\ job \in [Workers -> Job]
    BY <1>3 DEF Holds, IInv, JobsPart
  <2>3. job' \in [Workers -> Job] /\ job'[w].task = k /\ \A u \in Workers : u # w => job'[u] = job[u]
    BY <1>4, <2>2 DEF Job
  <2>4. JobsPart'
    BY <1>1, <1>3, <2>1, <2>3, GrowsKeeps DEF IInv, JobsPart
  <2>5. TasksPart'
    BY <1>1, <1>4, Frames
  <2> QED
    BY <1>2, <2>4, <2>5 DEF IInv
<1>5. CASE Finish(k, "succeeded") /\ Idle(w)
  <2>1. TasksPart'
    BY <1>5, FinishIs, KeysAre
  <2>2. JobsPart'
    BY <1>1, <1>5, Frames, IdleIs
  <2> QED
    BY <1>2, <2>1, <2>2 DEF IInv
<1> QED
  BY <1>3, <1>4, <1>5

\* What the two runs a task names allow is there, whenever the worker asks.
LEMMA AutoPublishHasPair ==
    ASSUME IInv, NEW k \in Embeddings, AutoPublish(k), task[k].status = "running"
    PROVE  Pair(k.v, k.c)
<1>1. PICK keys : keys = {task[k].initial, [v |-> k.v, c |-> k.c, phase |-> "verify"]}
  OBVIOUS
<1>2. keys \subseteq RunKeys
  <2>1. task[k].initial \in RunKeys
    BY KeysAre DEF AutoPublish, IInv, TasksPart, Named
  <2>2. [v |-> k.v, c |-> k.c, phase |-> "verify"] \in RunKeys
    BY KeysAre DEF RunKeys, Phases
  <2> QED
    BY <1>1, <2>1, <2>2
<1>3. PublicationReady(keys, run, k.v, k.c)
  BY <1>1 DEF AutoPublish
<1>4. \A p \in Phases : \E j \in keys : j.phase = p /\ run[j].low /\ Eligible(j, run, k.v, k.c)
  BY <1>3, PairIs
<1> QED
  BY <1>2, <1>4 DEF Pair

LEMMA SaveEmbeddingsKeeps == ASSUME NEW w \in Workers PROVE IInv /\ SaveEmbeddings(w) => IInv'
<1> SUFFICES ASSUME IInv, SaveEmbeddings(w) PROVE IInv'
  OBVIOUS
<1>1. Grows
  BY SameGrows DEF SaveEmbeddings
<1>2. PICK k \in Embeddings :
          /\ Holds(w, k) /\ job[w].loaded /\ k.v = Cur /\ StillReviewed(k)
          /\ LET status == IF AutoPublish(k) THEN "published" ELSE "review"
                 published == ver[k.v].publishedAt \/ AutoPublish(k)
             IN  /\ ver' = [ver EXCEPT ![k.v] =
                       [@ EXCEPT !.status = status, !.reviewStatus = "approved",
                           !.publishedAt = published,
                           !.embedding = "completed", !.chunks = k.c,
                           !.review = [status |-> "approved", of |-> k.c,
                               mode |-> IF k.by = "section" THEN "none" ELSE k.by]]]
                 /\ doc' = [doc EXCEPT !.status = status]
          /\ Finish(k, "succeeded")
  BY DEF SaveEmbeddings
<1>3. PICK v, c, s, p, m :
          /\ v = k.v /\ c = k.c /\ s = IF AutoPublish(k) THEN "published" ELSE "review"
          /\ p = (ver[k.v].publishedAt \/ AutoPublish(k))
          /\ m = IF k.by = "section" THEN "none" ELSE k.by
  OBVIOUS
<1>4. /\ v \in Versions /\ c \in Contents /\ v = doc.current /\ ver[v] \in Version /\ RowOK(v, ver[v])
      /\ ver[v].content = c /\ ver[v].status = "review"
  BY <1>2, <1>3, CurrentIs, KeysAre DEF StillReviewed
<1>5. p \in BOOLEAN
  BY <1>3
<1>6. s \in {"published", "review"} /\ s \in Statuses
  BY <1>3 DEF Statuses
<1>7. m \in {"none", "manual", "policy"}
  BY <1>3, KeysAre
<1>8. PICK t, x : /\ t = [status |-> "approved", of |-> c, mode |-> m]
                  /\ x = [ver[v] EXCEPT !.status = s, !.reviewStatus = "approved", !.publishedAt = p,
                                        !.embedding = "completed", !.chunks = c, !.review = t]
  OBVIOUS
<1>9. t \in Review /\ t.of = c /\ t.mode = m
  BY <1>4, <1>7, <1>8 DEF Review, MaybeContent
<1>10. /\ x \in Version /\ x.status = s /\ x.content = c /\ x.chunks = c /\ x.review = t
       /\ x.section = ver[v].section
  BY <1>4, <1>5, <1>6, <1>8, <1>9 DEF Version, MaybeContent
<1>11. Backed(c)
  BY <1>2, <1>3 DEF Holds, IInv, JobsPart
<1>12. s = "published" => Pair(v, c)
  BY <1>2, <1>3, AutoPublishHasPair DEF Holds
<1>13. RowOK(v, x)
  BY <1>4, <1>9, <1>10, <1>11, <1>12 DEF RowOK
<1>14. RowOK(v, x)'
  BY <1>1, <1>13, GrowsKeeps
<1>15. ver' = [ver EXCEPT ![v] = x] /\ doc' = [doc EXCEPT !.status = s]
  BY <1>2, <1>3, <1>8
<1>16. doc' \in [status : Statuses, current : Versions] /\ doc'.current = doc.current
  BY <1>6, <1>15, DocStatusIs
<1>17. VersPart'
  BY <1>1, <1>4, <1>6, <1>10, <1>14, <1>15, <1>16, RowWritten
<1>18. TasksPart'
  BY <1>2, FinishIs, KeysAre
<1>19. RunsPart' /\ JobsPart' /\ RestPart'
  BY <1>1, <1>16, Frames, CurrentIs, IdleIs DEF SaveEmbeddings
<1> QED
  BY <1>17, <1>18, <1>19 DEF IInv
-----------------------------------------------------------------------------
(* The invariant holds.                                                    *)

LEMMA InitHolds == Init => IInv
<1> SUFFICES ASSUME Init PROVE IInv
  OBVIOUS
<1>1. PICK o \in Origins, c \in Contents, m \in Modes :
        /\ doc = [status |-> FirstStatus(o), current |-> 1]
        /\ ver = [v \in Versions |-> IF v = 1 THEN FirstVersion(o, c, m) ELSE Absent]
  BY DEF Init
<1>2. o \in {"candidate", "draft", "upload", "provisional"}
  BY KnowledgeAssumption
<1>3. Absent \in Version /\ Absent.status = "none" /\ Absent.section.approved = FALSE
      /\ Absent.reviewStatus = "required" /\ Absent.embedding = "pending_review"
  BY DEF Absent, NoReview, NoSection, Version, Review, Section, MaybeContent, Modes
<1>4. PICK x : x = FirstVersion(o, c, m)
  OBVIOUS
<1>5. /\ x \in Version /\ x.status = FirstStatus(o) /\ x.section.approved = FALSE /\ x.reviewStatus = "required"
      /\ x.embedding = "completed" => x.chunks = x.content
      /\ x.status = "published" => (x.mode = "full_text" => x.chunks = x.content) /\ x.review.mode # "policy"
  <2>1. PICK e, t, ch : /\ e = IF m = "full_text" THEN "completed" ELSE "not_applicable"
                        /\ t = [of |-> c, approved |-> FALSE]
                        /\ ch = IF m = "full_text" THEN c ELSE None
    OBVIOUS
  <2>2. t \in Section /\ t.approved = FALSE /\ ch \in MaybeContent /\ c \in MaybeContent
    BY <2>1 DEF Section, MaybeContent
  <2>3. Absent.review.mode = "none"
    BY DEF Absent, NoReview
  <2>4. CASE o = "candidate"
    <3>1. x = [Absent EXCEPT !.status = "review", !.content = c, !.mode = m,
                !.embedding = IF m = "full_text" THEN "pending_review" ELSE "not_applicable", !.section = t]
      BY <1>4, <2>1, <2>4 DEF FirstVersion
    <3> QED
      BY <1>3, <2>2, <2>4, <3>1 DEF Version, Statuses, FirstStatus
  <2>5. CASE o = "draft"
    <3>1. x = [Absent EXCEPT !.status = "draft", !.content = c, !.mode = m]
      BY <1>4, <2>5 DEF FirstVersion
    <3> QED
      BY <1>3, <2>2, <2>5, <3>1 DEF Version, Statuses, FirstStatus
  <2>6. CASE o = "upload"
    <3>1. x = [Absent EXCEPT !.status = "processing"]
      BY <1>4, <2>6 DEF FirstVersion
    <3> QED
      BY <1>3, <2>6, <3>1 DEF Version, Statuses, FirstStatus
  <2>7. CASE o = "provisional"
    <3>1. x = [Absent EXCEPT !.status = "published", !.content = c, !.mode = m, !.pinned = c, !.publishedAt = TRUE,
                             !.embedding = e, !.chunks = ch]
      BY <1>4, <2>1, <2>7 DEF FirstVersion
    <3>2. e \in {"completed", "not_applicable"} /\ (e = "completed" => ch = c) /\ (m = "full_text" => ch = c)
      BY <2>1
    <3>3. x \in Version /\ x.status = "published" /\ x.section = Absent.section /\ x.reviewStatus = "required"
          /\ x.embedding = e /\ x.chunks = ch /\ x.content = c /\ x.mode = m /\ x.review = Absent.review
      BY <1>3, <2>2, <3>1, <3>2 DEF Version, Statuses
    <3> QED
      BY <1>3, <2>3, <2>7, <3>2, <3>3 DEF FirstStatus
  <2> QED
    BY <1>2, <2>4, <2>5, <2>6, <2>7
<1>6. FirstStatus(o) \in Statuses /\ FirstStatus(o) # "none"
  BY <1>2 DEF FirstStatus, Statuses
<1>7. 1 \in Versions
  BY KnowledgeAssumption DEF Versions
<1>8. VersPart
  <2>1. \A v \in Versions : /\ ver[v] \in Version /\ RowOK(v, ver[v])
                            /\ ver[v].status = "none" <=> v > doc.current
    <3> TAKE v \in Versions
    <3>1. CASE v = 1
      BY <1>1, <1>4, <1>5, <1>6, <3>1 DEF RowOK
    <3>2. CASE v # 1
      BY <1>1, <1>3, <3>2 DEF RowOK, Versions
    <3> QED
      BY <3>1, <3>2
  <2>2. ver \in [Versions -> Version]
    BY <1>1, <2>1
  <2> QED
    BY <1>1, <1>6, <1>7, <2>1, <2>2 DEF VersPart
<1>9. RunsPart
  BY NewRunIs DEF Init, RunsPart
<1>10. TasksPart
  BY DEF Init, TasksPart, NoTask, Task, Named
<1>11. JobsPart
  BY DEF Init, JobsPart, NoJob, Job
<1>12. RestPart
  BY KnowledgeAssumption DEF Init, RestPart
<1> QED
  BY <1>8, <1>9, <1>10, <1>11, <1>12 DEF IInv

LEMMA Step == IInv /\ [Next]_vars => IInv'
<1> SUFFICES ASSUME IInv, [Next]_vars PROVE IInv'
  OBVIOUS
<1>1. CASE Human
  BY <1>1, BeginEditKeeps, CommitEditKeeps, OpenWorkspaceKeeps, DecideKeeps, BeginSignOffKeeps,
     CommitSignOffKeeps, PublishKeeps, ArchiveKeeps, RollbackKeeps, ToggleSourceKeeps, RetryReviewKeeps,
     ManualApproveKeeps, ManualEditKeeps, RequeuePendingKeeps, UploadCompleteKeeps DEF Human
<1>2. CASE \E r \in Reviewers : Automation(r)
  BY <1>2, ReviewClaimKeeps, ReviewDroppedKeeps, ReviewRefusedKeeps, InitialApprovedKeeps,
     VerifyApprovedKeeps DEF Automation
<1>3. CASE \E w \in Workers : Worker(w)
  BY <1>3, ClaimTaskKeeps, DeferOcrKeeps, SaveParsedKeeps, LoadApprovedKeeps, SaveEmbeddingsKeeps,
     WorkerFailsKeeps, WorkerGoneKeeps DEF Worker
<1>4. CASE \E k \in RunKeys : ReviewLapses(k)
  BY <1>4, ReviewLapsesKeeps
<1>5. CASE \E k \in Tasks : TaskLapses(k)
  BY <1>5, TaskLapsesKeeps
<1>6. CASE UNCHANGED vars
  <2>1. UNCHANGED <<doc, ver, source, run, task, leased, job, editing, signing, origin, endorsed, acts>>
    BY <1>6 DEF vars
  <2>2. Grows
    BY <2>1, SameGrows
  <2>3. VersPart' /\ RunsPart' /\ TasksPart' /\ JobsPart' /\ RestPart'
    BY <2>1, <2>2, Frames, CurrentIs
  <2> QED
    BY <2>3 DEF IInv
<1> QED
  BY <1>1, <1>2, <1>3, <1>4, <1>5, <1>6 DEF Next

\* Approvals are of the present text and never taken back, what workers have
\* loaded was approved, and a published row has what its review asks for.
THEOREM Inductive == Spec => []IInv
BY InitHolds, Step, PTL DEF Spec

\* Every variable keeps its type, and the versions are numbered without a gap up
\* to the current one (knowledge_document.current_version).
THEOREM TypeCorrect == Spec => []TypeOK
<1>1. IInv => TypeOK
  <2> SUFFICES ASSUME IInv PROVE TypeOK
    OBVIOUS
  <2>1. \A v \in Versions :
          /\ ver[v].status \in Statuses \cup {"none"}
          /\ ver[v].status = "none" <=> v > Cur
          /\ ver[v].content \in MaybeContent /\ ver[v].mode \in Modes
          /\ ver[v].chunks \in MaybeContent
    BY CurrentIs DEF Version
  <2>2. \A k \in RunKeys : run[k].status \in {"none", "queued", "leased", "lapsed", "completed", "refused"}
    BY DEF IInv, RunsPart, ReviewRun
  <2>3. \A k \in Tasks : task[k].status \in {"none", "queued", "running", "succeeded", "failed"}
    BY DEF IInv, TasksPart, Task
  <2>4. \A w \in Workers : job[w].task \in Tasks \cup {None}
    BY DEF IInv, JobsPart, Job
  <2>5. doc \in [status : Statuses, current : Versions] /\ source \in BOOLEAN
        /\ leased \in [Reviewers -> RunKeys \cup {None}] /\ endorsed \subseteq Contents /\ acts \in 0..MaxActs
    BY DEF IInv, VersPart, RestPart
  <2> QED
    BY <2>1, <2>2, <2>3, <2>4, <2>5 DEF TypeOK
<1> QED
  BY <1>1, Inductive, PTL

\* The chunks of an embedding that counts as completed are of the text the
\* version has (saveEmbeddingsAndComplete against a concurrent edit).
THEOREM EmbeddedCurrent == Spec => []EmbeddedIsCurrent
<1>1. IInv => EmbeddedIsCurrent
  BY CurrentIs DEF EmbeddedIsCurrent, RowOK
<1> QED
  BY <1>1, Inductive, PTL

\* What is published under the automation policy is covered by an approving
\* initial and an approving verify run of exactly its text, both low risk, also
\* when the worker published it long after they were completed.
THEOREM PolicyHasPair == Spec => []PolicyPublicationHasPair
<1>1. IInv => PolicyPublicationHasPair
  BY CurrentIs DEF PolicyPublicationHasPair, RowOK, Pair
<1> QED
  BY <1>1, Inductive, PTL

\* What the agent may retrieve was approved by people or by a pair of runs, or is
\* the pinned text, and its chunks are of exactly this text.
THEOREM RetrievedIsApproved == Spec => []RetrievableIsApproved
<1>1. IInv => RetrievableIsApproved
  <2> SUFFICES ASSUME IInv, NEW v \in Versions, Retrievable(v)
               PROVE  /\ \/ ver[v].content \in endorsed \cup {ver[v].pinned}
                         \/ \A p \in Phases : \E k \in RunKeys :
                               k.phase = p /\ run[k].status = "completed" /\ run[k].outC = ver[v].content
                      /\ ver[v].mode = "full_text" => ver[v].chunks = ver[v].content
    BY DEF RetrievableIsApproved
  <2>1. RowOK(v, ver[v])
    BY CurrentIs
  <2>2. ver[v].mode = "full_text" => ver[v].chunks = ver[v].content
    BY <2>1 DEF Retrievable, RowOK
  <2>3. CASE ver[v].reviewStatus = "approved"
    BY <2>1, <2>2, <2>3 DEF RowOK, Backed
  <2>4. CASE ver[v].reviewStatus = "required" /\ ver[v].pinned = ver[v].content
    BY <2>2, <2>4
  <2> QED
    BY <2>3, <2>4 DEF Retrievable
<1> QED
  BY <1>1, Inductive, PTL
=============================================================================
