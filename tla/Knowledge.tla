------------------------------ MODULE Knowledge ------------------------------
(***************************************************************************)
(* One governed knowledge document from its upload or import to the moment *)
(* the answer agent may retrieve it: the human section review, the leased  *)
(* automation review (initial and verify runs), the manual resolution of a *)
(* stuck review, the ingestion worker (OCR and embeddings, leased          *)
(* background tasks), publication, archive and rollback.                   *)
(*                                                                         *)
(* A content stands for a text and its SHA-256: two versions have the same *)
(* hash exactly when they have the same content.  The lookup of a source   *)
(* and of its rights decision is one flag, source: TRUE while the checks   *)
(* of source-policy.ts pass.  One section stands for the sections of a     *)
(* version, and an approval of it for the approval of them all.            *)
(***************************************************************************)
EXTENDS Integers, FiniteSets

CONSTANTS
    Contents,     \* texts (and so content hashes) of the document
    Workers,      \* slots of the ingestion worker, each running runOnce
    Reviewers,    \* local automation runners that claim and submit reviews
    None,
    Origins,      \* how the document may come to exist
    MaxVersions,  \* bound: versions of the document
    MaxActs,      \* bound: requests of administrators, and leases that run out
    MaxAttempts,  \* background_task.max_attempts (3 in the code)
    MaxPolls      \* OCR polls before the job is given up (240 in the code)

ASSUME KnowledgeAssumption ==
    /\ None \notin Contents \cup Workers \cup Reviewers
    /\ Origins \subseteq {"candidate", "draft", "upload", "provisional"}
    /\ MaxVersions \in Nat \ {0} /\ MaxAttempts \in Nat \ {0}
    /\ MaxActs \in Nat /\ MaxPolls \in Nat

VARIABLES
    doc,       \* knowledge_document: status and current version
    ver,       \* knowledge_version rows with their review section and chunks
    source,    \* the source exists, is enabled and its rights are approved
    run,       \* knowledge_review_run rows by version, content and phase
    task,      \* background_task rows by idempotency key
    leased,    \* the job file each automation runner holds
    job,       \* the task each worker slot is executing
    editing,   \* version a draft update has read and not yet locked
    signing,   \* version and content a section sign-off has read
    origin,    \* how the document came to exist; never changes
    endorsed,  \* history: contents approved by people
    acts       \* requests and lapses so far, for the bound

vars == <<doc, ver, source, run, task, leased, job, editing, signing, origin,
          endorsed, acts>>

Versions == 1..MaxVersions
Modes == {"full_text", "metadata_only"}
Phases == {"initial", "verify"}
RunKeys == [v : Versions, c : Contents, phase : Phases]
\* the embedding tasks: idempotency keys knowledge-embedding:version:hash:origin
Embeddings == [v : Versions, c : Contents, by : {"section", "manual", "policy"}]
Ocr == [v |-> 1, c |-> None, by |-> "upload"]
Tasks == Embeddings \cup {Ocr}
MaybeContent == Contents \cup {None}

NoReview == [status |-> "none", of |-> None, mode |-> "none"]
NoSection == [of |-> None, approved |-> FALSE]
Absent == [status |-> "none", content |-> None, mode |-> "full_text",
           reviewStatus |-> "required", review |-> NoReview,
           embedding |-> "pending_review", chunks |-> None, pinned |-> None,
           publishedAt |-> FALSE, section |-> NoSection]
NoRun == [status |-> "none", low |-> FALSE, outV |-> 0, outC |-> None,
          revised |-> 0, holder |-> None]
NoTask == [status |-> "none", owner |-> None, lapsed |-> FALSE, attempts |-> 0,
           polls |-> 0, stage |-> "pending", initial |-> None]
NoJob == [task |-> None, loaded |-> FALSE]

Cur == doc.current

\* a row written by importKnowledgeCandidate, createKnowledgeDraft, an upload
\* that waits for its object, or the exact fingerprint of a provisional
\* Phase 1 publication
FirstVersion(o, c, m) ==
    CASE o = "candidate" ->
            [Absent EXCEPT !.status = "review", !.content = c, !.mode = m,
                !.embedding = IF m = "full_text" THEN "pending_review"
                                                 ELSE "not_applicable",
                !.section = [of |-> c, approved |-> FALSE]]
      [] o = "draft" ->
            [Absent EXCEPT !.status = "draft", !.content = c, !.mode = m]
      [] o = "upload" -> [Absent EXCEPT !.status = "processing"]
      [] o = "provisional" ->
            [Absent EXCEPT !.status = "published", !.content = c, !.mode = m,
                !.pinned = c, !.publishedAt = TRUE,
                !.embedding = IF m = "full_text" THEN "completed"
                                                 ELSE "not_applicable",
                !.chunks = IF m = "full_text" THEN c ELSE None]

FirstStatus(o) == CASE o = "candidate" -> "review" [] o = "draft" -> "draft"
                    [] o = "upload" -> "processing"
                    [] o = "provisional" -> "published"

Init ==
    \E o \in Origins, c \in Contents, m \in Modes :
        /\ origin = o
        /\ doc = [status |-> FirstStatus(o), current |-> 1]
        /\ ver = [v \in Versions |->
                    IF v = 1 THEN FirstVersion(o, c, m) ELSE Absent]
        /\ source = TRUE
        /\ run = [k \in RunKeys |-> NoRun]
        /\ task = [k \in Tasks |-> NoTask]
        /\ leased = [r \in Reviewers |-> None]
        /\ job = [w \in Workers |-> NoJob]
        /\ editing = 0 /\ signing = None
        /\ endorsed = {} /\ acts = 0
-----------------------------------------------------------------------------
(* Reads shared by several handlers.                                       *)

\* MaxActs does not count what later states bound anyway: decisions, commits,
\* publication, rollback
Act == acts < MaxActs /\ acts' = acts + 1

\* assertReviewedKnowledgeEvidence: approved, by sections or by a manual
\* resolution, of exactly this content, with its embedding done
ReviewedEvidence(v) ==
    /\ ver[v].reviewStatus = "approved"
    /\ ver[v].review.mode \in {"section", "manual"}
    /\ ver[v].review.of = ver[v].content
    /\ IF ver[v].mode = "full_text"
       THEN ver[v].embedding = "completed" /\ ver[v].chunks # None
       ELSE ver[v].embedding = "not_applicable"

\* assertKnowledgeSectionPublicationReady
SectionsReady(v) ==
    /\ source
    /\ ver[v].section.of = ver[v].content /\ ver[v].content # None
    /\ ver[v].section.approved

\* the gate of publishKnowledgeDraft
PublicationGate(v) ==
    /\ doc.status = "review" /\ ver[v].status = "review"
    /\ ReviewedEvidence(v)
    /\ source
    /\ ver[v].review.mode = "manual" \/ SectionsReady(v)

\* a completed, approved run whose stored output is version v with content c
Eligible(k, rs, v, c) ==
    /\ rs[k].status = "completed"
    /\ rs[k].outV = v /\ rs[k].outC = c
    /\ \/ k.v = v /\ k.c = c /\ rs[k].revised = 0
       \/ k.phase = "initial" /\ rs[k].revised = v

\* evaluateKnowledgePublicationReadiness over the runs named by keys
Paired(keys, rs, v, c) ==
    source /\ \A p \in Phases :
        Cardinality({k \in keys : k.phase = p /\ Eligible(k, rs, v, c)}) = 1
PublicationReady(keys, rs, v, c) ==
    /\ Paired(keys, rs, v, c)
    /\ \A k \in keys : Eligible(k, rs, v, c) => rs[k].low

\* RETRIEVAL_REVIEW_POLICY_SQL with the filters of the retrieval queries
Retrievable(v) ==
    /\ doc.status = "published" /\ Cur = v /\ ver[v].status = "published"
    /\ source
    /\ ver[v].mode = "full_text" => ver[v].chunks # None
    /\ \/ ver[v].reviewStatus = "approved" /\ ver[v].review.status = "approved"
       \/ ver[v].reviewStatus = "required" /\ ver[v].pinned = ver[v].content

\* INSERT INTO background_task ... ON CONFLICT DO NOTHING
Enqueue(ts, k, initial) ==
    IF ts[k].status = "none"
    THEN [ts EXCEPT ![k] = [NoTask EXCEPT !.status = "queued",
                                          !.initial = initial]]
    ELSE ts

\* INSERT INTO knowledge_review_run ... ON CONFLICT DO NOTHING
QueueNew(rs, k) ==
    IF rs[k].status = "none"
    THEN [rs EXCEPT ![k] = [NoRun EXCEPT !.status = "queued"]] ELSE rs

\* markNeedsHuman of the automation repository
NeedsHuman(v) ==
    /\ ver' = [ver EXCEPT ![v].status = "review",
                          ![v].reviewStatus = "required"]
    /\ doc' = [doc EXCEPT !.status = "review"]
-----------------------------------------------------------------------------
(* Requests of administrators and reviewers.                               *)

\* updateKnowledgeDraft reads the document without a lock ...
BeginEdit ==
    /\ Act /\ editing = 0
    /\ doc.status \in {"draft", "review"}
    /\ editing' = Cur
    /\ UNCHANGED <<doc, ver, source, run, task, leased, job, signing, origin,
                   endorsed>>

Rewritten(row, c, m) ==
    [row EXCEPT !.content = c, !.mode = m, !.status = "draft",
        !.reviewStatus = "required",
        !.review.status = IF @ = "none" THEN @ ELSE "invalidated"]
\* invalidateKnowledgeReviewAfterHashChange, or the same for changed evidence
Edited(row, c, m) ==
    [Rewritten(row, c, m) EXCEPT !.embedding = "pending_review"]

\* ... and then locks the version it saw.  A changed text or changed evidence
\* (here: the ingestion mode) withdraws the review and the document status.
CommitEdit ==
    /\ editing # 0 /\ editing' = 0
    /\ \/ /\ ver[editing].status \in {"draft", "review"}
          /\ \E c \in Contents, m \in Modes :
                /\ c # ver[editing].content \/ m # ver[editing].mode
                /\ ver' = [ver EXCEPT ![editing] = Edited(@, c, m)]
          /\ doc' = [doc EXCEPT !.status = "draft"]
       \/ /\ ver[editing].status \notin {"draft", "review"}
          /\ UNCHANGED <<doc, ver>>
    /\ UNCHANGED <<source, run, task, leased, job, signing, origin, endorsed,
                   acts>>

\* getWorkspace: the sections of a version that has none yet
OpenWorkspace ==
    /\ source /\ ver[Cur].content # None /\ ver[Cur].section = NoSection
    /\ ver' = [ver EXCEPT ![Cur].section =
                  [of |-> ver[Cur].content, approved |-> FALSE]]
    /\ UNCHANGED <<doc, source, run, task, leased, job, editing, signing,
                   origin, endorsed, acts>>

\* decide and writeDecision, for the current version and unchanged section; a
\* rejection, a request for changes and no decision block the version alike
Decide ==
    /\ source
    /\ ver[Cur].content # None /\ ver[Cur].section.of = ver[Cur].content
    /\ ver' = [ver EXCEPT ![Cur].section.approved = ~@]
    /\ endorsed' = IF ver[Cur].section.approved THEN endorsed
                   ELSE endorsed \cup {ver[Cur].content}
    /\ UNCHANGED <<doc, source, run, task, leased, job, editing, signing, origin,
                   acts>>

\* complete: every check of the sections, on unlocked reads ...
BeginSignOff ==
    /\ Act /\ signing = None
    /\ SectionsReady(Cur)
    /\ signing' = [v |-> Cur, c |-> ver[Cur].content, m |-> ver[Cur].mode]
    /\ UNCHANGED <<doc, ver, source, run, task, leased, job, editing, origin,
                   endorsed>>

\* ... then completeReview locks version and document and checks the text and
\* the current version again, not the sections and no status
CommitSignOff ==
    /\ signing # None /\ signing' = None
    /\ LET v == signing.v
           c == signing.c
           full == signing.m = "full_text"
       IN  IF v = Cur /\ ver[v].content = c
           THEN /\ ver' = [ver EXCEPT ![v] =
                      [@ EXCEPT !.status = "review", !.reviewStatus = "approved",
                          !.embedding = IF full THEN "queued"
                                                ELSE "not_applicable",
                          !.review = [status |-> "approved", of |-> c,
                                      mode |-> "section"]]]
                /\ doc' = [doc EXCEPT !.status = "review"]
                /\ task' = IF full
                           THEN Enqueue(task, [v |-> v, c |-> c,
                                               by |-> "section"], None)
                           ELSE task
           ELSE UNCHANGED <<ver, doc, task>>
    /\ UNCHANGED <<source, run, leased, job, editing, origin, endorsed, acts>>

Publish ==
    /\ PublicationGate(Cur)
    /\ ver' = [ver EXCEPT ![Cur].status = "published", ![Cur].publishedAt = TRUE]
    /\ doc' = [doc EXCEPT !.status = "published"]
    /\ UNCHANGED <<source, run, task, leased, job, editing, signing, origin,
                   endorsed, acts>>

\* archiveKnowledgeDocument and the manual resolution "archive"
Archive ==
    /\ Act /\ doc.status # "archived"
    /\ ver' = [ver EXCEPT ![Cur].status = "archived"]
    /\ doc' = [doc EXCEPT !.status = "archived"]
    /\ UNCHANGED <<source, run, task, leased, job, editing, signing, origin,
                   endorsed>>

\* MAX(version) + 1, or the current number + 1: the current version is the newest
NextVersionSkipped == Cur + 2
NextVersion == Cur + 1

\* rollbackKnowledgeDocument: a published copy of an older publication
Rollback ==
    /\ source /\ doc.status = "published" /\ Cur < MaxVersions
    /\ \E t \in Versions \ {Cur} :
          /\ ver[t].publishedAt /\ ver[t].status \in {"published", "archived"}
          /\ ReviewedEvidence(t)
          /\ ver' = [v \in Versions |->
                IF v = NextVersion
                THEN [ver[t] EXCEPT !.status = "published",
                                    !.section = NoSection]
                ELSE IF ver[v].status = "published"
                     THEN [ver[v] EXCEPT !.status = "archived"] ELSE ver[v]]
    /\ doc' = [doc EXCEPT !.current = NextVersion]
    /\ UNCHANGED <<source, run, task, leased, job, editing, signing, origin,
                   endorsed, acts>>

\* updateSource, deleteSource: the source is disabled, or enabled again
ToggleSource ==
    /\ Act /\ source' = ~source
    /\ UNCHANGED <<doc, ver, run, task, leased, job, editing, signing, origin,
                   endorsed>>
-----------------------------------------------------------------------------
(* The manual resolution of a review (manual-review-repository.ts).        *)

\* loadCurrentTarget: one locked read of document and version
Resolvable == /\ doc.status \in {"processing", "review", "failed", "draft"}
              /\ ver[Cur].content # None

\* queueAutomationRun: a conflict unless the run is new or may be reset
Requeued(rs, k) == [rs EXCEPT ![k] = [NoRun EXCEPT !.status = "queued"]]
MayRequeue(rs, k) == rs[k].status \in {"none", "refused", "queued"}

\* retry (an initial run) and adopt_revision_and_retry (a verify run)
RetryReview ==
    /\ Act /\ Resolvable /\ source
    /\ \E p \in Phases :
          LET k == [v |-> Cur, c |-> ver[Cur].content, phase |-> p]
          IN  /\ MayRequeue(run, k) /\ run[k].status # "queued"
              /\ run' = Requeued(run, k)
    /\ UNCHANGED <<doc, ver, source, task, leased, job, editing, signing,
                   origin, endorsed>>

\* manual_approve_with_note
ManualApprove ==
    /\ Act /\ Resolvable /\ source
    /\ LET c == ver[Cur].content
           full == ver[Cur].mode = "full_text"
           status == IF full THEN "review" ELSE "published"
           published == ver[Cur].publishedAt \/ ~full
       IN  /\ ver' = [ver EXCEPT ![Cur] =
                 [@ EXCEPT !.status = status, !.reviewStatus = "approved",
                     !.publishedAt = published,
                     !.embedding = IF full THEN "queued" ELSE "not_applicable",
                     !.review = [status |-> "approved", of |-> c,
                                 mode |-> "manual"]]]
           /\ doc' = [doc EXCEPT !.status = status]
           /\ task' = IF full
                      THEN Enqueue(task, [v |-> Cur, c |-> c, by |-> "manual"],
                                   None)
                      ELSE task
           /\ endorsed' = endorsed \cup {c}
    /\ UNCHANGED <<source, run, leased, job, editing, signing, origin>>

\* manual_edit_and_retry: a new version, queued for an initial run
ManualEdit ==
    /\ Act /\ Resolvable /\ source /\ Cur < MaxVersions
    /\ \E c \in Contents :
          /\ ver' = [ver EXCEPT ![NextVersion] =
                [ver[Cur] EXCEPT !.status = "review", !.content = c,
                    !.reviewStatus = "required", !.embedding = "pending_review",
                    !.publishedAt = FALSE, !.chunks = None,
                    !.section = NoSection]]
          /\ run' = Requeued(run, [v |-> NextVersion, c |-> c,
                                   phase |-> "initial"])
    /\ doc' = [status |-> "review", current |-> NextVersion]
    /\ UNCHANGED <<source, task, leased, job, editing, signing, origin,
                   endorsed>>

\* PendingKnowledgeReviewRequeueService.run, applied
RequeuePending ==
    /\ Act /\ doc.status \in {"review", "processing"}
    /\ ver[Cur].reviewStatus = "required" /\ ver[Cur].content # None
    /\ LET k == [v |-> Cur, c |-> ver[Cur].content, phase |-> "initial"]
       IN  run[k].status = "none" /\ run' = QueueNew(run, k)
    /\ UNCHANGED <<doc, ver, source, task, leased, job, editing, signing,
                   origin, endorsed>>
-----------------------------------------------------------------------------
(* The automation review (automation-review-repository.ts).                *)

\* claim: runs whose lease ran out are queued again, then one is leased
ReviewClaim(r) ==
    /\ leased[r] = None
    /\ \E k \in RunKeys :
          /\ run[k].status \in {"queued", "lapsed"}
          /\ k.v = Cur /\ ver[Cur].content = k.c
          /\ doc.status \in {"review", "processing"}
          /\ run' = [x \in RunKeys |->
                CASE x = k -> [run[k] EXCEPT !.status = "leased", !.holder = r]
                  [] x # k /\ run[x].status = "lapsed" ->
                        [run[x] EXCEPT !.status = "queued", !.holder = None]
                  [] OTHER -> run[x]]
          /\ leased' = [leased EXCEPT ![r] = k]
    /\ UNCHANGED <<doc, ver, source, task, job, editing, signing, origin,
                   endorsed, acts>>

ReviewLapses(k) ==
    /\ run[k].status = "leased"
    /\ Act
    /\ run' = [run EXCEPT ![k].status = "lapsed"]
    /\ UNCHANGED <<doc, ver, source, task, leased, job, editing, signing,
                   origin, endorsed>>

\* the locked row of complete: a live lease on the current version and text
LeaseHeld(r) ==
    LET k == leased[r]
    IN  k # None /\ run[k].status = "leased" /\ run[k].holder = r /\ k.v = Cur
LeaseValid(r) == LeaseHeld(r) /\ ver[Cur].content = leased[r].c

\* a result nobody wants any more (409), or a runner that died
ReviewDropped(r) ==
    /\ leased[r] # None /\ ~LeaseValid(r)
    /\ leased' = [leased EXCEPT ![r] = None]
    /\ UNCHANGED <<doc, ver, source, run, task, job, editing, signing, origin,
                   endorsed, acts>>

Finished(k, low, v, c, revised) ==
    [run EXCEPT ![k] = [status |-> "completed", low |-> low, outV |-> v,
                        outC |-> c, revised |-> revised, holder |-> None]]

\* a rejection (failed), a request for a person (needs_human), or any result
\* without valid rights: the two statuses are one, every reader treats them alike
Refused(k) == run' = [run EXCEPT ![k] = [NoRun EXCEPT !.status = "refused"]]

ReviewRefused(r) ==
    /\ LeaseValid(r)
    /\ Refused(leased[r])
    /\ NeedsHuman(Cur)
    /\ leased' = [leased EXCEPT ![r] = None]
    /\ UNCHANGED <<source, task, job, editing, signing, origin, endorsed, acts>>

\* an approving initial run, possibly with a revised text: a new version
\* becomes current; the verify run of the outcome is queued
InitialApproved(r) ==
    /\ LeaseValid(r) /\ source /\ leased[r].phase = "initial"
    /\ \E low \in BOOLEAN, revised \in MaybeContent :
         /\ revised # None => Cur < MaxVersions
         /\ LET k == leased[r]
                v == IF revised = None THEN Cur ELSE NextVersion
                c == IF revised = None THEN k.c ELSE revised
            IN  /\ IF revised = None THEN UNCHANGED <<ver, doc>>
                   ELSE /\ ver' = [ver EXCEPT ![v] =
                              [ver[Cur] EXCEPT !.status = "review",
                                  !.content = c, !.reviewStatus = "required",
                                  !.review = NoReview, !.chunks = None,
                                  !.embedding = "pending_review",
                                  !.publishedAt = FALSE,
                                  !.section = NoSection]]
                        /\ doc' = [status |-> "review", current |-> v]
                /\ run' = QueueNew(Finished(k, low, v, c,
                                            IF revised = None THEN 0 ELSE v),
                                   [v |-> v, c |-> c, phase |-> "verify"])
    /\ leased' = [leased EXCEPT ![r] = None]
    /\ UNCHANGED <<source, task, job, editing, signing, origin, endorsed, acts>>

\* findRunId: the oldest initial run of the version, revised into it or not
FirstInitial(v, c) ==
    IF \E k \in RunKeys : run[k].revised = v
    THEN CHOOSE k \in RunKeys : run[k].revised = v
    ELSE [v |-> v, c |-> c, phase |-> "initial"]

\* an approving verify run: when the pair is complete the text is embedded, or
\* a reference without full text published; a person decides otherwise
VerifyApproved(r) ==
    /\ LeaseValid(r) /\ source /\ leased[r].phase = "verify"
    /\ \E low \in BOOLEAN :
         LET k == leased[r]
             done == Finished(k, low, Cur, k.c, 0)
             ready == PublicationReady(RunKeys, done, Cur, k.c)
             full == ver[Cur].mode = "full_text"
             review == [status |-> "approved", of |-> k.c, mode |-> "policy"]
         IN  \/ /\ ready /\ full
                /\ ver' = [ver EXCEPT ![Cur] =
                      [@ EXCEPT !.status = "review", !.reviewStatus = "approved",
                          !.embedding = "queued", !.review = review]]
                /\ task' = Enqueue(task, [v |-> Cur, c |-> k.c, by |-> "policy"],
                                   FirstInitial(Cur, k.c))
                /\ run' = done
                /\ UNCHANGED doc
             \/ /\ ready /\ ~full
                /\ ver' = [ver EXCEPT ![Cur] =
                      [@ EXCEPT !.status = "published", !.publishedAt = TRUE,
                          !.reviewStatus = "approved",
                          !.embedding = "metadata_only", !.review = review]]
                /\ doc' = [doc EXCEPT !.status = "published"]
                /\ run' = done
                /\ UNCHANGED task
             \/ /\ ~ready /\ NeedsHuman(Cur)
                /\ Refused(k)
                /\ UNCHANGED task
    /\ leased' = [leased EXCEPT ![r] = None]
    /\ UNCHANGED <<source, job, editing, signing, origin, endorsed, acts>>
-----------------------------------------------------------------------------
(* Upload and ingestion worker (original-upload-repository.ts,             *)
(* knowledge-ingestion.ts, postgres-repository.ts).                        *)

\* complete of an upload whose object was verified; a second call finds the
\* task and changes nothing.  No status is read.
UploadComplete ==
    /\ Act /\ origin = "upload" /\ Cur = 1 /\ task[Ocr].status = "none"
    /\ task' = Enqueue(task, Ocr, None)
    /\ ver' = [ver EXCEPT ![1].status = "processing"]
    /\ doc' = [doc EXCEPT !.status = "processing"]
    /\ UNCHANGED <<source, run, leased, job, editing, signing, origin, endorsed>>

\* CLAIM_NEXT_SQL: attempts are counted here and never compared
ClaimTask(w) ==
    /\ job[w] = NoJob
    /\ \E k \in Tasks :
          /\ \/ task[k].status = "queued"
             \/ task[k].status = "running" /\ task[k].lapsed
          /\ task' = [task EXCEPT ![k] =
                [@ EXCEPT !.status = "running", !.owner = w, !.lapsed = FALSE,
                          !.attempts = task[k].attempts + 1]]
          /\ job' = [job EXCEPT ![w] = [task |-> k, loaded |-> FALSE]]
    /\ UNCHANGED <<doc, ver, source, run, leased, editing, signing, origin,
                   endorsed, acts>>

TaskLapses(k) ==
    /\ task[k].status = "running" /\ ~task[k].lapsed
    /\ Act
    /\ task' = [task EXCEPT ![k].lapsed = TRUE]
    /\ UNCHANGED <<doc, ver, source, run, leased, job, editing, signing, origin,
                   endorsed>>

\* the fence of every write of the worker: status, locked_by and lease_token
Holds(w, k) == job[w].task = k /\ task[k].status = "running" /\ task[k].owner = w

\* the columns of a finished task are read by nobody and forgotten
Finish(k, status) == task' = [task EXCEPT ![k] = [NoTask EXCEPT !.status = status]]
Retry(k) == task' = [task EXCEPT ![k] = [@ EXCEPT !.status = "queued",
                                             !.owner = None, !.lapsed = FALSE]]
Requeue(k, polls) ==
    task' = [task EXCEPT ![k] =
        [@ EXCEPT !.status = "queued", !.owner = None, !.lapsed = FALSE,
                  !.attempts = task[k].attempts - 1, !.stage = "processing",
                  !.polls = polls]]
Idle(w) == job' = [job EXCEPT ![w] = NoJob]

\* submitOcr, and pollOcr of a job that is still being parsed
DeferOcr(w) ==
    /\ Holds(w, Ocr)
    /\ \/ task[Ocr].stage = "pending" /\ Requeue(Ocr, 0)
       \/ /\ task[Ocr].stage = "processing" /\ task[Ocr].polls < MaxPolls
          /\ Requeue(Ocr, task[Ocr].polls + 1)
    /\ Idle(w)
    /\ UNCHANGED <<doc, ver, source, run, leased, editing, signing, origin,
                   endorsed, acts>>

\* pollOcr of a parsed document and saveParsedForReview: the version must be
\* current and the rights valid; no status is read
SaveParsed(w) ==
    /\ Holds(w, Ocr) /\ task[Ocr].stage = "processing"
    /\ task[Ocr].polls < MaxPolls
    /\ Cur = 1 /\ source
    /\ \E c \in Contents :
          /\ ver' = [ver EXCEPT ![1] =
                [@ EXCEPT !.content = c, !.status = "review",
                    !.reviewStatus = "required", !.embedding = "pending_review",
                    !.review = NoReview,
                    !.section = [of |-> c, approved |-> FALSE]]]
          /\ run' = QueueNew(run, [v |-> 1, c |-> c, phase |-> "initial"])
    /\ doc' = [doc EXCEPT !.status = "review"]
    /\ Finish(Ocr, "succeeded") /\ Idle(w)
    /\ UNCHANGED <<source, leased, editing, signing, origin, endorsed, acts>>

\* loadApprovedContent and the comparison of the hash
Loadable(k) ==
    /\ k.v = Cur /\ doc.status = "review" /\ source
    /\ ver[k.v].status = "review" /\ ver[k.v].content = k.c
    /\ ver[k.v].reviewStatus = "approved" /\ ver[k.v].mode = "full_text"
    /\ ver[k.v].review.status = "approved" /\ ver[k.v].review.of = k.c

\* the content is loaded for the embedding call, or the task ends because
\* there is nothing approved to embed
LoadApproved(w) ==
    /\ \E k \in Embeddings :
          /\ Holds(w, k) /\ ~job[w].loaded
          /\ \/ /\ Loadable(k)
                /\ job' = [job EXCEPT ![w].loaded = TRUE]
                /\ UNCHANGED task
             \/ ~Loadable(k) /\ Finish(k, "succeeded") /\ Idle(w)
    /\ UNCHANGED <<doc, ver, source, run, leased, editing, signing, origin,
                   endorsed, acts>>

\* isAutomationPublicationReady: the two runs named when the task was queued
AutoPublish(k) ==
    /\ k.by = "policy"
    /\ PublicationReady({task[k].initial, [v |-> k.v, c |-> k.c,
                                           phase |-> "verify"]}, run, k.v, k.c)

\* the version row the UPDATE of saveEmbeddingsAndComplete must find
StillReviewed(k) == ver[k.v].status = "review" /\ ver[k.v].content = k.c

\* saveEmbeddingsAndComplete: chunks of the loaded text; the review of the
\* payload replaces the review of the version
SaveEmbeddings(w) ==
    /\ \E k \in Embeddings :
          /\ Holds(w, k) /\ job[w].loaded
          /\ k.v = Cur /\ doc.status = "review"
          /\ StillReviewed(k)
          /\ LET status == IF AutoPublish(k) THEN "published" ELSE "review"
                 published == ver[k.v].publishedAt \/ AutoPublish(k)
             IN  /\ ver' = [ver EXCEPT ![k.v] =
                       [@ EXCEPT !.status = status, !.reviewStatus = "approved",
                           !.publishedAt = published,
                           !.embedding = "completed", !.chunks = k.c,
                           !.review = [status |-> "approved", of |-> k.c,
                               mode |-> IF k.by = "section" THEN "none"
                                                            ELSE k.by]]]
                 /\ doc' = [doc EXCEPT !.status = status]
          /\ Finish(k, "succeeded")
    /\ Idle(w)
    /\ UNCHANGED <<source, run, leased, editing, signing, origin, endorsed,
                   acts>>

\* markFailed after an error of a provider (retryable or not) or of a save
WorkerFails(w) ==
    /\ \E k \in Tasks :
          /\ Holds(w, k)
          /\ \/ task[k].attempts < MaxAttempts /\ Retry(k)
             \/ Finish(k, "failed")
    /\ Idle(w)
    /\ UNCHANGED <<doc, ver, source, run, leased, editing, signing, origin,
                   endorsed, acts>>

\* the process dies, or gives up because its lease is no longer its own
WorkerGone(w) ==
    /\ job[w] # NoJob /\ Idle(w)
    /\ UNCHANGED <<doc, ver, source, run, task, leased, editing, signing,
                   origin, endorsed, acts>>

-----------------------------------------------------------------------------
Human == \/ BeginEdit \/ CommitEdit \/ OpenWorkspace \/ Decide \/ BeginSignOff
         \/ CommitSignOff \/ Publish \/ Archive \/ Rollback \/ ToggleSource
         \/ RetryReview \/ ManualApprove \/ ManualEdit \/ RequeuePending
         \/ UploadComplete

Automation(r) == \/ ReviewClaim(r) \/ ReviewDropped(r) \/ ReviewRefused(r)
                 \/ InitialApproved(r) \/ VerifyApproved(r)

Worker(w) == \/ ClaimTask(w) \/ DeferOcr(w) \/ SaveParsed(w) \/ LoadApproved(w)
             \/ SaveEmbeddings(w) \/ WorkerFails(w) \/ WorkerGone(w)

Next == \/ Human
        \/ \E r \in Reviewers : Automation(r)
        \/ \E w \in Workers : Worker(w)
        \/ \E k \in RunKeys : ReviewLapses(k)
        \/ \E k \in Tasks : TaskLapses(k)

Spec == Init /\ [][Next]_vars
-----------------------------------------------------------------------------
Statuses == {"draft", "processing", "review", "published", "archived"}

\* Types, and the current version is the newest one.
TypeOK ==
    /\ doc \in [status : Statuses, current : Versions]
    /\ \A v \in Versions :
          /\ ver[v].status \in Statuses \cup {"none"}
          /\ ver[v].status = "none" <=> v > Cur
          /\ ver[v].content \in MaybeContent /\ ver[v].mode \in Modes
          /\ ver[v].chunks \in MaybeContent
    /\ source \in BOOLEAN
    /\ \A k \in RunKeys : run[k].status \in {"none", "queued", "leased",
                              "lapsed", "completed", "refused"}
    /\ \A k \in Tasks : task[k].status \in {"none", "queued", "running",
                                            "succeeded", "failed"}
    /\ leased \in [Reviewers -> RunKeys \cup {None}]
    /\ \A w \in Workers : job[w].task \in Tasks \cup {None}
    /\ endorsed \subseteq Contents /\ acts \in 0..MaxActs

\* What the agent may retrieve was approved by people or by a pair of runs,
\* or is the text pinned by the provisional publication, and the chunks are
\* those of exactly this text (retrieval.ts, RETRIEVAL_REVIEW_POLICY_SQL).
RetrievableIsApproved ==
    \A v \in Versions : Retrievable(v) =>
        /\ \/ ver[v].content \in endorsed \cup {ver[v].pinned}
           \/ \A p \in Phases : \E k \in RunKeys :
                 k.phase = p /\ run[k].status = "completed"
                 /\ run[k].outC = ver[v].content
        /\ ver[v].mode = "full_text" => ver[v].chunks = ver[v].content

\* A version published under the automation policy is covered by an approving
\* initial and an approving verify run of exactly its text, both low risk
\* (review-policy.ts), also when it was published by the worker much later.
PolicyPublicationHasPair ==
    \A v \in Versions :
        ver[v].status = "published" /\ ver[v].review.mode = "policy" =>
            \A p \in Phases : \E k \in RunKeys :
                k.phase = p /\ run[k].low /\ Eligible(k, run, v, ver[v].content)

\* An embedding that counts as completed is of the text the version has now.
EmbeddedIsCurrent ==
    \A v \in Versions : ver[v].embedding = "completed" =>
        ver[v].chunks = ver[v].content

-----------------------------------------------------------------------------
(* What the documentation says and the code does not keep.                 *)

\* docs/knowledge-governance.md:36: "draft -> ... human section review ->
\* embedding -> publication".  When every section of a text is approved, the
\* sign-off is of this text and the text is embedded, its publication is not
\* refused (assertReviewedKnowledgeEvidence, store.ts).
SectionReviewPublishes ==
    /\ doc.status = "review" /\ ver[Cur].status = "review"
    /\ SectionsReady(Cur)
    /\ ver[Cur].reviewStatus = "approved"
    /\ ver[Cur].review.of = ver[Cur].content
    /\ ver[Cur].mode = "full_text" /\ ver[Cur].embedding = "completed"
    => PublicationGate(Cur)

\* docs/knowledge-governance.md: "Publishing creates an immutable version".
\* The text of a version that was published never changes.
PublishedIsImmutable ==
    [][\A v \in Versions : ver[v].publishedAt =>
           ver'[v].content = ver[v].content]_vars

\* The button of the review page: archive and stop processing.  Nothing brings
\* an archived document back.
ArchivedStays == [][doc.status = "archived" => doc'.status = "archived"]_vars
=============================================================================
