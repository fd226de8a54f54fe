# A formal model of OpenVac

OpenVac is a question-answering web application for vacuum technology: a Next.js
server, a PostgreSQL database, an object store (OSS), a language model behind a
streaming API, and background workers. What is hard in it is not the rendering of
pages but what several requests, workers and database sessions do to shared rows:
a user pays for an answer with a quota lease, the answer may be cancelled, cut off
or retried, a recovery pass repairs what died half way, private files are
uploaded directly to the object store and deleted by a worker, and an account may
be deleted in the middle of everything.

This directory holds TLA+ modules of those parts, TLC configurations that check
them on small instances, and TLAPS proofs, for instances of every size, of nearly all the
safety properties the runs check. `PROJECT.json` maps each definition to the source lines it stands for.
Paths below are relative to the repository; `server/` stands for `src/server/`.

## Inventory

| Component | State | Operations | Hard behaviours |
|---|---|---|---|
| Quota accounting (`server/quota`) | `quota_bucket` (limit, reserved, committed per resource, scope and day), `quota_ledger` (one row per lease and scope) | reserve, commit, release, status | idempotent reserve under races, two scopes in one transaction, limits that are lowered, lock order |
| Answer runs (`server/agent/http-v2.ts`, `run-store.ts`, `run-settlement.ts`, `retention.ts`) | `agent_run`, `agent_turn.selectedRunId`, the leases of the request, the abort controllers of a process | post, retry, continue, regenerate, stream, complete, fail, cancel, recover | cancel races complete, lost acknowledgements, crashes between any two transactions, recovery of a run that is still alive |
| Chat attachments (`server/chat-attachments`, parts of `server/api/store.ts`) | `chat_attachment`, `chat_storage_account`, objects in the store | initiate, complete (verify), bind, delete, clear, delete conversation | uploads that arrive late or twice, completions that race removal, bytes accounted on five paths |
| Chat storage worker (`src/worker/chat-storage.ts`) | `chat_storage_deletion_job`, parse columns and leases of `chat_attachment` | expire orphans, delete objects, submit, poll and finish parses | stale leases, retries, give-up, a slow worker finishing late |
| Account deletion (`server/auth/account-cleanup.ts`) | `user.deletionRequestedAt`, everything keyed by the user | prepare, delete (Better Auth), clean up | runs at any moment of all of the above |
| Artifact storage (`server/chat-attachments/artifact-storage.ts`, `artifact-runtime.ts`, `server/agent/run-settlement.ts`) | `chat_artifact`, `chat_artifact_file`, the same storage account, objects, deletion jobs | create, reserve, put, verify, commit, abort, complete, fail, settle a failed run | one file of several fails, a tool call that outlives its run, objects stored after they were cleaned up |
| Orchestrator and tools, web evidence, model budget (`server/agent/orchestrator.ts`, `tool-registry.ts`, `web-evidence.ts`, `server/operations/model-runtime.ts`) | counters and registries in memory, `agent_tool_call`, `model_invocation`, a `web_search` lease | gather evidence, ask the model, run batches of tools, make a file, project a calculation, validate, repair, save | the losers of a timeout and the siblings of a failed call go on; lost acknowledgements; budgets at their limit |
| Model stream (`server/providers/deepseek-responses.ts`) | the items, calls and searches of one response | read events, merge items, end; repair by one completion | items reported twice, late or contradictory |
| Knowledge (`server/knowledge`, parts of `server/api/store.ts`) | `knowledge_document`, `knowledge_version`, sections, `knowledge_review_run`, sources | upload, import, edit, review by people and by automation, publish, archive, roll back | decisions about a text that has changed, leases, several ways to publish |
| Knowledge ingestion (`src/worker/knowledge-ingestion.ts`, `postgres-repository.ts`) | `background_task`, chunks, embeddings | claim, OCR, parse, embed, finish | leases and retries per stage |
| Retrieval (`server/knowledge/retrieval.ts`) | none | lexical and vector search, rank fusion | which version may be returned |
| Administration and authentication (`server/api/store.ts`, `server/auth`) | roles, invitations, bans, sessions, bonuses, accounts | grant, revoke, invite, accept, ban, sign in, delete | a role that changed since the request was authenticated, deletion that stops half way |
| Chat page (`src/components/chat`) | the selected conversation, the messages shown, one stream, the files of the composer | ask, stop, switch, delete, clear, upload | promises that resume after the user moved on |
| Problem reports, rendering, other pages, deployment, evaluations | — | — | single statements, formatting, tooling |

Interactions: a handler calls the quota service and the run store, each call a
transaction of its own; a settlement writes run and quota rows in one transaction;
recovery runs the same settlement from another process; the stream signals
cancellation through a controller in memory; attachments are bound to the message
a run creates; conversation and account deletion reach into every table.

What makes each component correct:

* quota: the counters equal the ledger, a lease is charged in all of its scopes or
  in none, settles once, and deletion strands no unit of a shared bucket;
* runs: an answer is charged exactly when it was delivered, one answer at a time
  per conversation, the client is told the truth, and everything left behind is
  settled;
* attachments and artifacts: the bytes charged equal the rows, a verified attachment keeps its
  object, a removed one is queued for deletion, a lost lease writes nothing;
* the answer loop: at most one file, every tool call that ran before the save is recorded,
  an invocation stays in progress only where an acknowledgement was lost, evidence from the
  web was paid for, and an answer never claims a search that was refused or failed;
* the model stream: the calls that are executed are those the next request repeats, and
  a search that failed proves nothing;
* knowledge: what retrieval may return is an approved text, with the chunks of that text,
  and an automatic publication rests on two reviews of it; what was signed off may be published;
* administration: an owner remains, only owners touch owners, an invitation is spent once;
* the chat page: one answer at a time, nothing claimed of an outcome that is not known,
  and the conversation the user turned to last is the one shown.

## Modules

    Lease                 what callers may rely on          (abstract)
      ^ implemented by QuotaLedger, obeyed by AgentRun
    QuotaLedger           buckets and ledger, one action per transaction
      ^ implemented by
    QuotaReserveTx        the same transactions, statement by statement
    QuotaProofs           invariants of QuotaLedger, and both refinements
    AgentRun              handlers, run store, cancellation, recovery
    AnswerLoop            what happens inside one run: evidence, model, tools, answer
    ModelStream           what happens inside one request to the model
    ArtifactStorage       files of an answer, their tool call and the settlement of its run
    ChatStorage           attachments, objects, storage account, worker
    Knowledge             one document: reviews, worker, publication, retrieval
    Administration        accounts, roles, invitations, bans, sessions, deletion
    ChatWorkspace         the chat page of a browser

AgentRun, AnswerLoop and ModelStream are three levels of one answer. What AgentRun leaves
to its external orchestrator is AnswerLoop, whose model responses are what ModelStream
may yield; the two meet at the outcomes a run or a response may have.

`xProofs` holds the theorems about module `x` and their proofs, `QuotaProofs` those about
the three quota modules and `AnswerLoopProofs` those about AnswerLoop and ModelStream (whose
names end the shared ones: `StreamInit`, `StreamNext`, `StreamSpec`). `MCx` instantiates module `x` for TLC (symmetry and finite sets only; the configurations
give constants their values and replace nothing). Definitions that stand next to a
mapped one and carry a longer name or the prefix `Mut`, such as `FitsOffByOne` beside
`Fits`, are deliberate mistakes: replacing the real definition by them must violate the
property named with them in `PROJECT.json`, which shows that the property can fail.

### QuotaLedger

A lease is its idempotency key `<<user, resource, client request>>`; the unique
index of `quota_ledger` makes that sound. `status[l][s]` is the row of lease `l` in
scope `s`; a bucket is `<<resource, scope, day>>`. Actions: `Reserve` (`reserve`,
the path that creates rows), `Commit` and `Release` (`transitionQuotaReservation`),
`PrepareUserDeletion`, `DeleteUser` (the cascade Better Auth triggers) and
`CleanupDeletedUser`. The policy limit handed to `reserve` is any number of `Limits`
each time, because an administrator may change bonus and limits between two
requests; `ReconciledLimit` is the code's rule for a limit that fell below what is
used. Units are always 1, as every caller leaves them. The reuse path of `reserve`
and a refused `reserve` change nothing and are stuttering steps. `forgotten` is a
history variable: committed units whose rows left with their account.

### QuotaReserveTx

The same operations as sessions under READ COMMITTED: begin and actor lock,
unlocked idempotency read, one bucket at a time (insert or lock, reconcile,
charge), ledger insert that waits for and then fails on the unique index, commit,
rollback at any point, and the read of the winner's rows after a unique violation.
A session's writes stay in its record until it commits. `ImplementsLedger` says
that the committed tables then only change by actions of QuotaLedger, so what is
proved of QuotaLedger holds of the statements. A session
goes back to the pool when its transaction ends and begins another. PostgreSQL
itself (row locks, index waits, rollback) is external and modelled by its rules.
Account deletion holds the user row FOR UPDATE from its first statement and is one
step that waits for the locks it needs.

### AgentRun

A handler is one POST and gives its name to the run and turn it may create. `pc` is
the await it stands at: reserve the answer, reserve the model attempt, create the
run, bind attachments, commit the model attempt, stream, and the failure paths
`undo` (releaseRunReservations), `settle` (settleCreatedRunFailure) and
`failCancelled` / `failFailed` (the catch block of streamRun). Settlements started
together are a set `todo` that ends in any order. Every call may fail before or
after its transaction committed. Recovery (`RecoverRun`, `ScanOrphans`,
`ReleaseOrphan`) may look at any run or lease at any time, even while its handler
lives, because a paused process may come back after the stale threshold; the
orphan query is read outside a transaction, so its release comes as a later step.
`Cancel` and the in-memory abort (`SignalAbort`) are separate steps, as in the code.
Initial states include runs that the settlement migration left behind. The
orchestrator is external: it ends in an answer, an incomplete answer or an error.
The leases of the account are checked to behave as module Lease (`UsesLeases`), the
specification QuotaLedger is proved to implement.

### ChatStorage

One account with its attachments; every attachment is one unit. An attachment is
followed from `Initiate` over the browser's PUT (`Upload`), the three transactions
of `complete()` (begin, verify the stored object, commit / reject / reset),
`BindToMessage`, to one of five removals: by its uploader, by orphan expiry, with
its conversation, with `clearConversationData`, or with the account. `job` is the
deletion queue, `hold` what a worker slot has in hand between claim and mark,
`stale` a lease nobody renewed. `clearConversationData` is two steps, because
PostgreSQL's READ COMMITTED lets an insert commit between its select and its
delete. Time is `age`: the PUT URL is valid, has expired, or a day has passed.
`lost` is a history variable for rows a cascade removed unseen. Chunking, parser
formats and byte sizes are left out; the artifact files that share the account are
in ArtifactStorage, whose units add to these.

### ArtifactStorage

One account with a conversation; a run, its `create_artifact` call and the artifact
share a name, a key is an artifact and a format. `maker` is the tool call: its `pc`
is the await of `ProductionArtifactStorage.create` and of `persistFile` it stands
at. A repository call is one step, except that `createArtifact` and `reserveFile`
are two (locks and checks, then insert and commit), because other transactions that
do not conflict with those locks come in between. `art`, `file` and `job` are the
rows, `object` the store. `cleaner` is the transaction that settles a failed run
(`RunStore.fail` or recovery): its first statement fixes a snapshot of the files
(`CleanupStart`), and the rest follows once the artifact row is free
(`CleanupFinish`); AgentRun models the run and quota rows of the same transactions
and leaves the files to this module. `clearing` is clearConversationData, as in
ChatStorage. A file row that leaves without its units being returned is recorded in
`stray`, a history variable. `old` says that the hour after a reservation passed,
after which the deletion paths expect no upload any more. Attempts and stale leases
of the worker are left to ChatStorage; the signal of the tool call may abort at any
await, and need not have aborted when its run fails.

### AnswerLoop

One run of `AgentRunOrchestrator`. `pc` is where `run()` stands; `tool[c]` is a call's
execution, which goes on when its run does not wait for it any more: after the tool
timeout (`ToolTimesOut`, `LateReturn`), or when recording a sibling failed
(`RecordFails`). The server's own evidence (knowledge, attachment, the paid web search
with its lease, the fetch of linked pages) comes first; then model requests
(`StartRequest`, one retry, `Settle` of their invocation row), rounds of tool calls taken
in batches (`NextBatch`, `BatchSettled`), the one recovery of artifact arguments, the
projection of a trusted calculation, the fallbacks without web, validation with a single
repair, and the save. A response is any member of `Responses`: text of some form, calls,
a cut-off, a failure. The insert of an invocation may commit and lose its acknowledgement:
the run then has no handle and the row is never settled (`unacknowledged`). So may the write
that settles it (`unwritten`). `request` is drawn from `MCRequests`, every intent with
every web mode and attachment the code tells apart. What the save writes to the rows of
the run is AgentRun, what a late `create_artifact` does to its files ArtifactStorage.

### ModelStream

One request through `DeepSeekResponsesProvider`. The service is an adversary of the
protocol: any item or search event, in any order, with or without id and output index,
repeated and contradictory, then a terminal event with any output. `streamed` is
`streamedContinuationItems`; `mergeResponseOutputItems` is a recursive function,
as the loop it stands for, over the stable sort by index (`Sorted(n)` is the streamed item
with `n - 1` others before it); `TerminalCalls` is another. `Throws` stands for everything the generator throws, the
deadline included. `told` is a history variable: what the service said of each search.
`NextRequestIsPaired` uses the code's own `assertFunctionCallPairing` on what the
orchestrator sends next. It speaks of completed responses: after any other, the orchestrator
executes no call and sends no next request (`orchestrator.ts:414`). The two repairs by one completion are actions of their own.
Events repeated under one sequence number are skipped by the code and change nothing.
Text, usage, limits on URLs, and items without a status are left out.

### Knowledge

One document. A content stands for a text with its SHA-256, so an edit that restores a
text restores its hash; `ver[v]` is a version with its section review and chunks, `run` a
review run by version, content and phase (`initial`, `verify`), `task` the background
tasks by idempotency key. People act through `BeginEdit` / `CommitEdit` (the draft is
read, then locked), `OpenWorkspace`, `Decide`, `BeginSignOff` / `CommitSignOff`,
`Publish`, `Archive`, `Rollback`, `ToggleSource` and the manual resolution of a stuck
review. A runner claims a review with a lease that may lapse (`ReviewLapses`) and submits
an approval, a revision or a refusal later, of which the repository accepts only one about the
present text. The worker slots claim tasks, poll OCR, parse, load, embed, retry and give up;
`SaveEmbeddings` publishes automatically where the origin of the task says so.
`Retrievable` is `RETRIEVAL_REVIEW_POLICY_SQL`. One section stands for all sections of a
version, and `source` for the checks of `source-policy.ts`. `endorsed` is a history
variable: contents people approved.

### Administration

Accounts, their roles, invitations, bans, sessions and deletion. A request is
authenticated with the role its actor then has (`Authenticate`) and writes later; all
writes to roles, bans and sessions take one advisory lock and read the roles again, which
is why each is one action, while invitations are written with the role of the
authentication. Better Auth's own writes (sign-in, deletion of the row) take no lock: a
sign-in is `SignInReads`, `SignInClears`, `SignInCreates`; a deletion runs its hook first and
may break off (`DeletionBreaksOff`). `stray` records that an account under deletion became
owner, the one way in which the last owner can go.

### ChatWorkspace

The chat page (`chat-workspace.tsx`, `chat-composer.tsx`). A callback runs to its next
await and is one action; the closure of a request is its `task`, what it finds when it
resumes are the refs and state of the page. Questions, retries, continuations and
regenerations post and stream (`RunAccepted`, `RunCompleted`, `RunFailed`,
`Disconnected`), are recovered from history, are stopped (`CancelReturns`, `CancelFails`),
while details, deletions, the clearing of the history and the creation of a conversation
for a file return at any time. The server's side is what the page can tell apart of
`http-v2.ts`, `run-store.ts` and `retention.ts`: `exists`, `answer`, `home`, `charge`, with the
busy check, the actions that an earlier version of the turn allows (`Accepts`; the code asks
the latest, and with two questions there is one) and the settlement in one
transaction (`Ends`). An answer may end incomplete: its quota is released, it still arrives
by `run.completed`, and only `meta.incomplete` keeps the page from showing it as a completed
one (`FinalStatus`). A run that was stopped, or whose failure could not be settled, cannot
complete any more (`Stops`); the page is then told that the settlement is pending (`Told`).
Of the texts of a failed message in the history (cancelled, interrupted, failed) the one
that says most stands for all (`Restored`).
`turned` is a history variable, the conversation the user last turned to. A key change of
the composer remounts it and aborts its uploads (`Remounted`); one that still waits for its
conversation blocks sending until then, unless the user cancels it. The states of files
carry no property of their own: they decide when a question can be sent and when a
conversation is created and shown.

## Runs

| Run | Instance | What it shows |
|---|---|---|
| `quota_statements` | 2 sessions, 1 account, 2 requests for a resource with a user and a global scope, 2 days, limits 1..2 | statements interleave, yet only whole operations become visible, sessions never wait in a cycle, counters equal the ledger, the CHECK constraints hold for lowered limits, deletion strands nothing, and the tables seen through aggregateStatus behave as `Lease` |
| `agent_run` | 2 handlers, 2 keys, 1 conversation | charge, truth, versions, one answer at a time, use of leases |
| `agent_run_liveness` | 2 handlers on 1 key | recovery alone settles every run and lease |
| `answer_loop` | 2 calls, batches of 2, 3 model requests, 1 tool round, all requests | one file, recorded calls, invocations settled unless a write was lost, paid and honest use of the web |
| `model_stream` | 2 calls, 2 searches, 2 argument strings, 3 reports | executed calls equal the continuation, only a genuine search is a proof |
| `artifact_storage` | 1 artifact, 2 formats, 1 worker, room for 2 files | accounting on every path, a ready artifact keeps its objects, a finished tool call leaves no orphan |
| `chat_storage` | 1 attachment, 2 completions, 2 workers, 2 lapses | accounting, objects, queueing, fenced workers |
| `chat_storage_liveness` | 1 document, 1 completion, 1 worker, 2 polls | a document leaves the parser without the help of expiry; deletions and interrupted completions end |
| `knowledge` | 2 contents, 2 workers, 1 reviewer, 3 versions | retrieval sees approved texts and their own chunks, automatic publication has its two reviews |
| `administration` | 3 accounts, 1 invitation | an owner remains, owners are protected, an invitation is spent once |
| `chat_workspace` | 2 conversations, 1 file, 2 questions | one answer at a time, honest outcomes, the selection that counts |
| `section_review_unpublishable` | as `knowledge` | finding below |

Why the bounds are enough. Quota: a bucket with limit 2 sees two leases of one user
compete, a limit fall below use, and a third unit refused; two requests of one account
share both of their buckets, which a cycle of waits needs; two days let a request and its
duplicate charge different buckets; two sessions are the parties of every conflict in the
code, and each runs any number of transactions. The instance takes the resource with two
scopes, since one with a single scope has fewer ways to fail. Two accounts in one global
bucket are left to the theorems, which hold for any number of everything.
Runs: two handlers give every pair of one run
with a concurrent duplicate, retry, regenerate or continue; two keys tell equal
from different client requests; recovery and account deletion come on top.
`MaxRecoveryBatch` = 1 lets one orphan be in hand at a time, which is enough since
releases of different leases touch different rows. Answer loop: two calls fill a batch, a
response may carry three, so one batch is left over or one call repeats another;
`MAX_TOOL_CALLS` = 4 is reached by the server's calls with them, `MAX_MODEL_REQUESTS` = 3
by a round, its answer and one more; one break and one lost acknowledgement (of a start or of
a settling write, `MaxLost`) meet each place that can fail. Model stream: three reports are an item, its repetition and a contradiction, or the
streamed and terminal halves of one item with an event in between. Attachments: two completions
and two workers give every stale/fresh pair; two lapses let a lease go stale twice
or a clear fail once besides. Artifacts: two formats give a file that is stored and one that fails, in every
order; a run has one tool call, and a key of another artifact shares nothing but the
account row, whose updates are increments. `MaxAttempts` = 2 has a retry and a last attempt.
Knowledge: two contents are a text and its edit, and let an edit be undone; three versions
are one, its successor and one that overtakes it; two requests of administrators or lapses
(`MaxActs`), two attempts, one poll, and documents that begin as candidate, upload or
provisional publication (`Origins`). Administration: three accounts are two
owners who act on each other and a third who is invited or promoted; one ban, bonus or
sign-out (`MaxMeasures`), two requests or sign-ins under way (`MaxRequests`). Chat page: two
conversations to turn between, a second question while the first is unfinished.
A system that has answered everything may stop, so CHECK_DEADLOCK is off where
handlers, attachments, reviews, requests or questions are consumed; the quota sessions and the
answer loop must always be able to go on.

Fairness. `agent_run_liveness` assumes only that the worker keeps running recovery
passes (`WF` of RecoverRun, ScanOrphans, ReleaseOrphan: the interval loop that
calls recoverStaleAgentRuns) and that time passes the stale threshold; handlers and
clients may stop at any point. `chat_storage_liveness` assumes that the worker loop
goes on and that a begun transaction ends; `DeletionEnds` and `ScanningEnds` name the
rest of what they need as a premise (`ExpiryFairness`: time passes and the loop
enqueues expired orphans), which `ParsingEnds` does without. `NoWaitCycle` needs no
fairness: it asks that one of the sessions with an open transaction does not wait (`Waits`
names the locks of the two statements that may). A cycle of some would be left alone once
the others have ended.
Failures remain possible under each: calls fail, leases lapse up to `MaxLapses`.

## Findings

* `section_review_unpublishable`. The sign-off of all sections records a review with
  `mode: "section"`, but hands the embedding task a review without it
  (`review-sections-repository.ts:449`). The worker writes the task's review over the recorded one
  (`postgres-repository.ts:553`), and the publication gate (`store.ts:754`) then refuses the text. Signing off
  again queues nothing, since the task's idempotency key is spent.

### Further departures

What follows was met while modelling. Some of it contradicts a document, the rest is worth
an argument. Where a statement is named, adding it as INVARIANT or
PROPERTY to the configuration of its module makes TLC show the behaviour.

* `RejectedUploadStaysDeleted` (ChatStorage). `docs/agent-v3-attachments.md:48` says the
  deletion of a reserved upload waits for its PUT URL to expire "so a late upload cannot
  recreate an orphan after an early delete". `rejectCompletion` (`repository.ts:291`)
  queues it to run at once; a repeated PUT then stores the object again for good.
* `EnqueuedBeforeCascade` (ChatStorage). Line 46 of that document says that deletion enqueues object
  keys before metadata is cascaded. `clearConversationData` (`store.ts:2599`) selects the
  attachments and later deletes the conversations without locking them; one initiated in
  between is cascaded away with no job, and its bytes stay charged. `AccountMatchesRows`
  has exactly that exception (`lost`).
* `FailedRunReleasesBytes` (ArtifactStorage). `docs/agent-v3-artifacts.md:73` says a failed run "releases
  committed/reserved storage bytes, and queues object deletion". The first statement
  of `cleanupRunArtifactsInTransaction` (`run-settlement.ts:62`) fixes its snapshot,
  then waits for the artifact row that a concurrent `reserveFile` holds; it sums the
  files it saw, and the bytes of the new one stay charged (`stray`).
* `FailedRunKeepsNoFile` (ArtifactStorage). The same sentence; `createArtifact` locks its run FOR KEY SHARE
  (`artifact-storage.ts:166`), which `RunStore.fail` does not conflict with, so an
  artifact may appear after the settlement of its run. `discardRun`, which the sentence
  names, has no caller.
* `ArtifactFailureKeepsAnswer` (AnswerLoop). Lines 66 to 68 of that document say that a failed
  artifact does not fail the text answer; `orchestrator.ts:504` throws and the run fails.
* `PublishedIsImmutable` (Knowledge). Line 45 of `docs/knowledge-governance.md`. A version published provisionally
  keeps its `publishedAt` when it returns to review, and its text is rewritten by the
  next edit (`store.ts:3603`).
* `ArchivedStays` (Knowledge). The label of the archive button (`knowledge-manager.tsx:1286`)
  promises the end of processing. The completion of an upload reads no status and
  takes the document back to processing; writes of a late reviewer may do the same.
* `PreparedCanBeDeleted` (Administration). An account that accepted an invitation is prepared for
  deletion, which strips its role and locks it; the deletion of its row then fails, because
  `admin_invitation.accepted_by` is ON DELETE SET NULL while the CHECK of an accepted
  invitation (`server/db/schema/operations.ts:463`) demands the column.
  `account-cleanup.test.ts:19` lets a regular account go on to its deletion.
* An invocation whose insert committed without an acknowledgement stays "running"
  (`model-runtime.ts:111`, `orchestrator.ts:1644`): the catch block has no handle to settle, no
  recovery looks at such rows, and their reserved cost counts against the budgets.
* A second `complete` of an original upload that read the missing task id before the first
  one wrote it sets the document to processing again (`original-upload-repository.ts:138`);
  Knowledge has one completion of an upload.
* A `web_search` lease of a process that died stays reserved until its day is over
  (`retention.ts:185` looks at two other resources).
* Chat page. The first file of a new conversation is cancelled: `ensureConversation` sets the
  conversation, whose id is the key of the composer (`chat-workspace.tsx:1748`), and the old
  one aborts its uploads (`chat-composer.tsx:77`). A question sent while a detail is loading is
  overwritten by it. After New during a stream, the completion shows the old id with
  an empty view. A cancel that times out late aborts the next answer. An abort is
  said not to count as a success (`chat-workspace.tsx:955`), while the server may just have
  completed and charged the answer. The deletion of a
  conversation uses the selection at the click. A first question that fails after it was
  accepted leaves the page without a conversation. A stream that breaks after `run.completed`
  shows the stored answer as an error. A second click on retry starts a second upload.
* Deployment, read for the plan and not modelled. `backup_runtime_env` names its copy of `.env`
  before it is written (`deploy/deploy.sh:465`); when the copy is cut short, by a full disk, the
  failure path restores it over `.env` and clears the journal, although `docs/deployment.md:216`
  lets the journal go with a verified rollback only. On staging, `mv` takes whatever stands at
  `.activation-lock` (`deploy/activate-bundle.sh:263`), after the last look at its owner: a slow
  recovery of an expired lock may move aside the lock another has taken since.

## Proofs

Every theorem is of the form `Spec => []Inv`, `Spec => [][A]_vars`, or `Spec` implies
another specification, for all values of the constants. The assumptions on the constants
stand in the modules (`QuotaConstants`, `TxConstants`, `AgentRunConstants`,
`ChatStorageConstants`, `ArtifactConstants`, `StreamAssumption`, `KnowledgeAssumption`,
`AdministrationAssumption`, `ChatWorkspaceAssumption`, `LimitsAssumption`): `None` and its like are not
members of the sets they stand beside, bounds are natural numbers, enumerations are those
of the code. No set is assumed finite. TLC evaluates each assumption in the runs of its
module, and each inductive invariant was checked by TLC before its proof was begun.

The theorem named `Inductive` in each module is `Spec => []IInv`; the properties follow
from it. A property is seldom inductive alone, and what `IInv` adds to it says why it holds.

### Quota

Of QuotaLedger, `QuotaProofs` proves `TypeCorrect`, `AccountingExact`
(BucketMatchesLedger), `ChecksHold` (BucketChecksHold), `DeletionStrandsNothing`
(DeletionLeavesNothingHeld), and three statements no run repeats: `LeaseAtomicity`
(LeaseIsAtomic) and the action properties `SettlementFinal` (SettledIsFinal) and
`GlobalChargeKept`. `IInv` adds to type correctness and the accounting equation:

* `RowsWellFormed`: a lease only has rows in scopes it charges and, when it has
  rows, a day. Without it a row could be counted in no bucket;
* `HoldingFinite`: the rows in a bucket are a finite set, so that cardinalities can
  be added and subtracted although requests are not assumed finite;
* `RowsAgree`: rows of one lease of an active account have one status; needed to
  show that a settlement moves all of them;
* `UserScopeGone`: from the moment deletion was requested no user-scoped row or
  bucket exists and no row is reserved; needed for `DeleteUser` and
  `CleanupDeletedUser` to change no counter wrongly;
* `OnlyGlobalForgotten` and `WithinLimit`: the history variable concerns shared
  buckets only, and the limit is never below what is used, which `Reserve`
  re-establishes through `ReconciledLimit` and settlements preserve.

The accounting steps split a bucket into hit and not hit, and express the new set of
rows as the old one plus or minus one lease (`CardMinusSet` for deletions).

Then come the two refinements. `LedgerImplementsLease`: with the mapping
`LeaseView` (aggregateStatus of the rows), each action of QuotaLedger is Reserve, Settle,
Close, Remove or a stutter of Lease; `RowsAgree` makes a transition one abstract step.
`TxImplementsLedger`: a committed transaction of QuotaReserveTx is one action of QuotaLedger
and every other statement changes nothing that is committed. `TxInv` is `IInv` with
`RowHasBucket` (a row has a bucket in each of its scopes) and an account of every session
(`ReserveOK`, `SettleOK`) at each statement: what it has written is exactly what the action would write
for the scopes it has come to, on top of the committed tables, and no other open session has written the same bucket, moves the same
rows or has inserted a row of the same key (`Apart`), because of the row locks and the
unique index. Hence `TxImplementsLease` and, for the statements themselves,
`TxAccountingExact`, `TxChecksHold` and `TxDeletionStrandsNothing`.

`TxNeverAllWait` is NoWaitCycle for any number of sessions, accounts and resources. The
session accounts say in which order the locks are taken (`InOrder`): the bucket of the global
scope before the one of the user, in a reserve as in a settlement, and ledger rows after every bucket.
Suppose all open sessions wait. One that holds the user's bucket holds all of its own and
waits to insert its last row; the session whose claim it waits for has inserted that row,
so it has none left to wait for (`NoneHoldsUser`). One that holds only a
global bucket then waits for a bucket nobody holds, or to insert the global row, which fails
in the same way (`NoneHoldsGlobal`). So no bucket is held, and none can be waited for. An account's
deletion is one step of the model and holds no lock between steps, so a cycle through it is
outside this statement.

### Runs

`AgentRunProofs` proves `ChargedIsDelivered`, `OneAnswer`, `NewestIsSelected`,
`ClientToldTheTruth` and `RunsUseLeases` (`UsesLeases`, the refinement of Lease). `RowsOK`
adds that only a run in a terminal state is settled, that a turn is named by its first run
and has a latest version, and that an active run is the newest of its turn; the last is
what makes the run selected at completion the newest completed one. `HandlersOK` says what
a handler knows at each await: before it creates its run there is none of its name, the
run it created carries its key, and when every settlement that may release the
answer has returned and none reported an error, the lease is released
(`CleanMeansReleased`). That is what entitles it to tell the client that nothing was charged.
The actions are sorted into a few kinds of step on rows and leases (`StepKinds`), and the row
invariants are proved once per kind.

### The answer loop

`AnswerLoopProofs` proves `ArtifactIsMadeOnce`, `SavedRunIsAccounted`, `NoInvocationIsLeft`,
`EverySearchIsPaid` and `RequiredWebIsKept` of a run with any number of calls, requests,
batches and rounds. What a call may be depends on where the run stands: `WaitPart` says
that a run that has not failed is busy only with one call of its own or with a batch, and
`OrderPart` which of its own calls it has not come to. Both rest on a lemma that sorts the
steps into twelve kinds (`Kinds`); in three of them a call is numbered, started or ended, and
what that does to its row is proved once (`RecordingIs`, `StartsIs`, `EndsIs`). On these
`IInv` builds the account (`Accounted`: the numbers drawn and the calls that have one
correspond one to one, and `calls` is the number of calls counted so far; a batch counts its
new ids through a bijection), the file (`FilePart`: the one `create_artifact` either waits
for its batch or was started, and neither before one was attempted), the invocations (`StartPart`:
a start that was not acknowledged ends the run, unless it was the discovery's, so in a saved
run only the first can be such a one), the answer, and the search (`WebPart`: while a required search is still to come, nothing
else has been concluded). `LimitsAssumption` asks for `MAX_TOOL_CALLS > 3`: a required
search is skipped when no call is left for it, and before it the model makes at most three
calls. The code's limit is 8, and before its search come at most seven calls: one search of
the knowledge, one of each of five attachments (`MAX_CHAT_ATTACHMENTS_PER_MESSAGE`) and one
excerpt. A sixth attachment could use up the call the search needs.

### The model stream

Of ModelStream, `AnswerLoopProofs` proves `StreamPairsTheNextRequest` (NextRequestIsPaired) and
`StreamProvesSearches` (SearchProofIsGenuine), for any number of items and events. What holds
while a stream is read is short (`CallsStreamed`: a call that was yielded is yielded once and
is among the items to continue with; `SearchesTold`: the sets of searches are what was
said of them). The work is in the terminal event, where two loops run over data of any length.
`MergeLosesNothing` says of the merge that it invents no item, keeps each item of the
output and for each streamed one an item of its identity, and doubles no call; it needs that the stable
sort is a permutation (`SortedIs`: ranks are an injection between sets of one size).
`LateCalls` says that the terminal calls are the unstreamed ones, each once. Both are
inductions along the loop. The library's induction theorems take an operator and cannot be
used, so `InductionOn` states induction with a set in place of the predicate, from the
well-founded order of the natural numbers, and `MergeDefined` and `LateDefined` prove that the recursive
definitions define a function. `StreamAssumption` asks that "page", which stands for the
annotations of a message among the sources, is not the id of a search.

### Files

`ChatStorageProofs` proves `AccountIsTheRows`, `ReadyKeepsObject`, `RemovedLeavesJob` and the
action properties `BoundStays` and `FinishedStays`. `IInv` adds that identifiers are not
used again (`Once`), that what is charged to an open account has no deletion job
(`ChargedHasNoJob`), that a worker only deletes what has a job (`JobFirst`), and that a
completer about to commit saw an object nobody may have removed since (`SeenGood`). The
byte counters are cardinalities of sets of rows; `CountOneMore`, `CountOneLess` and
`TagsCount` are the arithmetic behind every path.

`ArtifactStorageProofs` proves `AccountIsTheRows`, `ReadyStaysDownloadable` and
`NoObjectIsForgotten`. `KeyOK` follows a file: one that the tool call has not come to is new,
a stored object has a row or a job that comes after it (`Followed`: the job of an upload
under way waits, and AbortFile queues it again), a deletion that was done leaves no object
unless a late upload is about to abort, and the files of a live artifact have no job
(`Alive`). `Ledger` is the accounting equation with its exception `stray`.

### Knowledge

`KnowledgeProofs` proves `EmbeddedCurrent`, `PolicyHasPair` and `RetrievedIsApproved`. Approvals are never
taken back (`Grows`: the endorsed contents only grow, completed review runs do not change),
so it suffices that each write of an approval was entitled to it: `RowOK` says that an
approved row names the text it has, and that this text is `Backed` by a person or by an
initial and a verifying run. The worker writes approvals long after it read them. `JobsPart`
carries them across its awaits (what it has loaded was approved, whatever became of the
version since), and `Named` says that the task of an automatic publication names the
initial run. The pair the publication needs is then found with `Eligible` at the moment of
the write (`AutoPublishHasPair`).

### Administration

`AdministrationProofs` proves `AnOwnerRemains` and the action properties `OwnersProtected` and
`SpentOnce`. The checks before a role is removed are repeated under a lock, so two owners cannot remove
each other; `IInv` adds that owners have active accounts, unless an account under deletion
became owner (`stray`).

### Chat page

`ChatWorkspaceProofs` proves `OneUnderWay`, `OutcomesAreTrue` and `LatestIsShown`. The
request under way is the one `abortRef` reaches (`BusyPart`); a message marked completed,
incomplete or refunded rests on an answer or charge the server never takes back (`Settles`), and
the answer determines the charge (`ServerPart`); and a detail request that
still counts is for the conversation the user turned to last (`PagePart`).

### Not proved

Beyond the prover are the liveness properties of `agent_run_liveness` and
`chat_storage_liveness`, which need fairness and ENABLED. Every invariant and action
property that a run checks is also a theorem. No module declares a recursive operator.

## Plan

1. The storage account as an abstract module that ChatStorage and ArtifactStorage
   implement; two artifacts of successive runs.
2. Deployment activation and rollback: the lock with its recovery, the journal, `.env`,
   `current-release` and the receipt, through signals, kills and a power loss, with the
   property that a host without a journal is in the state of its last commit. Problem
   reports with their notification.
3. Pure algorithms against reference definitions over bounded inputs: rank fusion,
   text chunking.

## Not modelled

* Parsers, embeddings, scoring and calculators are real-number or text algorithms;
  document rendering and the other pages are formatting; deployment scripts keep their
  state on a host; evaluations and smoke scripts are test tooling. Problem reports, prompts, tasks,
  feedback, memories and settings are single statements.
* Providers other than the answer model appear as nondeterministic outcomes. Wire formats,
  logging and wording are left out. Message rows of a run are written in
  the transactions of the run and carry no control.
* AnswerLoop: one document attachment, one calculator and a single reading tool stand for
  their kinds; the building of context, the loading of policies, the content of results
  and a replay of the results of a repeated run are left out. No liveness property is
  stated of it.
* Knowledge: reviewers who are not editors, uploads without governance, the script that embeds published
  documents and the one-time restore, the second read of the source in an initial
  completion. `reviewKnowledgeDocument` is dead code: its endpoint answers 409
  (`admin.ts:506`). The origin `draft` is in the module and left out of the run: it
  differs from `candidate` only in its first status.
* Administration: the address of an account (an invitation names the account), the check before
  the lock in `assertCanManageUser`, sign-out by the user, budget settings.
* ChatWorkspace: search and paging of the history, the redirect to sign in and the question
  kept for afterwards, version tabs, two cancels at once, two deletions of one file.

`PROJECT.json` lists each part with its status.

## Running

    tlc -workers 2 -config MCQuotaReserveTx.cfg MCQuotaReserveTx
    tlapm QuotaProofs.tla        (and every other module named xProofs)
