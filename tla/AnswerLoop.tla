----------------------------- MODULE AnswerLoop -----------------------------
(***************************************************************************)
(* One run of AgentRunOrchestrator: the server's own evidence gathering    *)
(* (knowledge, attachment, web), the loop of model requests and parallel   *)
(* tool calls, the one recovery of artifact arguments, the trusted         *)
(* projection of a calculation, validation with its single repair, and the *)
(* save.  A run awaits one thing at a time except in a batch of tool       *)
(* calls; but the loser of a Promise.race and the siblings of a rejected   *)
(* Promise.all go on, after the run has moved on or even ended.            *)
(* What the run writes to its own rows when it is saved is AgentRun.       *)
(***************************************************************************)
EXTENDS Naturals, Sequences, FiniteSets

CONSTANTS
    Calls,                  \* call ids a provider may use
    MAX_TOOL_CALLS, MAX_PARALLEL_TOOLS, MAX_MODEL_REQUESTS,
    MAX_TOOL_ROUNDS,        \* maxToolRounds of the budget profile
    Requests,               \* bound: the requests a run may be given
    MaxCallsPerResponse,    \* bound: function calls in one model response
    MaxBreaks,              \* bound: model requests that break off unless aborted
    MaxLost                 \* bound: starts whose answer is lost, settling writes that are

ServerCalls == {"knowledge", "attachment_search", "attachment_open", "web", "web_link"}

\* The calls that may come before a required search leave room for it.
ASSUME LimitsAssumption ==
    /\ Calls \cap ServerCalls = {}
    /\ MAX_TOOL_CALLS \in Nat /\ MAX_TOOL_CALLS > 3 /\ MAX_MODEL_REQUESTS \in Nat \ {0}
    /\ MAX_TOOL_ROUNDS \in Nat /\ MAX_PARALLEL_TOOLS \in Nat \ {0}
    /\ MaxCallsPerResponse \in Nat /\ MaxBreaks \in Nat /\ MaxLost \in Nat

AllCalls == Calls \cup ServerCalls
Tools == {"search_knowledge", "read_verified_url", "estimate_pumpdown_time", "create_artifact"}

VARIABLES
    request,     \* what the user asked for; fixed during the run
    pc,          \* where run() is
    n,           \* the counters of the orchestrator
    aborted,     \* the run's signal: cancelled by the user or timed out
    tool,        \* tool[c]: the execution of call c and the row it gets
    late,        \* calls reported as timed out that may register evidence later
    seen,        \* seenProviderCallIds
    todo,        \* calls of this round no batch has taken yet
    round,       \* whether this round makes a file, and the tool it was forced to use
    records,     \* rows of agent_tool_call
    evidence,    \* calls that put entries in the evidence registry
    links,       \* calls whose result carried a verified link
    calculations,\* calls whose result carried a calculation
    artifact,    \* "none", "ready" or "failed"
    attempted,   \* create_artifact is in attemptedNonRepeatableToolNames
    recovery,    \* pendingArtifactArgumentRecovery
    projected,   \* projectedCalculationIds is set: the answer must be tool-free
    webLease,    \* the run's web_search lease
    webFailure,  \* webSearchFailure
    ask,         \* the model request being made: its purpose, its retry, its tools
    invocation,  \* statuses of the run's model_invocation rows, in order
    unwritten,   \* invocations whose settling write failed
    unacknowledged, \* invocations the run has no handle for
    candidate,   \* outputText, as validation sees it
    incomplete,
    answer, outcome

vars == <<request, pc, n, aborted, tool, late, seen, todo, round, records, evidence,
          links, calculations, artifact, attempted, recovery, projected, webLease,
          webFailure, ask, invocation, unwritten, unacknowledged, candidate, incomplete,
          answer, outcome>>

toolVars == <<tool, late, seen, todo, round, records>>
groundVars == <<evidence, links, calculations, artifact>>
modelVars == <<ask, invocation, unwritten, unacknowledged>>
loopVars == <<attempted, recovery, projected>>
webVars == <<webLease, webFailure>>
endVars == <<answer, outcome>>

-----------------------------------------------------------------------------
(* Requests.  "artifact_calculation" asks for a file that needs a          *)
(* calculation first, "scope" for a file that was never attached.          *)

Request == [intent : {"plain", "artifact", "artifact_calculation", "pumpdown", "scope"},
            resource : {"none", "link", "document"}, risk : {"low", "high"},
            web : {"auto", "fresh", "always"}, wantsLink : BOOLEAN]

Definitions ==
    {"search_knowledge", "estimate_pumpdown_time"}
      \cup (IF request.resource = "link" THEN {"read_verified_url"} ELSE {})
      \cup (IF request.intent \in {"artifact", "artifact_calculation"}
            THEN {"create_artifact"} ELSE {})

\* A file is never made for a high risk, a resource to read or a missing calculation.
shouldBlockArtifactCreation ==
    /\ request.intent \in {"artifact", "artifact_calculation"}
    /\ \/ request.risk = "high" \/ request.resource # "none"
       \/ request.intent = "artifact_calculation"

webRequired == request.web \in {"fresh", "always"}
shouldUseWeb == webRequired \/ evidence = {} \/ request.risk = "high"
minimumLinkCount == IF request.wantsLink /\ links # {} THEN 1 ELSE 0
preferCalculationAnswer == request.risk # "high" /\ calculations # {}

\* Evidence of this turn's own attachments and links.
currentTurnEvidence ==
    {c \in evidence : c \in {"attachment_search", "attachment_open"}
                        \/ tool[c].name = "read_verified_url"}

toolRoundLimit ==
    MAX_TOOL_ROUNDS + IF /\ calculations # {}
                         /\ "create_artifact" \in Definitions \/ request.resource # "none"
                      THEN 1 ELSE 0

\* selectAnswerToolRequestPolicy: the tools of a request, and the one it must call.
Policy(purpose) ==
    LET callable == IF purpose # "answer" \/ projected \/ n.rounds >= toolRoundLimit THEN {}
                    ELSE Definitions
                           \ ((IF calculations # {} THEN {"estimate_pumpdown_time"} ELSE {})
                              \cup (IF attempted \/ shouldBlockArtifactCreation
                                    THEN {"create_artifact"} ELSE {}))
        forced == IF "create_artifact" \in callable /\ (recovery \/ request.intent = "artifact")
                  THEN "create_artifact"
                  ELSE IF request.intent = "pumpdown" /\ callable # {} /\ calculations = {}
                  THEN "estimate_pumpdown_time" ELSE "none"
    IN [callable |-> IF forced = "none" THEN callable ELSE {forced}, forced |-> forced]

NoAsk == [purpose |-> "none", retry |-> FALSE, callable |-> {}, forced |-> "none"]
Asking(purpose) == [purpose |-> purpose, retry |-> FALSE,
                    callable |-> Policy(purpose).callable, forced |-> Policy(purpose).forced]

NoTool == [name |-> "none", state |-> "none", sequence |-> 0]
NoRound == [file |-> FALSE, forced |-> "none"]
NoAnswer == [by |-> "none", basis |-> "none"]
NoCandidate == [form |-> "none", by |-> "none", basis |-> "none"]

Init ==
    /\ request \in Requests \cap Request
    /\ pc = "knowledge"
    /\ n = [requests |-> 0, calls |-> 0, rounds |-> 0, repairs |-> 0,
            artifactRepairs |-> 0, sequence |-> 0, breaks |-> 0]
    /\ aborted = FALSE
    /\ tool = [c \in AllCalls |-> NoTool] /\ late = {} /\ seen = {} /\ todo = <<>>
    /\ round = NoRound /\ records = {}
    /\ evidence = {} /\ links = {} /\ calculations = {} /\ artifact = "none"
    /\ attempted = FALSE /\ recovery = FALSE /\ projected = FALSE
    /\ webLease = "none" /\ webFailure = "none"
    /\ ask = NoAsk /\ invocation = <<>> /\ unwritten = {} /\ unacknowledged = {}
    /\ candidate = NoCandidate
    /\ incomplete = FALSE
    /\ answer = NoAnswer /\ outcome = "running"


\* run() throws: http-v2 takes over, and what is still executing goes on.
Throw == pc' = "done" /\ outcome' = "failed" /\ answer' = NoAnswer

Goto(label) == pc' = label /\ UNCHANGED endVars

-----------------------------------------------------------------------------
(* Tool executions and their rows.                                         *)

\* executeValidated starts.
Executing(c, name) == [tool EXCEPT ![c] = [NoTool EXCEPT !.name = name, !.state = "running"]]

\* recordTool takes its sequence number before it awaits the insert.
Recording(c) ==
    /\ tool' = [tool EXCEPT ![c].state = "recording", ![c].sequence = n.sequence + 1]
    /\ n' = [n EXCEPT !.sequence = @ + 1,
                      !.calls = @ + IF c \in ServerCalls \ {"web_link"} THEN 1 ELSE 0]

EvidenceTools == {"search_knowledge", "search_attachment", "open_attachment_excerpt",
                  "read_verified_url"}

\* What executeValidated itself does before it returns: the evidence registry
\* is shared, so this happens even when nobody waits for the result.
Registers(c) ==
    \/ evidence' = evidence
    \/ tool[c].name \in EvidenceTools /\ evidence' = evidence \cup {c}

\* The execution returns in time.
ToolReturns(c) ==
    /\ tool[c].state = "running"
    /\ Registers(c)
    /\ links' = IF tool[c].name = "read_verified_url" /\ c \in evidence'
                THEN links \cup {c} ELSE links
    /\ calculations' \in IF tool[c].name = "estimate_pumpdown_time"
                         THEN {calculations, calculations \cup {c}} ELSE {calculations}
    /\ artifact' \in IF tool[c].name = "create_artifact" THEN {"ready", "failed"} ELSE {artifact}
    /\ Recording(c)
    /\ UNCHANGED <<request, pc, aborted, late, seen, todo, round, records, modelVars,
                   loopVars, webVars, candidate, incomplete, endVars>>

\* withTimeout: the caller is told TOOL_TIMEOUT, the execution is left to go on.
ToolTimesOut(c) ==
    /\ tool[c].state = "running"
    /\ late' = IF tool[c].name \in EvidenceTools THEN late \cup {c} ELSE late
    /\ artifact' = IF tool[c].name = "create_artifact" THEN "failed" ELSE artifact
    /\ Recording(c)
    /\ UNCHANGED <<request, pc, aborted, seen, todo, round, records, evidence, links,
                   calculations, modelVars, loopVars, webVars, candidate, incomplete, endVars>>

\* It comes back later, and finds a registry the run still uses.  Nobody reads the
\* registry while the row of the timeout is written.
LateReturn(c) ==
    /\ c \in late /\ outcome = "running" /\ tool[c].state # "recording"
    /\ evidence' = evidence \cup {c} /\ late' = late \ {c}
    /\ UNCHANGED <<request, pc, n, aborted, tool, seen, todo, round, records, links,
                   calculations, artifact, modelVars, loopVars, webVars, candidate,
                   incomplete, endVars>>

\* The server's own calls come one after the other; where each one leads.
AfterServerCall(c) ==
    CASE c = "knowledge"         -> "attachment"
      [] c = "attachment_search" -> IF c \in evidence \ late THEN "attachment_open" ELSE "web"
      [] c = "attachment_open"   -> "web"
      [] c = "web"               -> IF "web" \in links THEN "web_link" ELSE "ask"
      [] c = "web_link"          -> "ask"
      [] OTHER                   -> pc

\* store.recordToolCall is done.  A required search without quota ends the run here.
Recorded(c) ==
    /\ tool[c].state = "recording"
    /\ tool' = [tool EXCEPT ![c].state = "done"]
    /\ records' = records \cup {[call |-> c, sequence |-> tool[c].sequence]}
    /\ IF c = "web" /\ webFailure = "quota_exhausted" /\ request.web = "always"
       THEN Throw
       ELSE Goto(IF outcome = "running" THEN AfterServerCall(c) ELSE pc)
    /\ UNCHANGED <<request, n, aborted, late, seen, todo, round, groundVars, modelVars,
                   loopVars, webVars, candidate, incomplete>>

\* The insert fails: Promise.all rejects, the siblings of the batch go on.
RecordFails(c) ==
    /\ tool[c].state = "recording"
    /\ tool' = [tool EXCEPT ![c].state = "unrecorded"]
    /\ IF outcome = "running" THEN Throw ELSE Goto(pc)
    /\ UNCHANGED <<request, n, aborted, late, seen, todo, round, records, groundVars,
                   modelVars, loopVars, webVars, candidate, incomplete>>

\* signal.throwIfAborted() at a step of run().
AbortSeen ==
    /\ aborted
    /\ pc \in {"knowledge", "attachment", "attachment_open", "web", "ask", "regenerate", "batch"}
    /\ Throw
    /\ UNCHANGED <<request, n, aborted, toolVars, groundVars, modelVars, loopVars, webVars,
                   candidate, incomplete>>

ServerToolName(c) ==
    CASE c = "knowledge" -> "search_knowledge"
      [] c = "attachment_search" -> "search_attachment"
      [] c = "attachment_open" -> "open_attachment_excerpt"
      [] OTHER -> "web_link_binding"

StartServerCall(c, label) ==
    /\ pc = label /\ ~aborted
    /\ tool' = Executing(c, ServerToolName(c))
    /\ Goto("server_call")
    /\ UNCHANGED <<request, n, aborted, late, seen, todo, round, records, groundVars,
                   modelVars, loopVars, webVars, candidate, incomplete>>

proactiveKnowledgeSearch == StartServerCall("knowledge", "knowledge")

\* One attachment is searched, and its first match opened.
proactiveAttachmentEvidence ==
    \/ request.resource = "document" /\ n.calls < MAX_TOOL_CALLS
       /\ StartServerCall("attachment_search", "attachment")
    \/ n.calls < MAX_TOOL_CALLS /\ StartServerCall("attachment_open", "attachment_open")
    \/ /\ \/ pc = "attachment" /\ (request.resource # "document" \/ n.calls >= MAX_TOOL_CALLS)
          \/ pc = "attachment_open" /\ n.calls >= MAX_TOOL_CALLS
       /\ ~aborted /\ Goto("web")
       /\ UNCHANGED <<request, n, aborted, toolVars, groundVars, modelVars, loopVars,
                      webVars, candidate, incomplete>>

-----------------------------------------------------------------------------
(* The web search: a unit is committed before the discovery request and is  *)
(* released when the search was not started.                               *)

\* What is awaited before the model: the record of the search or nothing.
webDone(failure, found) ==
    /\ webFailure' = failure
    /\ evidence' = IF found THEN evidence \cup {"web"} ELSE evidence
    /\ links' = IF found THEN links \cup {"web"} ELSE links
    /\ tool' = [tool EXCEPT !["web"] = [name |-> "web_search", state |-> "recording",
                                        sequence |-> n.sequence + 1]]
    /\ Goto("server_call")
    /\ UNCHANGED <<request, aborted, late, seen, todo, round, records, calculations,
                   artifact, loopVars, candidate, incomplete>>

counted == [n EXCEPT !.calls = @ + 1, !.sequence = @ + 1]

WebSkip ==
    /\ pc = "web" /\ ~aborted /\ ~(shouldUseWeb /\ n.calls < MAX_TOOL_CALLS)
    /\ Goto("ask")
    /\ UNCHANGED <<request, n, aborted, toolVars, groundVars, modelVars, loopVars, webVars,
                   candidate, incomplete>>

WebReserve ==
    /\ pc = "web" /\ ~aborted /\ shouldUseWeb /\ n.calls < MAX_TOOL_CALLS
    /\ \/ /\ webLease' = "reserved" /\ Goto("web_commit")
          /\ UNCHANGED <<request, n, aborted, toolVars, groundVars, modelVars, loopVars,
                         webFailure, candidate, incomplete>>
       \/ /\ webDone("quota_exhausted", FALSE)
          /\ n' = counted
          /\ UNCHANGED <<modelVars, webLease>>
       \/ /\ Throw
          /\ UNCHANGED <<request, n, aborted, toolVars, groundVars, modelVars, loopVars,
                         webVars, candidate, incomplete>>

MutWebCommit ==
    /\ pc = "web_commit" /\ ~aborted
    /\ Goto("web_discovery")
    /\ UNCHANGED <<request, n, aborted, toolVars, groundVars, modelVars, loopVars, webVars,
                   candidate, incomplete>>

\* The abort check and the commit; its answer may be lost after it took effect.
\* finally releases the lease, which changes nothing once it is committed, and
\* swallows its own failure.
WebCommit ==
    /\ pc = "web_commit"
    /\ \/ /\ ~aborted /\ webLease' = "committed" /\ Goto("web_discovery")
       \/ /\ aborted /\ webLease' \in {"released", "reserved"} /\ Throw
       \/ /\ ~aborted /\ webLease' \in {"committed", "released", "reserved"}
          /\ Throw
    /\ UNCHANGED <<request, n, aborted, toolVars, groundVars, modelVars, loopVars,
                   webFailure, candidate, incomplete>>

-----------------------------------------------------------------------------
(* Model requests: meteredStream under collectModelResponse.               *)

\* The transaction that inserts the row throws, without effect or after its commit: no
\* handle comes back, and no later step settles the row.
StartThrows ==
    /\ UNCHANGED <<ask, unwritten>>
    /\ \/ UNCHANGED <<invocation, unacknowledged>>
       \/ /\ Cardinality(unacknowledged) < MaxLost
          /\ invocation' = Append(invocation, "running")
          /\ unacknowledged' = unacknowledged \cup {Len(invocation) + 1}

\* The request is counted, then its invocation row is inserted under the budget
\* lock; the limit, the input budget, the model budget and a lost insert end the run,
\* except in the discovery, where every error but an abort is a failed search.
StartRequest(purpose, retry, doing) ==
    \/ /\ n.requests < MAX_MODEL_REQUESTS
       /\ n' = [n EXCEPT !.requests = @ + 1]
       /\ \/ /\ invocation' = Append(invocation, "running")
             /\ ask' = [doing EXCEPT !.retry = retry]
             /\ Goto("stream")
             /\ UNCHANGED <<unwritten, unacknowledged>>
          \/ (purpose # "web" \/ aborted) /\ Throw /\ StartThrows
    \/ n.requests >= MAX_MODEL_REQUESTS /\ Throw /\ UNCHANGED <<n, modelVars>>

requestModel ==
    /\ pc \in {"ask", "web_discovery", "repair", "regenerate"}
    /\ pc \in {"ask", "regenerate"} => ~aborted
    /\ LET purpose == CASE pc = "ask" -> "answer" [] pc = "web_discovery" -> "web"
                        [] OTHER -> pc
       IN StartRequest(purpose, FALSE, Asking(purpose))
    /\ recovery' = FALSE
    /\ UNCHANGED <<request, aborted, toolVars, groundVars, attempted, projected, webVars,
                   candidate, incomplete>>

\* The discovery is refused by the budget or its start is lost: a search that failed.
webBudgetRefused ==
    /\ pc = "web_discovery" /\ ~aborted
    /\ webDone("no_validated_evidence", FALSE)
    /\ n' = [counted EXCEPT !.requests = @ + 1]
    /\ StartThrows /\ UNCHANGED webLease

MutSettle(status) ==
    /\ UNCHANGED <<unwritten, unacknowledged>>
    /\ invocation' = IF aborted THEN invocation
                     ELSE [invocation EXCEPT ![Len(invocation)] = status]

\* Settling the row of the current request; the write may be lost.
Settle(status) ==
    /\ \/ invocation' = [invocation EXCEPT ![Len(invocation)] = status] /\ UNCHANGED unwritten
       \/ Cardinality(unwritten) < MaxLost /\ unwritten' = unwritten \cup {Len(invocation)}
          /\ UNCHANGED invocation
    /\ UNCHANGED unacknowledged

\* The provider breaks off, or stops because the run was aborted.
ProviderError ==
    /\ pc = "stream" /\ (aborted \/ n.breaks < MaxBreaks)
    /\ Settle(IF aborted THEN "cancelled" ELSE "failed")
    /\ \/ /\ ask.purpose # "web" /\ ~aborted /\ ~ask.retry         \* requestWithOneRetry
          /\ Goto("retry") /\ n' = [n EXCEPT !.breaks = @ + 1]
          /\ UNCHANGED <<request, aborted, toolVars, groundVars, loopVars, webVars, ask,
                         candidate, incomplete>>
       \/ /\ ask.purpose = "web" /\ ~aborted
          /\ webDone("no_validated_evidence", FALSE)
          /\ n' = [counted EXCEPT !.breaks = @ + 1]
          /\ UNCHANGED <<ask, webLease>>
       \/ /\ ask.purpose = "answer" /\ projected /\ ~aborted       \* 400 or 422
          /\ candidate' = [form |-> "valid", by |-> "calculation", basis |-> "calculation"]
          /\ incomplete' = FALSE /\ Goto("validate")
          /\ UNCHANGED <<request, n, aborted, toolVars, groundVars, loopVars, webVars, ask>>
       \/ /\ ask.purpose # "web" \/ aborted
          /\ Throw
          /\ UNCHANGED <<request, n, aborted, toolVars, groundVars, loopVars, webVars, ask,
                         candidate, incomplete>>

\* The second and last attempt.
RequestRetry ==
    /\ pc = "retry"
    /\ IF aborted
       THEN /\ Throw /\ UNCHANGED <<n, modelVars>>
       ELSE StartRequest(ask.purpose, TRUE, ask)
    /\ UNCHANGED <<request, aborted, toolVars, groundVars, loopVars, webVars, candidate,
                   incomplete>>

\* The write that settles a finished request throws, with or without effect; the
\* catch block then marks the row failed, or fails to, and the error goes on.
SettleBreaks ==
    /\ pc = "stream"
    /\ Settle("failed") \/ Settle("succeeded")
    /\ \/ /\ ask.purpose = "web" /\ ~aborted
          /\ webDone("no_validated_evidence", FALSE) /\ n' = counted
          /\ UNCHANGED <<ask, webLease>>
       \/ /\ ask.purpose # "web" \/ aborted
          /\ Throw
          /\ UNCHANGED <<request, n, aborted, toolVars, groundVars, loopVars, webVars, ask,
                         candidate, incomplete>>

\* The row of a finished request is settled as the provider says.
Settled(status) ==
    /\ pc = "stream"
    /\ invocation' = [invocation EXCEPT ![Len(invocation)] =
                        IF status = "failed" THEN "failed" ELSE "succeeded"]
    /\ UNCHANGED <<ask, unwritten, unacknowledged>>

\* discoverNative and fetchCandidates: sources that pass governance are evidence
\* and links; a failed or incomplete discovery is a failed search.
WebFinish ==
    /\ ask.purpose = "web"
    /\ \E status \in {"completed", "incomplete", "failed"}, found \in BOOLEAN :
         /\ Settled(status)
         /\ found => status = "completed"
         /\ IF status = "completed" \/ ~aborted
            THEN /\ webDone(IF found THEN "none" ELSE "no_validated_evidence", found)
                 /\ n' = counted
            ELSE /\ Throw
                 /\ UNCHANGED <<request, n, aborted, toolVars, groundVars, loopVars, webFailure,
                                candidate, incomplete>>
    /\ UNCHANGED webLease

\* The binding row of the link is written after the row of the search.
WebLinkBinding ==
    /\ pc = "web_link"
    /\ tool' = [tool EXCEPT !["web_link"] = [name |-> "web_link_binding", state |-> "recording",
                                             sequence |-> n.sequence + 1]]
    /\ n' = [n EXCEPT !.sequence = @ + 1]
    /\ Goto("server_call")
    /\ UNCHANGED <<request, aborted, late, seen, todo, round, records, groundVars, modelVars,
                   loopVars, webVars, candidate, incomplete>>

-----------------------------------------------------------------------------
(* What the model may say.                                                  *)

Unusable(form) == [form |-> form, by |-> "model", basis |-> "none"]
Deterministic(by) == [by |-> by, basis |-> by]

\* A candidate that passes validateAnswerV3 refers to registered data only, and
\* selects a link when one is asked for.
ValidCandidates ==
    {[form |-> "valid", by |-> "model", basis |-> b] :
       b \in {x \in {"none", "evidence", "currentTurn", "calculation"} :
               /\ x = "evidence" => evidence # {}
               /\ x = "currentTurn" => currentTurnEvidence # {}
               /\ x = "calculation" => calculations # {}
               /\ minimumLinkCount = 1 => x \in {"evidence", "currentTurn"}}}
\* "invalid" cites what is registered, "ungrounded" nothing or something unknown.
Candidates ==
    ValidCandidates \cup {Unusable("unparsable"), Unusable("ungrounded")}
      \cup (IF evidence \cup calculations # {} THEN {Unusable("invalid")} ELSE {})

Responses ==
    {calls \in UNION {[1..k -> [id : Calls, name : Tools]] : k \in 1..MaxCallsPerResponse} :
       \A i \in DOMAIN calls : calls[i].name \in ask.callable}

\* A text: the loop ends, unless a call was forced.
ModelText ==
    /\ ask.purpose = "answer"
    /\ \E status \in {"completed", "incomplete"} :
         /\ Settled(status)
         /\ IF ask.forced # "none"
            THEN /\ Throw /\ UNCHANGED <<candidate, incomplete>>
            ELSE /\ candidate' \in Candidates
                 /\ incomplete' = (status = "incomplete")
                 /\ Goto("validate")
    /\ UNCHANGED <<request, n, aborted, toolVars, groundVars, loopVars, webVars>>

\* status failed; a projected run answers from its calculation when the provider
\* says the request was invalid.
ModelFailed ==
    /\ ask.purpose = "answer" /\ Settled("failed")
    /\ \/ /\ projected
          /\ candidate' = [form |-> "valid", by |-> "calculation", basis |-> "calculation"]
          /\ incomplete' = FALSE /\ Goto("validate")
       \/ /\ Throw /\ UNCHANGED <<candidate, incomplete>>
    /\ UNCHANGED <<request, n, aborted, toolVars, groundVars, loopVars, webVars>>

\* A call the request did not offer.
ModelUnauthorized ==
    /\ ask.purpose = "answer" /\ ask.callable # Tools
    /\ \E status \in {"completed", "incomplete"} : Settled(status)
    /\ Throw
    /\ UNCHANGED <<request, n, aborted, toolVars, groundVars, loopVars, webVars, candidate,
                   incomplete>>

\* Calls cut off by an incomplete response are not executed.
ModelCutOff ==
    /\ ask.purpose = "answer" /\ ask.callable # {} /\ Settled("incomplete")
    /\ candidate' \in Candidates /\ incomplete' = TRUE
    /\ Goto("validate")
    /\ UNCHANGED <<request, n, aborted, toolVars, groundVars, loopVars, webVars>>

\* Calls to execute.  The arguments of a file are checked before anything runs;
\* the first bad ones are given back to the model once.
ModelCalls ==
    /\ ask.purpose = "answer" /\ Settled("completed")
    /\ \E calls \in Responses :
         LET files == {i \in DOMAIN calls : calls[i].name = "create_artifact"} IN
         \/ /\ \/ Cardinality(files) > 1
               \/ ask.forced = "estimate_pumpdown_time" /\ Len(calls) # 1
            /\ Throw
            /\ UNCHANGED <<n, recovery, attempted, round, todo>>
         \/ /\ Cardinality(files) = 1                               \* preflight refuses
            /\ \/ /\ n.artifactRepairs = 0
                  /\ n' = [n EXCEPT !.artifactRepairs = 1]
                  /\ recovery' = TRUE /\ Goto("ask")
               \/ Throw /\ UNCHANGED <<n, recovery>>
            /\ UNCHANGED <<attempted, round, todo>>
         \/ /\ Cardinality(files) <= 1
            /\ ask.forced = "estimate_pumpdown_time" => Len(calls) = 1
            /\ n' = [n EXCEPT !.rounds = @ + 1]
            /\ IF files # {} /\ attempted
               THEN /\ Throw
                    /\ UNCHANGED <<attempted, round, todo>>
               ELSE /\ attempted' = (attempted \/ files # {})
                    /\ round' = [file |-> files # {}, forced |-> ask.forced] /\ todo' = calls
                    /\ Goto("batch")
            /\ UNCHANGED recovery
    /\ UNCHANGED <<request, aborted, tool, late, seen, records, groundVars, projected,
                   webVars, candidate, incomplete>>

-----------------------------------------------------------------------------
(* executeToolCalls: batches of MAX_PARALLEL_TOOLS under Promise.all.       *)

Take == IF Len(todo) < MAX_PARALLEL_TOOLS THEN Len(todo) ELSE MAX_PARALLEL_TOOLS

\* A call id the provider used before gets a duplicate output, one past the limit
\* a limit output; neither runs nor is recorded.
New(i) == todo[i].id \notin seen /\ \A j \in 1..(i - 1) : todo[j].id # todo[i].id
WithinLimit(i) == n.calls + Cardinality({j \in 1..i : New(j)}) <= MAX_TOOL_CALLS
Runs == {i \in 1..Take : New(i) /\ WithinLimit(i)}

executeToolCalls ==
    /\ pc = "batch" /\ ~aborted
    /\ tool' = [c \in AllCalls |->
                  IF \E i \in Runs : todo[i].id = c
                  THEN [NoTool EXCEPT !.state = "running",
                                      !.name = todo[CHOOSE i \in Runs : todo[i].id = c].name]
                  ELSE tool[c]]
    /\ n' = [n EXCEPT !.calls = @ + Cardinality(Runs)]
    /\ seen' = seen \cup {todo[i].id : i \in 1..Take}
    /\ todo' = SubSeq(todo, Take + 1, Len(todo))
    /\ Goto("batch_call")
    /\ UNCHANGED <<request, aborted, late, round, records, groundVars, modelVars, loopVars,
                   webVars, candidate, incomplete>>

MutBatchSettled == \A c \in Calls : tool[c].state # "running"

BatchSettled == \A c \in Calls : tool[c].state \notin {"running", "recording"}

NextBatch ==
    /\ pc = "batch_call" /\ BatchSettled /\ todo # <<>>
    /\ Goto("batch")
    /\ UNCHANGED <<request, n, aborted, toolVars, groundVars, modelVars, loopVars, webVars,
                   candidate, incomplete>>

MutFileReady == artifact # "none"

fileReady == artifact = "ready"

trustedPumpdownEligible ==
    /\ request.risk # "high" /\ ~webRequired /\ request.resource = "none"
    /\ n.rounds = 1 /\ Cardinality(calculations) = 1

\* The outputs are in: a file ends the loop with the server's own text or with
\* the run, a forced calculation switches to the tool-free projection, anything
\* else goes back to the model.
EndRound ==
    /\ pc = "batch_call" /\ BatchSettled /\ todo = <<>>
    /\ IF round.file
       THEN /\ IF fileReady
               THEN /\ candidate' = [form |-> "valid", by |-> "artifact", basis |-> "artifact"]
                    /\ Goto("validate")
               ELSE Throw /\ UNCHANGED candidate
            /\ UNCHANGED projected
       ELSE IF round.forced = "estimate_pumpdown_time"
       THEN /\ IF trustedPumpdownEligible
               THEN projected' = TRUE /\ Goto("ask")
               ELSE Throw /\ UNCHANGED projected
            /\ UNCHANGED candidate
       ELSE Goto("ask") /\ UNCHANGED <<projected, candidate>>
    /\ UNCHANGED <<request, n, aborted, toolVars, groundVars, modelVars, attempted, recovery,
                   webVars, incomplete>>

-----------------------------------------------------------------------------
(* validateOrRepair, the projection check and the last validation.          *)

MutRequiresWebQuotaFallback(c) ==
    webFailure = "quota_exhausted" /\ webRequired /\ c.basis \notin {"calculation", "currentTurn"}

\* A text that had to rest on a search that failed is replaced.
requiresWebQuotaFallback(c) ==
    webFailure # "none" /\ webRequired /\ c.basis \notin {"calculation", "currentTurn"}

\* answerUsesOnlyProjectedCalculations, then validateAnswerCandidate: the
\* server's own answers select no link, so they fail when one is asked for.
Conclude(c) ==
    LET a == IF projected /\ c.basis # "calculation" THEN Deterministic("calculation") ELSE c
    IN IF minimumLinkCount = 1 /\ a.by \notin {"model", "artifact"}
       THEN Throw
       ELSE /\ pc' = "save" /\ answer' = [by |-> a.by, basis |-> a.basis]
            /\ UNCHANGED outcome

WithWebFallback(c) ==
    Conclude(IF requiresWebQuotaFallback(c) THEN Deterministic("web_unavailable") ELSE c)

\* One more model request, for a text that has lost its form or its references.
Repair(label) == n' = [n EXCEPT !.repairs = @ + 1] /\ Goto(label)

validateOrRepair ==
    /\ pc = "validate" /\ candidate' = NoCandidate
    /\ LET first == ask.purpose = "answer" IN
       IF first /\ request.intent = "scope" /\ request.resource # "document"
       THEN Conclude(Deterministic("scope")) /\ UNCHANGED n
       ELSE IF first /\ webFailure # "none" /\ preferCalculationAnswer
       THEN Conclude(Deterministic("calculation")) /\ UNCHANGED n
       ELSE IF candidate.form = "valid"
       THEN /\ \/ WithWebFallback(candidate)
               \/ /\ ask.purpose = "repair" /\ minimumLinkCount = 1  \* repair changed facts
                  /\ Throw
            /\ UNCHANGED n
       ELSE IF first /\ minimumLinkCount = 1 /\ candidate.form = "unparsable"
       THEN Repair("regenerate")
       ELSE IF ask.purpose = "regenerate"
       THEN Throw /\ UNCHANGED n
       ELSE IF preferCalculationAnswer
       THEN Conclude(Deterministic("calculation")) /\ UNCHANGED n
       ELSE IF request.risk = "high"
       THEN Conclude(Deterministic("safe")) /\ UNCHANGED n
       ELSE IF first /\ candidate.form = "invalid"
       THEN Repair("repair")
       ELSE /\ IF minimumLinkCount = 1 THEN Throw
               ELSE Conclude(Deterministic(IF ~first /\ webFailure # "none" /\ webRequired
                                           THEN "web_unavailable" ELSE "safe"))
            /\ UNCHANGED n
    /\ UNCHANGED <<request, aborted, toolVars, groundVars, modelVars, loopVars, webVars,
                   incomplete>>

\* The answer to a repair: a text when the response is complete, nothing otherwise.
RepairFinish ==
    /\ ask.purpose \in {"repair", "regenerate"}
    /\ \E status \in {"completed", "incomplete", "failed"} :
         /\ Settled(status)
         /\ candidate' \in IF status = "completed" THEN Candidates ELSE {Unusable("unparsable")}
    /\ Goto("validate")
    /\ UNCHANGED <<request, n, aborted, toolVars, groundVars, loopVars, webVars, incomplete>>

\* store.complete, without a look at the signal; a failed save ends the run too.
persistAndPublishFinalAnswer ==
    /\ pc = "save"
    /\ \/ /\ outcome' = IF incomplete THEN "incomplete" ELSE "completed"
          /\ pc' = "done" /\ UNCHANGED answer
       \/ Throw
    /\ UNCHANGED <<request, n, aborted, toolVars, groundVars, modelVars, loopVars, webVars,
                   candidate, incomplete>>

-----------------------------------------------------------------------------
\* The user cancels, or AbortSignal.timeout fires.
Abort ==
    /\ outcome = "running" /\ ~aborted
    /\ aborted' = TRUE
    /\ UNCHANGED <<request, pc, n, toolVars, groundVars, modelVars, loopVars, webVars,
                   candidate, incomplete, endVars>>

\* The run is over and nothing it started is still under way.
Over ==
    /\ outcome # "running" /\ \A c \in AllCalls : tool[c].state \notin {"running", "recording"}
    /\ UNCHANGED vars

Next ==
    \/ AbortSeen \/ proactiveKnowledgeSearch \/ proactiveAttachmentEvidence
    \/ WebSkip \/ WebReserve \/ WebCommit \/ WebLinkBinding \/ WebFinish
    \/ requestModel \/ webBudgetRefused \/ RequestRetry \/ ProviderError \/ SettleBreaks
    \/ ModelText \/ ModelFailed \/ ModelUnauthorized \/ ModelCutOff \/ ModelCalls
    \/ executeToolCalls \/ NextBatch \/ EndRound
    \/ \E c \in AllCalls : ToolReturns(c)
    \/ \E c \in AllCalls : ToolTimesOut(c)
    \/ \E c \in AllCalls : LateReturn(c)
    \/ \E c \in AllCalls : Recorded(c)
    \/ \E c \in AllCalls : RecordFails(c)
    \/ validateOrRepair \/ RepairFinish \/ persistAndPublishFinalAnswer
    \/ Abort \/ Over

Spec == Init /\ [][Next]_vars

-----------------------------------------------------------------------------
(* Properties.                                                              *)

Saved == outcome \in {"completed", "incomplete"}

\* Types of the variables.
TypeOK ==
    /\ request \in Request
    /\ pc \in {"knowledge", "attachment", "attachment_open", "server_call", "web", "web_commit",
              "web_discovery", "web_link", "ask", "stream", "retry", "batch", "batch_call",
              "validate", "repair", "regenerate", "save", "done"}
    /\ n \in [requests : 0..MAX_MODEL_REQUESTS, calls : Nat, rounds : Nat, repairs : Nat,
              artifactRepairs : Nat, sequence : Nat, breaks : 0..MaxBreaks]
    /\ aborted \in BOOLEAN
    /\ \A c \in AllCalls :
         /\ DOMAIN tool[c] = {"name", "state", "sequence"}
         /\ tool[c].state \in {"none", "running", "recording", "done", "unrecorded"}
         /\ tool[c].sequence \in 0..n.sequence
    /\ late \subseteq AllCalls /\ seen \subseteq Calls
    /\ evidence \subseteq AllCalls /\ links \subseteq AllCalls /\ calculations \subseteq Calls
    /\ artifact \in {"none", "ready", "failed"}
    /\ webLease \in {"none", "reserved", "committed", "released"}
    /\ webFailure \in {"none", "quota_exhausted", "no_validated_evidence"}
    /\ \A i \in DOMAIN invocation : invocation[i] \in {"running", "succeeded", "failed", "cancelled"}
    /\ unwritten \subseteq DOMAIN invocation /\ unacknowledged \subseteq DOMAIN invocation
    /\ outcome \in {"running", "completed", "incomplete", "failed"}
    /\ outcome = "running" <=> pc # "done"

\* Whatever the provider repeats and however its calls interleave, at most one
\* create_artifact is executed in a run, and an answer that presents a file is
\* saved only when that file is ready (attemptedNonRepeatableToolNames, the one
\* argument recovery, orchestrator.ts:496-512).
ArtifactOnce ==
    /\ Cardinality({c \in Calls : tool[c].name = "create_artifact"}) <= 1
    /\ answer.by = "artifact" => artifact = "ready"

\* A saved answer leaves nothing of its run open: every call that was executed has
\* its one row, rows are numbered without gap or repetition, and the counters the
\* answer is saved with count those rows.
SavedIsAccounted ==
    Saved =>
      /\ \A c \in AllCalls : tool[c].state \in {"none", "done"}
      /\ {r.call : r \in records} = {c \in AllCalls : tool[c].state = "done"}
      /\ {r.sequence : r \in records} = 1..Cardinality(records)
      /\ n.calls = Cardinality({r \in records : r.call # "web_link"})

\* A running row keeps its reserved cost for ever.  When the run is over one is left only
\* where the settling write failed or the start was lost after its commit, whatever
\* aborts, retries and broken streams came between; the request count covers all rows;
\* and an answer is saved past a lost start only if that was the web discovery, the first
\* request of a run (meteredStream and startModelInvocation).
InvocationsSettled ==
    /\ outcome # "running" =>
         \A i \in DOMAIN invocation :
           invocation[i] = "running" => i \in unwritten \cup unacknowledged
    /\ Len(invocation) <= n.requests
    /\ Saved => unacknowledged \subseteq {1}

\* A search is paid before it is made, and a saved answer leaves no unit reserved.
SearchIsPaid ==
    /\ "web" \in evidence \/ ask.purpose = "web" => webLease = "committed"
    /\ Saved => webLease # "reserved"

\* A question that requires the web is answered in the model's or the file's words
\* only with a validated source, with this turn's own material or with a
\* calculation; otherwise the user is told the search failed.
RequiredWebIsHonest ==
    Saved /\ webRequired /\ answer.by \in {"model", "artifact"} =>
      "web" \in evidence \/ answer.basis \in {"currentTurn", "calculation"}

\* docs/agent-v3-artifacts.md:66-68: a file that cannot be made is a failed tool
\* result and does "not fail an otherwise valid text answer".
ArtifactFailureKeepsAnswer ==
    /\ artifact = "failed" /\ ~aborted
    /\ \A i \in DOMAIN invocation : invocation[i] = "succeeded"
    /\ \A c \in AllCalls : tool[c].state \in {"none", "done"}
    => outcome # "failed"
=============================================================================
