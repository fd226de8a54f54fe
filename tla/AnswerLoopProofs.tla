--------------------------- MODULE AnswerLoopProofs ---------------------------
(***************************************************************************)
(* Proofs about AnswerLoop for any number of calls, requests, batches and  *)
(* rounds: one file, every call recorded before the save, no invocation    *)
(* left in progress, and the paid and honest use of the web; and about     *)
(* ModelStream, one request of that loop, for any number of events.        *)
(***************************************************************************)
EXTENDS AnswerLoop, ModelStream, FiniteSetTheorems, SequenceTheorems, WellFoundedInduction, TLAPS

Pcs == {"knowledge", "attachment", "attachment_open", "server_call", "web", "web_commit",
        "web_discovery", "web_link", "ask", "stream", "retry", "batch", "batch_call",
        "validate", "repair", "regenerate", "save", "done"}
Execution == [name : Tools \cup EvidenceTools \cup {"none", "web_search", "web_link_binding"},
              state : {"none", "running", "recording", "done", "unrecorded"}, sequence : Nat]
Call == [id : Calls, name : Tools]
ModelRequest == [purpose : {"none", "answer", "web", "repair", "regenerate"}, retry : BOOLEAN,
                 callable : SUBSET Tools,
                 forced : {"none", "create_artifact", "estimate_pumpdown_time"}]
Statuses == {"running", "succeeded", "failed", "cancelled"}
Busy == {"running", "recording"}

Counters == [requests : Nat, calls : Nat, rounds : Nat, repairs : Nat, artifactRepairs : Nat,
             sequence : Nat, breaks : Nat]

\* TypeOK with the shape of the records spelled out.
RunTypes ==
    /\ request \in Request /\ aborted \in BOOLEAN
    /\ pc \in Pcs /\ outcome \in {"running", "completed", "incomplete", "failed"}
    /\ outcome = "running" <=> pc # "done"
CountTypes == n \in Counters /\ n.requests <= MAX_MODEL_REQUESTS /\ n.breaks <= MaxBreaks
CallTypes ==
    /\ tool \in [AllCalls -> Execution]
    /\ late \subseteq AllCalls \ {"web", "web_link"} /\ seen \subseteq Calls
    /\ todo \in Seq(Call)
GroundTypes ==
    /\ evidence \subseteq AllCalls /\ links \subseteq AllCalls /\ calculations \subseteq Calls
    /\ artifact \in {"none", "ready", "failed"}
WebTypes ==
    /\ webLease \in {"none", "reserved", "committed", "released"}
    /\ webFailure \in {"none", "quota_exhausted", "no_validated_evidence"}
ModelTypes ==
    /\ ask \in ModelRequest
    /\ invocation \in Seq(Statuses)
    /\ unwritten \subseteq DOMAIN invocation /\ unacknowledged \subseteq DOMAIN invocation
Types == RunTypes /\ CountTypes /\ CallTypes /\ GroundTypes /\ WebTypes /\ ModelTypes

\* The run waits for what is under way: one call of its own, or a batch.  Only a
\* run that has failed leaves calls behind.
WaitPart ==
    /\ outcome # "failed" => \A c \in AllCalls : tool[c].state # "unrecorded"
    /\ outcome # "failed" /\ pc \notin {"server_call", "batch_call"} =>
          \A c \in AllCalls : tool[c].state \notin Busy
    /\ pc = "server_call" => \A c \in Calls : tool[c].state \notin Busy
    /\ pc = "server_call" =>
          \A c, d \in ServerCalls : tool[c].state \in Busy /\ tool[d].state \in Busy => c = d
    /\ pc = "batch_call" => \A c \in ServerCalls : tool[c].state \notin Busy
    /\ \A c \in {"web", "web_link"} : tool[c].state # "running"
    /\ \A c \in ServerCalls : tool[c].name \notin {"estimate_pumpdown_time", "create_artifact"}
    /\ \A c \in Calls : tool[c].state # "none" => c \in seen

\* The server's calls come in a fixed order, each once.
Serving(c) == pc = "server_call" /\ tool[c].state \in Busy
BeforeWeb ==
    \/ pc \in {"knowledge", "attachment", "attachment_open", "web", "web_commit"}
    \/ Serving("knowledge") \/ Serving("attachment_search") \/ Serving("attachment_open")
Searching == pc = "web_discovery" \/ (pc = "stream" /\ ask.purpose = "web")
OrderPart ==
    /\ pc = "knowledge" => tool["knowledge"].state = "none"
    /\ pc \in {"knowledge", "attachment"} \/ Serving("knowledge")
          => tool["attachment_search"].state = "none"
    /\ pc \in {"knowledge", "attachment", "attachment_open"} \/ Serving("knowledge")
          \/ Serving("attachment_search") => tool["attachment_open"].state = "none"
    /\ BeforeWeb \/ Searching => tool["web"].state = "none"
    /\ BeforeWeb \/ Searching \/ pc = "web_link" \/ Serving("web") => tool["web_link"].state = "none"
    /\ BeforeWeb \/ Searching => seen = {}
    /\ BeforeWeb \/ pc = "web_discovery" => n.requests = 0
    /\ pc = "retry" => ask.purpose # "web"

\* Rows are numbered without gap, and the answer is saved with their count.
Numbered == {c \in AllCalls : tool[c].state \in {"recording", "done"}}
Counted ==
    {c \in AllCalls : \/ c \in Calls /\ tool[c].state # "none"
                      \/ c \in ServerCalls \ {"web_link"} /\ tool[c].state \in {"recording", "done"}}
Accounted ==
    /\ \A c \in Numbered : tool[c].sequence \in 1..n.sequence
    /\ \A c, d \in Numbered : tool[c].sequence = tool[d].sequence => c = d
    /\ \A i \in 1..n.sequence : \E c \in Numbered : tool[c].sequence = i
    /\ records = {[call |-> c, sequence |-> tool[c].sequence] :
                     c \in {d \in AllCalls : tool[d].state = "done"}}
    /\ IsFiniteSet(Counted) /\ n.calls = Cardinality(Counted)
AccountPart == outcome # "failed" => Accounted
SequencePart == \A c \in AllCalls : tool[c].sequence <= n.sequence

\* A file is made by one call, which either waits for its batch or was started.
Making(c) == tool[c].name = "create_artifact"
Waiting(i) == todo[i].name = "create_artifact"
FilePart ==
    /\ \A c, d \in Calls : Making(c) /\ Making(d) => c = d
    /\ \A i, j \in DOMAIN todo : Waiting(i) /\ Waiting(j) => i = j
    /\ \A i \in DOMAIN todo, c \in Calls : ~(Waiting(i) /\ Making(c))
    /\ ~attempted => /\ \A c \in Calls : ~Making(c)
                     /\ \A i \in DOMAIN todo : ~Waiting(i)

\* The server's text about a file comes from a file that is ready.
AnswerPart ==
    /\ pc = "validate" /\ candidate.by = "artifact" => artifact = "ready"
    /\ answer.by = "artifact" => artifact = "ready"
    /\ pc \notin {"save", "done"} \/ outcome = "failed" => answer = NoAnswer

\* The row of the request under way is the last.
InvocationPart ==
    /\ \A i \in DOMAIN invocation : invocation[i] = "running" =>
          i \in unwritten \cup unacknowledged \/ (pc = "stream" /\ i = Len(invocation))
    /\ pc = "stream" => Len(invocation) > 0

\* Every row was counted first, so the discovery, which has counted none, gets the first row.
StartPart ==
    /\ Len(invocation) <= n.requests
    /\ outcome # "failed" => unacknowledged \subseteq {1}

\* The lease of the search, and what a required search has come to.
WebPart ==
    /\ BeforeWeb => ask.purpose = "none" /\ (pc # "web_commit" => webLease = "none")
    /\ BeforeWeb \/ Searching => "web" \notin evidence
    /\ Searching => webLease = "committed"
    /\ "web" \in evidence \/ ask.purpose = "web" => webLease = "committed"
    /\ webLease = "reserved" => pc = "web_commit" \/ outcome = "failed"
    /\ webRequired /\ outcome # "failed" => BeforeWeb \/ Searching \/ webFailure # "none" \/ "web" \in evidence
    /\ webRequired /\ answer.by \in {"model", "artifact"} =>
          "web" \in evidence \/ answer.basis \in {"currentTurn", "calculation"}

IInv ==
    /\ Types /\ WaitPart /\ OrderPart /\ AccountPart /\ InvocationPart /\ StartPart
    /\ FilePart /\ SequencePart /\ AnswerPart /\ WebPart
-----------------------------------------------------------------------------
USE DEF toolVars, groundVars, modelVars, loopVars, webVars, endVars, Goto, Throw

LEMMA CallsAre ==
    /\ AllCalls = Calls \cup ServerCalls /\ Calls \cap ServerCalls = {}
    /\ {"knowledge", "attachment_search", "attachment_open", "web", "web_link"} = ServerCalls
BY LimitsAssumption DEF AllCalls, ServerCalls

\* What a request offers and forces.
LEMMA PolicyIs ==
    \A purpose \in {"answer", "web", "repair", "regenerate"} : Asking(purpose) \in ModelRequest
<1> SUFFICES ASSUME NEW purpose \in {"answer", "web", "repair", "regenerate"} PROVE Asking(purpose) \in ModelRequest
  OBVIOUS
<1>1. Definitions \subseteq Tools
  BY DEF Definitions, Tools
<1>2. Policy(purpose).callable \subseteq Tools /\ Policy(purpose).forced \in {"none", "create_artifact", "estimate_pumpdown_time"}
  BY <1>1 DEF Policy, Tools
<1> QED
  BY <1>2 DEF Asking, ModelRequest
-----------------------------------------------------------------------------
(* What a step does to the calls: the run goes on while none is under way, *)
(* a call of the server's starts, or one it made itself is to be recorded. *)

Quiet == \A c \in AllCalls : tool[c].state \notin Busy
Advance ==
    /\ outcome = "running" /\ Quiet /\ pc' \notin {"server_call", "batch_call"}
    /\ UNCHANGED <<tool, late, seen, records>>
    /\ n'.calls = n.calls /\ n'.sequence = n.sequence
Starts(c) ==
    /\ outcome = "running" /\ Quiet /\ c \in {"knowledge", "attachment_search", "attachment_open"}
    /\ tool[c].state = "none" /\ tool' = Executing(c, ServerToolName(c))
    /\ pc' = "server_call" /\ UNCHANGED <<outcome, late, seen, records, n, todo>>
Answers(c) ==
    /\ outcome = "running" /\ Quiet /\ c \in {"web", "web_link"} /\ tool[c].state = "none"
    /\ tool' = [tool EXCEPT ![c] = [name |-> IF c = "web" THEN "web_search" ELSE "web_link_binding",
                                     state |-> "recording", sequence |-> n.sequence + 1]]
    /\ pc' = "server_call" /\ UNCHANGED <<outcome, late, seen, records, todo>>
    /\ n'.sequence = n.sequence + 1 /\ n'.calls = n.calls + IF c = "web" THEN 1 ELSE 0
Same == UNCHANGED <<pc, outcome, n, toolVars>>

LEMMA WebAnswers ==
    ASSUME NEW failure, NEW found, webDone(failure, found), n'.calls = counted.calls, n'.sequence = counted.sequence,
           CountTypes, outcome = "running", Quiet, tool["web"].state = "none"
    PROVE  Answers("web")
BY DEF webDone, counted, Answers, CountTypes, Counters

LEMMA Settling ==
    ASSUME ModelTypes, InvocationPart, pc = "stream", NEW status,
           \/ Settle(status) /\ status \in Statuses
           \/ Settled(status)
    PROVE  /\ invocation' \in Seq(Statuses) /\ Len(invocation') = Len(invocation)
           /\ unwritten' \subseteq DOMAIN invocation' /\ unacknowledged' \subseteq DOMAIN invocation'
           /\ unacknowledged' = unacknowledged
BY DEF ModelTypes, InvocationPart, Settle, Settled, Statuses

LEMMA Kinds ==
    ASSUME Types, WaitPart, OrderPart, [Next]_vars
    PROVE  \/ Advance \/ Same \/ (\E c \in AllCalls : Starts(c) \/ Answers(c))
           \/ executeToolCalls \/ NextBatch \/ EndRound
           \/ \E c \in AllCalls : ToolReturns(c) \/ ToolTimesOut(c) \/ LateReturn(c) \/ Recorded(c) \/ RecordFails(c)
<1> DEFINE Kind == \/ Advance \/ Same \/ (\E c \in AllCalls : Starts(c) \/ Answers(c))
                   \/ executeToolCalls \/ NextBatch \/ EndRound
<1> USE DEF Types, RunTypes
<1>0. pc \notin {"server_call", "batch_call", "done"} => outcome = "running" /\ Quiet
  BY DEF WaitPart, Quiet
<1>1. CASE AbortSeen
  BY <1>0, <1>1 DEF AbortSeen, Advance
<1>2. CASE proactiveKnowledgeSearch
  BY <1>0, <1>2, CallsAre DEF proactiveKnowledgeSearch, StartServerCall, Starts, OrderPart
<1>3. CASE proactiveAttachmentEvidence
  BY <1>0, <1>3, CallsAre DEF proactiveAttachmentEvidence, StartServerCall, Starts, OrderPart, Advance
<1>4. CASE WebSkip \/ WebCommit
  BY <1>0, <1>4 DEF WebSkip, WebCommit, Advance
<1>5. CASE WebReserve
  <2>1. tool["web"].state = "none"
    BY <1>5 DEF WebReserve, OrderPart, BeforeWeb
  <2>2. CASE webDone("quota_exhausted", FALSE) /\ n' = counted
    BY <1>0, <1>5, <2>1, <2>2, WebAnswers, CallsAre DEF WebReserve
  <2> QED
    BY <1>0, <1>5, <2>2 DEF WebReserve, Advance
<1>6. CASE WebLinkBinding
  <2>1. PICK c : c = "web_link"
    OBVIOUS
  <2>2. c \in AllCalls /\ c \in {"web", "web_link"} /\ c # "web" /\ tool[c].state = "none" /\ outcome = "running" /\ Quiet
    BY <1>0, <1>6, <2>1, CallsAre DEF WebLinkBinding, OrderPart
  <2>3. tool' = [tool EXCEPT ![c] = [name |-> IF c = "web" THEN "web_search" ELSE "web_link_binding",
                                     state |-> "recording", sequence |-> n.sequence + 1]]
    BY <1>6, <2>1, <2>2 DEF WebLinkBinding
  <2>4. n'.sequence = n.sequence + 1 /\ n'.calls = n.calls + IF c = "web" THEN 1 ELSE 0
    BY <1>6, <2>2 DEF WebLinkBinding, CountTypes, Counters
  <2>5. pc' = "server_call" /\ UNCHANGED <<outcome, late, seen, records, todo>>
    BY <1>6 DEF WebLinkBinding
  <2> QED
    BY <2>2, <2>3, <2>4, <2>5 DEF Answers
<1>7. CASE WebFinish
  <2>1. pc = "stream" /\ tool["web"].state = "none"
    BY <1>7 DEF WebFinish, Settled, OrderPart, Searching
  <2>2. ASSUME NEW failure, NEW found, webDone(failure, found), n' = counted PROVE Kind
    BY <1>0, <2>1, <2>2, WebAnswers, CallsAre
  <2> QED
    BY <1>0, <1>7, <2>1, <2>2 DEF WebFinish, Advance
<1>8. CASE webBudgetRefused
  <2>1. tool["web"].state = "none"
    BY <1>8 DEF webBudgetRefused, OrderPart, Searching
  <2>2. n'.calls = counted.calls /\ n'.sequence = counted.sequence
    BY <1>8 DEF webBudgetRefused, counted, CountTypes, Counters
  <2> QED
    BY <1>0, <1>8, <2>1, <2>2, WebAnswers, CallsAre DEF webBudgetRefused
<1>9. CASE requestModel \/ RequestRetry
  BY <1>0, <1>9 DEF requestModel, RequestRetry, StartRequest, Advance, CountTypes, Counters
<1>10. CASE ProviderError
  <2>1. pc = "stream" /\ (ask.purpose = "web" => tool["web"].state = "none")
    BY <1>10 DEF ProviderError, OrderPart, Searching
  <2>2. CASE ask.purpose = "web" /\ webDone("no_validated_evidence", FALSE) /\ n' = [counted EXCEPT !.breaks = @ + 1]
    <3>1. n'.calls = counted.calls /\ n'.sequence = counted.sequence
      BY <2>2 DEF counted, CountTypes, Counters
    <3> QED
      BY <1>0, <2>1, <2>2, <3>1, WebAnswers, CallsAre
  <2> QED
    BY <1>0, <1>10, <2>1, <2>2 DEF ProviderError, Advance, CountTypes, Counters
<1>11. CASE SettleBreaks
  <2>1. pc = "stream" /\ (ask.purpose = "web" => tool["web"].state = "none")
    BY <1>11 DEF SettleBreaks, OrderPart, Searching
  <2>2. CASE ask.purpose = "web" /\ webDone("no_validated_evidence", FALSE) /\ n' = counted
    BY <1>0, <2>1, <2>2, WebAnswers, CallsAre
  <2> QED
    BY <1>0, <1>11, <2>1, <2>2 DEF SettleBreaks, Advance
<1>12. CASE ModelText \/ ModelFailed \/ ModelUnauthorized \/ ModelCutOff \/ RepairFinish
  BY <1>0, <1>12 DEF ModelText, ModelFailed, ModelUnauthorized, ModelCutOff, RepairFinish, Settled, Advance
<1>13. CASE ModelCalls
  BY <1>0, <1>13 DEF ModelCalls, Settled, Advance, CountTypes, Counters
<1>14. CASE validateOrRepair
  BY <1>0, <1>14 DEF validateOrRepair, Conclude, WithWebFallback, Repair, Advance, CountTypes, Counters
<1>15. CASE persistAndPublishFinalAnswer
  BY <1>0, <1>15 DEF persistAndPublishFinalAnswer, Advance
<1>16. CASE Abort \/ Over \/ UNCHANGED vars
  BY <1>16 DEF Abort, Over, Same, vars
<1> QED
  BY <1>1, <1>2, <1>3, <1>4, <1>5, <1>6, <1>7, <1>8, <1>9, <1>10, <1>11, <1>12, <1>13, <1>14, <1>15, <1>16 DEF Next
-----------------------------------------------------------------------------
(* Types.                                                                   *)

LEMMA RunTypesStep == Types /\ [Next]_vars => RunTypes'
<1> SUFFICES ASSUME RunTypes, [Next]_vars PROVE RunTypes'
  BY DEF Types
<1> USE DEF RunTypes, Pcs
<1>1. CASE AbortSeen \/ proactiveKnowledgeSearch \/ proactiveAttachmentEvidence \/ WebSkip \/ WebCommit \/ WebLinkBinding
  BY <1>1 DEF AbortSeen, proactiveKnowledgeSearch, proactiveAttachmentEvidence, StartServerCall, WebSkip, WebCommit, WebLinkBinding
<1>2. CASE WebReserve \/ WebFinish \/ webBudgetRefused \/ SettleBreaks
  BY <1>2 DEF WebReserve, WebFinish, webBudgetRefused, SettleBreaks, webDone, Settled
<1>3. CASE requestModel \/ RequestRetry \/ ProviderError
  BY <1>3 DEF requestModel, RequestRetry, StartRequest, ProviderError, webDone
<1>4. CASE ModelText \/ ModelFailed \/ ModelUnauthorized \/ ModelCutOff \/ ModelCalls \/ RepairFinish
  BY <1>4 DEF ModelText, ModelFailed, ModelUnauthorized, ModelCutOff, ModelCalls, RepairFinish, Settled
<1>5. CASE executeToolCalls \/ NextBatch \/ EndRound \/ persistAndPublishFinalAnswer \/ Abort
  BY <1>5 DEF executeToolCalls, NextBatch, EndRound, persistAndPublishFinalAnswer, Abort
<1>6. CASE validateOrRepair
  BY <1>6 DEF validateOrRepair, Conclude, WithWebFallback, Repair
<1>7. CASE \E c \in AllCalls : ToolReturns(c) \/ ToolTimesOut(c) \/ LateReturn(c) \/ RecordFails(c)
  BY <1>7 DEF ToolReturns, ToolTimesOut, LateReturn, RecordFails
<1>8. CASE \E c \in AllCalls : Recorded(c)
  BY <1>8 DEF Recorded, AfterServerCall
<1>9. CASE Over \/ UNCHANGED vars
  BY <1>9 DEF Over, vars
<1> QED
  BY <1>1, <1>2, <1>3, <1>4, <1>5, <1>6, <1>7, <1>8, <1>9 DEF Next

\* The calls of a response are what the round has to take.
LEMMA TodoStep ==
    ASSUME Types, InvocationPart, [Next]_vars
    PROVE  \/ todo' \in Seq(Call) /\ ModelCalls
           \/ todo' = SubSeq(todo, Take + 1, Len(todo)) /\ executeToolCalls
           \/ todo' = todo
<1>1. CASE AbortSeen \/ proactiveKnowledgeSearch \/ proactiveAttachmentEvidence \/ WebSkip \/ WebCommit \/ WebLinkBinding
  BY <1>1 DEF AbortSeen, proactiveKnowledgeSearch, proactiveAttachmentEvidence, StartServerCall, WebSkip, WebCommit, WebLinkBinding
<1>2. CASE WebReserve \/ WebFinish \/ webBudgetRefused \/ SettleBreaks
  BY <1>2 DEF WebReserve, WebFinish, webBudgetRefused, SettleBreaks, webDone
<1>3. CASE requestModel \/ RequestRetry \/ ProviderError
  BY <1>3 DEF requestModel, RequestRetry, ProviderError, webDone
<1>4. CASE ModelText \/ ModelFailed \/ ModelUnauthorized \/ ModelCutOff \/ RepairFinish
  BY <1>4 DEF ModelText, ModelFailed, ModelUnauthorized, ModelCutOff, RepairFinish
<1>5. CASE NextBatch \/ EndRound \/ persistAndPublishFinalAnswer \/ Abort \/ validateOrRepair
  BY <1>5 DEF NextBatch, EndRound, persistAndPublishFinalAnswer, Abort, validateOrRepair
<1>6. CASE executeToolCalls
  BY <1>6 DEF executeToolCalls
<1>7. CASE ModelCalls
  <2>1. ASSUME NEW called \in Responses PROVE called \in Seq(Call)
    <3>1. PICK k \in 1..MaxCallsPerResponse : called \in [1..k -> [id : Calls, name : Tools]]
      BY DEF Responses
    <3>2. k \in Nat
      BY LimitsAssumption
    <3>3. PICK S : S = Call
      OBVIOUS
    <3>4. called \in [1..k -> S]
      BY <3>1, <3>3 DEF Call
    <3> QED
      BY <3>2, <3>3, <3>4, SeqDef
  <2> QED
    BY <1>7, <2>1 DEF ModelCalls, Types, CallTypes
<1>8. CASE \E c \in AllCalls : ToolReturns(c) \/ ToolTimesOut(c) \/ LateReturn(c) \/ Recorded(c) \/ RecordFails(c)
  BY <1>8 DEF ToolReturns, ToolTimesOut, LateReturn, Recorded, RecordFails
<1>9. CASE Over \/ UNCHANGED vars
  BY <1>9 DEF Over, vars
<1> QED
  BY <1>1, <1>2, <1>3, <1>4, <1>5, <1>6, <1>7, <1>8, <1>9 DEF Next

\* What a batch starts: each of its calls once, under an id that is new.
LEMMA BatchIs ==
    ASSUME Types, executeToolCalls
    PROVE  /\ Take \in 0..Len(todo) /\ Runs \subseteq 1..Take /\ Runs \subseteq DOMAIN todo
           /\ \A i \in Runs : /\ todo[i] \in Call /\ todo[i].id \notin seen
                              /\ tool'[todo[i].id] = [name |-> todo[i].name, state |-> "running", sequence |-> 0]
           /\ \A i, j \in Runs : todo[i].id = todo[j].id => i = j
           /\ \A c \in AllCalls : (\A i \in Runs : todo[i].id # c) => tool'[c] = tool[c]
           /\ DOMAIN tool' = AllCalls
           /\ todo' = SubSeq(todo, Take + 1, Len(todo)) /\ todo' \in Seq(Call)
           /\ seen' = seen \cup {todo[i].id : i \in 1..Take} /\ 1..Take \subseteq DOMAIN todo
           /\ n'.calls = n.calls + Cardinality(Runs) /\ n'.sequence = n.sequence
<1>1. todo \in Seq(Call) /\ Len(todo) \in Nat /\ DOMAIN todo = 1..Len(todo)
  BY DEF Types, CallTypes
<1>2. Take \in 0..Len(todo)
  BY <1>1, LimitsAssumption DEF Take
<1>3. Runs \subseteq 1..Take /\ Runs \subseteq DOMAIN todo /\ 1..Take \subseteq DOMAIN todo
  BY <1>1, <1>2 DEF Runs
<1>4. \A i \in DOMAIN todo : todo[i] \in Call
  BY <1>1
<1>5. \A i, j \in Runs : todo[i].id = todo[j].id => i = j
  <2> SUFFICES ASSUME NEW i \in Runs, NEW j \in Runs, todo[i].id = todo[j].id, i < j PROVE FALSE
    BY <1>3
  <2>1. New(j) /\ i \in 1..(j - 1)
    BY <1>2 DEF Runs
  <2> QED
    BY <2>1 DEF New
<1>6. tool' = [c \in AllCalls |->
                  IF \E i \in Runs : todo[i].id = c
                  THEN [NoTool EXCEPT !.state = "running",
                                      !.name = todo[CHOOSE i \in Runs : todo[i].id = c].name]
                  ELSE tool[c]]
  BY DEF executeToolCalls
<1>7. ASSUME NEW i \in Runs
      PROVE  /\ todo[i] \in Call /\ todo[i].id \notin seen
             /\ tool'[todo[i].id] = [name |-> todo[i].name, state |-> "running", sequence |-> 0]
  <2>1. todo[i] \in Call /\ todo[i].id \in AllCalls /\ New(i)
    BY <1>3, <1>4 DEF Call, AllCalls, Runs
  <2>2. (CHOOSE j \in Runs : todo[j].id = todo[i].id) = i
    BY <1>5
  <2>3. tool'[todo[i].id] = [NoTool EXCEPT !.state = "running", !.name = todo[i].name]
    BY <1>6, <2>1, <2>2
  <2> QED
    BY <2>1, <2>3 DEF NoTool, New
<1>8. \A c \in AllCalls : (\A i \in Runs : todo[i].id # c) => tool'[c] = tool[c]
  BY <1>6
<1>9. todo' = SubSeq(todo, Take + 1, Len(todo)) /\ todo' \in Seq(Call)
  <2>1. todo' = SubSeq(todo, Take + 1, Len(todo))
    BY DEF executeToolCalls
  <2>2. Take + 1 \in Nat /\ Take + 1 >= 1 /\ \A i \in (Take + 1)..Len(todo) : i \in 1..Len(todo)
    BY <1>1, <1>2
  <2>3. SubSeq(todo, Take + 1, Len(todo)) = [i \in 1..(Len(todo) - Take) |-> todo[i + Take]]
    BY <1>1, <1>2, <2>2
  <2> QED
    BY <1>1, <1>2, <1>4, <2>1, <2>3
<1>10. n'.calls = n.calls + Cardinality(Runs) /\ n'.sequence = n.sequence
  BY DEF executeToolCalls, Types, CountTypes, Counters
<1>11. DOMAIN tool' = AllCalls
  BY <1>6
<1>12. seen' = seen \cup {todo[i].id : i \in 1..Take}
  BY DEF executeToolCalls
<1> QED
  BY <1>2, <1>3, <1>5, <1>7, <1>8, <1>9, <1>10, <1>11, <1>12

\* Each counter is counted by itself.
LEMMA CountersAre ==
    ASSUME NEW x \in Counters, NEW y, NEW k \in Nat
    PROVE  /\ y = [x EXCEPT !.requests = k] => y \in Counters /\ y.requests = k /\ y.breaks = x.breaks
           /\ y = [x EXCEPT !.breaks = k] => y \in Counters /\ y.breaks = k /\ y.requests = x.requests
           /\ \/ y = [x EXCEPT !.calls = k] \/ y = [x EXCEPT !.rounds = k] \/ y = [x EXCEPT !.repairs = k]
              \/ y = [x EXCEPT !.artifactRepairs = k]
              => y \in Counters /\ y.requests = x.requests /\ y.breaks = x.breaks
<1>1. y = [x EXCEPT !.requests = k] => y \in Counters /\ y.requests = k /\ y.breaks = x.breaks
  BY DEF Counters
<1>2. y = [x EXCEPT !.breaks = k] => y \in Counters /\ y.breaks = k /\ y.requests = x.requests
  BY DEF Counters
<1>3. y = [x EXCEPT !.calls = k] => y \in Counters /\ y.requests = x.requests /\ y.breaks = x.breaks
  BY DEF Counters
<1>4. y = [x EXCEPT !.rounds = k] => y \in Counters /\ y.requests = x.requests /\ y.breaks = x.breaks
  BY DEF Counters
<1>5. y = [x EXCEPT !.repairs = k] => y \in Counters /\ y.requests = x.requests /\ y.breaks = x.breaks
  BY DEF Counters
<1>6. y = [x EXCEPT !.artifactRepairs = k] => y \in Counters /\ y.requests = x.requests /\ y.breaks = x.breaks
  BY DEF Counters
<1> QED
  BY <1>1, <1>2, <1>3, <1>4, <1>5, <1>6

LEMMA CountedIs ==
    ASSUME CountTypes
    PROVE  /\ counted \in Counters /\ counted.requests = n.requests /\ counted.breaks = n.breaks
           /\ counted.calls = n.calls + 1 /\ counted.sequence = n.sequence + 1
<1>1. PICK c, s : c = n.calls + 1 /\ s = n.sequence + 1
  OBVIOUS
<1>2. c \in Nat /\ s \in Nat /\ n \in Counters
  BY <1>1 DEF CountTypes, Counters
<1>3. counted = [n EXCEPT !.calls = c, !.sequence = s]
  BY <1>1 DEF counted
<1> QED
  BY <1>1, <1>2, <1>3 DEF Counters

LEMMA CountTypesStep == Types /\ OrderPart /\ [Next]_vars => CountTypes'
<1> SUFFICES ASSUME Types, OrderPart, [Next]_vars PROVE CountTypes'
  OBVIOUS
<1>0. /\ n \in Counters /\ n.requests \in Nat /\ n.breaks \in Nat /\ n.rounds \in Nat /\ n.repairs \in Nat
      /\ n.requests <= MAX_MODEL_REQUESTS /\ n.breaks <= MaxBreaks
  BY DEF Types, CountTypes, Counters
<1> SUFFICES n' = n \/ (n' \in Counters /\ n'.requests <= MAX_MODEL_REQUESTS /\ n'.breaks <= MaxBreaks)
  BY <1>0 DEF CountTypes
<1> USE LimitsAssumption
<1>1. CASE AbortSeen \/ proactiveKnowledgeSearch \/ proactiveAttachmentEvidence \/ WebSkip \/ WebCommit
  BY <1>1 DEF AbortSeen, proactiveKnowledgeSearch, proactiveAttachmentEvidence, StartServerCall, WebSkip, WebCommit
<1>2. CASE WebLinkBinding
  BY <1>0, <1>2 DEF WebLinkBinding, Counters
<1>3. CASE WebReserve \/ WebFinish \/ SettleBreaks
  <2>1. n' \in {n, counted}
    BY <1>3 DEF WebReserve, WebFinish, SettleBreaks
  <2> QED
    BY <1>0, <2>1, CountedIs DEF Types
<1>4. CASE webBudgetRefused
  <2>1. n' = [counted EXCEPT !.requests = n.requests + 1] /\ n.requests = 0
    BY <1>4, CountedIs DEF webBudgetRefused, OrderPart, Types
  <2>2. n' \in Counters /\ n'.requests = 1 /\ n'.breaks = n.breaks
    <3>1. PICK x, k : x = counted /\ k = n.requests + 1
      OBVIOUS
    <3>2. x \in Counters /\ k \in Nat /\ k = 1 /\ x.breaks = n.breaks /\ n' = [x EXCEPT !.requests = k]
      BY <1>0, <2>1, <3>1, CountedIs DEF Types
    <3> QED
      BY <3>2, CountersAre
  <2> QED
    BY <1>0, <2>2
<1>5. CASE requestModel \/ RequestRetry
  <2>1. n' = n \/ (n.requests < MAX_MODEL_REQUESTS /\ n' = [n EXCEPT !.requests = n.requests + 1])
    BY <1>5 DEF requestModel, RequestRetry, StartRequest
  <2>2. CASE n.requests < MAX_MODEL_REQUESTS /\ n' = [n EXCEPT !.requests = n.requests + 1]
    <3>1. n' \in Counters /\ n'.requests = n.requests + 1 /\ n'.breaks = n.breaks
      <4>1. PICK k : k = n.requests + 1
        OBVIOUS
      <4>2. k \in Nat /\ n' = [n EXCEPT !.requests = k]
        BY <1>0, <2>2, <4>1
      <4> QED
        BY <1>0, <4>1, <4>2, CountersAre
    <3> QED
      BY <1>0, <2>2, <3>1
  <2> QED
    BY <2>1, <2>2
<1>6. CASE ProviderError
  <2>1. \/ n' = n
        \/ n.breaks < MaxBreaks /\ \E x \in {n, counted} : n' = [x EXCEPT !.breaks = n.breaks + 1]
    <3>1. counted.breaks = n.breaks
      BY CountedIs DEF Types
    <3> QED
      BY <1>6, <3>1 DEF ProviderError
  <2>2. ASSUME NEW x \in {n, counted}, n.breaks < MaxBreaks, n' = [x EXCEPT !.breaks = n.breaks + 1]
        PROVE  n' \in Counters /\ n'.requests <= MAX_MODEL_REQUESTS /\ n'.breaks <= MaxBreaks
    <3>1. n' \in Counters /\ n'.requests = n.requests /\ n'.breaks = n.breaks + 1
      <4>1. PICK k : k = n.breaks + 1
        OBVIOUS
      <4>2. x \in Counters /\ x.requests = n.requests /\ k \in Nat /\ n' = [x EXCEPT !.breaks = k]
        BY <1>0, <2>2, <4>1, CountedIs DEF Types
      <4> QED
        BY <4>1, <4>2, CountersAre
    <3> QED
      BY <1>0, <2>2, <3>1
  <2> QED
    BY <2>1, <2>2
<1>7. CASE ModelText \/ ModelFailed \/ ModelUnauthorized \/ ModelCutOff \/ RepairFinish
  BY <1>7 DEF ModelText, ModelFailed, ModelUnauthorized, ModelCutOff, RepairFinish
<1>8. CASE ModelCalls
  <2>1. n' \in {n, [n EXCEPT !.artifactRepairs = 1], [n EXCEPT !.rounds = n.rounds + 1]}
    BY <1>8 DEF ModelCalls
  <2>2. PICK k, m : k = 1 /\ m = n.rounds + 1
    OBVIOUS
  <2>3. k \in Nat /\ m \in Nat /\ n' \in {n, [n EXCEPT !.artifactRepairs = k], [n EXCEPT !.rounds = m]}
    BY <1>0, <2>1, <2>2
  <2> QED
    BY <1>0, <2>3, CountersAre
<1>9. CASE NextBatch \/ EndRound \/ persistAndPublishFinalAnswer \/ Abort
  BY <1>9 DEF NextBatch, EndRound, persistAndPublishFinalAnswer, Abort
<1>10. CASE executeToolCalls
  <2>1. IsFiniteSet(Runs)
    <3>1. Runs \subseteq 1..Take /\ Take \in Int
      BY <1>10, BatchIs
    <3>2. IsFiniteSet(1..Take)
      BY <3>1, FS_Interval
    <3> QED
      BY <3>1, <3>2, FS_Subset
  <2>2. Cardinality(Runs) \in Nat
    BY <2>1, FS_CardinalityType
  <2>3. PICK k : k = n.calls + Cardinality(Runs)
    OBVIOUS
  <2>4. n' = [n EXCEPT !.calls = k]
    BY <1>10, <2>3 DEF executeToolCalls
  <2>5. k \in Nat
    BY <1>0, <2>2, <2>3 DEF Counters
  <2> QED
    BY <1>0, <2>4, <2>5, CountersAre
<1>11. CASE validateOrRepair
  <2>1. n' \in {n, [n EXCEPT !.repairs = n.repairs + 1]}
    BY <1>11 DEF validateOrRepair, Conclude, WithWebFallback, Repair
  <2>2. PICK k : k = n.repairs + 1
    OBVIOUS
  <2>3. k \in Nat /\ n' \in {n, [n EXCEPT !.repairs = k]}
    BY <1>0, <2>1, <2>2
  <2> QED
    BY <1>0, <2>3, CountersAre
<1>12. ASSUME NEW c \in AllCalls, Recording(c) PROVE n' \in Counters /\ n'.requests = n.requests /\ n'.breaks = n.breaks
  <2>1. PICK k, m : k = n.sequence + 1 /\ m = n.calls + IF c \in ServerCalls \ {"web_link"} THEN 1 ELSE 0
    OBVIOUS
  <2>2. k \in Nat /\ m \in Nat
    BY <1>0, <2>1 DEF Counters
  <2>3. n' = [n EXCEPT !.sequence = k, !.calls = m]
    BY <1>12, <2>1 DEF Recording
  <2> QED
    BY <1>0, <2>2, <2>3 DEF Counters
<1>13. CASE \E c \in AllCalls : ToolReturns(c) \/ ToolTimesOut(c)
  BY <1>0, <1>12, <1>13 DEF ToolReturns, ToolTimesOut
<1>14. CASE \E c \in AllCalls : LateReturn(c) \/ Recorded(c) \/ RecordFails(c)
  BY <1>14 DEF LateReturn, Recorded, RecordFails
<1>15. CASE Over \/ UNCHANGED vars
  BY <1>15 DEF Over, vars
<1> QED
  BY <1>1, <1>2, <1>3, <1>4, <1>5, <1>6, <1>7, <1>8, <1>9, <1>10, <1>11, <1>13, <1>14, <1>15 DEF Next
-----------------------------------------------------------------------------
(* The execution of one call moves.                                         *)

Moved(c, state) ==
    /\ tool' \in [AllCalls -> Execution] /\ \A d \in AllCalls : d # c => tool'[d] = tool[d]
    /\ tool'[c].state = state

LEMMA Written ==
    ASSUME CallTypes, NEW c \in AllCalls, NEW x \in Execution, tool' = [tool EXCEPT ![c] = x]
    PROVE  Moved(c, x.state) /\ tool'[c] = x
BY DEF CallTypes, Moved

LEMMA StartsIs ==
    ASSUME Types, NEW c \in AllCalls, Starts(c)
    PROVE  Moved(c, "running") /\ tool'[c].name \in EvidenceTools
<1>1. PICK m : m = ServerToolName(c)
  OBVIOUS
<1>2. m \in EvidenceTools
  BY <1>1 DEF Starts, ServerToolName, EvidenceTools
<1>3. PICK x : x = [NoTool EXCEPT !.name = m, !.state = "running"]
  OBVIOUS
<1>4. x \in Execution /\ x.state = "running" /\ x.name = m
  BY <1>2, <1>3 DEF Execution, NoTool
<1>5. tool' = [tool EXCEPT ![c] = x]
  BY <1>1, <1>3 DEF Starts, Executing
<1>6. Moved(c, x.state) /\ tool'[c] = x
  BY <1>4, <1>5, Written DEF Types
<1> QED
  BY <1>2, <1>4, <1>6

LEMMA AnswersIs ==
    ASSUME Types, NEW c \in AllCalls, Answers(c)
    PROVE  /\ Moved(c, "recording") /\ tool'[c].sequence = n.sequence + 1
           /\ tool'[c].name \in {"web_search", "web_link_binding"}
<1>1. PICK m, i : m = (IF c = "web" THEN "web_search" ELSE "web_link_binding") /\ i = n.sequence + 1
  OBVIOUS
<1>2. PICK x : x = [name |-> m, state |-> "recording", sequence |-> i]
  OBVIOUS
<1>3. i \in Nat
  BY <1>1 DEF Types, CountTypes, Counters
<1>4. x \in Execution /\ x.state = "recording" /\ x.sequence = i /\ x.name \in {"web_search", "web_link_binding"}
  BY <1>1, <1>2, <1>3 DEF Execution
<1>5. tool' = [tool EXCEPT ![c] = x]
  BY <1>1, <1>2 DEF Answers
<1>6. Moved(c, x.state) /\ tool'[c] = x
  BY <1>4, <1>5, Written DEF Types
<1> QED
  BY <1>1, <1>4, <1>6

LEMMA RecordingIs ==
    ASSUME Types, NEW c \in AllCalls, Recording(c)
    PROVE  /\ Moved(c, "recording") /\ tool'[c].sequence = n.sequence + 1 /\ tool'[c].name = tool[c].name
           /\ n'.sequence = n.sequence + 1
           /\ n'.calls = n.calls + IF c \in ServerCalls \ {"web_link"} THEN 1 ELSE 0
<1>1. PICK i : i = n.sequence + 1
  OBVIOUS
<1>2. PICK x : x = [tool[c] EXCEPT !.state = "recording", !.sequence = i]
  OBVIOUS
<1>3. i \in Nat /\ tool \in [AllCalls -> Execution] /\ tool[c] \in Execution
  BY <1>1 DEF Types, CountTypes, Counters, CallTypes
<1>4. x \in Execution /\ x.state = "recording" /\ x.sequence = i /\ x.name = tool[c].name
  BY <1>2, <1>3 DEF Execution
<1>5. tool' = [tool EXCEPT ![c] = x]
  BY <1>1, <1>2, <1>3 DEF Recording
<1>6. n'.sequence = n.sequence + 1 /\ n'.calls = n.calls + IF c \in ServerCalls \ {"web_link"} THEN 1 ELSE 0
  BY DEF Recording, Types, CountTypes, Counters
<1> QED
  BY <1>1, <1>4, <1>5, <1>6, Written DEF Types

LEMMA EndsIs ==
    ASSUME Types, NEW c \in AllCalls, NEW state \in {"done", "unrecorded"}, tool' = [tool EXCEPT ![c].state = state]
    PROVE  /\ Moved(c, state) /\ tool'[c].sequence = tool[c].sequence /\ tool'[c].name = tool[c].name
<1>1. PICK x : x = [tool[c] EXCEPT !.state = state]
  OBVIOUS
<1>2. tool[c] \in Execution /\ tool \in [AllCalls -> Execution]
  BY DEF Types, CallTypes
<1>3. x \in Execution /\ x.state = state /\ x.sequence = tool[c].sequence /\ x.name = tool[c].name
  BY <1>1, <1>2 DEF Execution
<1>4. tool' = [tool EXCEPT ![c] = x]
  BY <1>1, <1>2
<1> QED
  BY <1>3, <1>4, Written DEF Types

\* A batch starts new calls only, whose executions are fresh.
LEMMA BatchTypes ==
    ASSUME Types, executeToolCalls
    PROVE  tool' \in [AllCalls -> Execution]
<1>1. ASSUME NEW c \in AllCalls PROVE tool'[c] \in Execution
  <2>1. CASE \E i \in Runs : todo[i].id = c
    <3>1. PICK i \in Runs : todo[i].id = c
      BY <2>1
    <3>2. tool'[c] = [name |-> todo[i].name, state |-> "running", sequence |-> 0] /\ todo[i] \in Call
      BY <3>1, BatchIs
    <3> QED
      BY <3>2 DEF Execution, Call
  <2>2. CASE \A i \in Runs : todo[i].id # c
    BY <2>2, BatchIs DEF Types, CallTypes
  <2> QED
    BY <2>1, <2>2
<1>2. tool' = [c \in AllCalls |-> tool'[c]]
  BY DEF executeToolCalls
<1> QED
  BY <1>1, <1>2

LEMMA CallTypesStep == Types /\ WaitPart /\ OrderPart /\ InvocationPart /\ [Next]_vars => CallTypes'
<1> SUFFICES ASSUME Types, WaitPart, OrderPart, InvocationPart, [Next]_vars PROVE CallTypes'
  OBVIOUS
<1>1. todo' \in Seq(Call)
  BY TodoStep, BatchIs DEF Types, CallTypes
<1>2. CASE Advance \/ Same
  BY <1>1, <1>2 DEF Advance, Same, Types, CallTypes
<1>3. ASSUME NEW c \in AllCalls, Starts(c) \/ Answers(c) PROVE CallTypes'
  BY <1>1, <1>3, StartsIs, AnswersIs DEF Moved, Starts, Answers, Types, CallTypes
<1>4. CASE executeToolCalls
  <2>1. seen' \subseteq Calls
    <3>1. \A i \in 1..Take : todo[i].id \in Calls
      <4>1. \A i \in DOMAIN todo : todo[i] \in Call
        BY DEF Types, CallTypes
      <4>2. \A i \in DOMAIN todo : todo[i].id \in Calls
        BY <4>1 DEF Call
      <4> QED
        BY <1>4, <4>2, BatchIs
    <3>2. seen' = seen \cup {todo[i].id : i \in 1..Take}
      BY <1>4, BatchIs
    <3> QED
      BY <3>1, <3>2 DEF Types, CallTypes
  <2> QED
    BY <1>1, <1>4, <2>1, BatchTypes DEF executeToolCalls, Types, CallTypes
<1>5. CASE NextBatch \/ EndRound
  BY <1>1, <1>5 DEF NextBatch, EndRound, Types, CallTypes
<1>6. ASSUME NEW c \in AllCalls, ToolReturns(c) \/ ToolTimesOut(c) PROVE CallTypes'
  <2>1. Moved(c, "recording") /\ UNCHANGED seen
    BY <1>6, RecordingIs DEF ToolReturns, ToolTimesOut
  <2>2. c \notin {"web", "web_link"}
    BY <1>6 DEF ToolReturns, ToolTimesOut, WaitPart
  <2>3. late' \subseteq late \cup {c}
    BY <1>6 DEF ToolReturns, ToolTimesOut
  <2> QED
    BY <1>1, <2>1, <2>2, <2>3 DEF Moved, Types, CallTypes
<1>7. ASSUME NEW c \in AllCalls, Recorded(c) \/ RecordFails(c) PROVE CallTypes'
  BY <1>1, <1>7, EndsIs DEF Recorded, RecordFails, Moved, Types, CallTypes
<1>8. ASSUME NEW c \in AllCalls, LateReturn(c) PROVE CallTypes'
  BY <1>1, <1>8 DEF LateReturn, Types, CallTypes
<1> QED
  BY <1>2, <1>3, <1>4, <1>5, <1>6, <1>7, <1>8, Kinds

LEMMA GroundTypesStep == Types /\ WaitPart /\ [Next]_vars => GroundTypes'
<1> SUFFICES ASSUME Types, WaitPart, [Next]_vars PROVE GroundTypes'
  OBVIOUS
<1> USE DEF Types, GroundTypes
<1>1. ASSUME NEW failure, NEW found, webDone(failure, found) PROVE GroundTypes'
  BY <1>1, CallsAre DEF webDone
<1>2. CASE AbortSeen \/ proactiveKnowledgeSearch \/ proactiveAttachmentEvidence \/ WebSkip \/ WebCommit \/ WebLinkBinding
  BY <1>2 DEF AbortSeen, proactiveKnowledgeSearch, proactiveAttachmentEvidence, StartServerCall, WebSkip, WebCommit, WebLinkBinding
<1>3. CASE WebReserve \/ WebFinish \/ webBudgetRefused \/ SettleBreaks \/ ProviderError
  BY <1>1, <1>3 DEF WebReserve, WebFinish, webBudgetRefused, SettleBreaks, ProviderError
<1>4. CASE requestModel \/ RequestRetry \/ ModelText \/ ModelFailed \/ ModelUnauthorized \/ ModelCutOff \/ RepairFinish
  BY <1>4 DEF requestModel, RequestRetry, ModelText, ModelFailed, ModelUnauthorized, ModelCutOff, RepairFinish
<1>5. CASE ModelCalls \/ executeToolCalls \/ NextBatch \/ EndRound \/ persistAndPublishFinalAnswer \/ Abort \/ validateOrRepair
  BY <1>5 DEF ModelCalls, executeToolCalls, NextBatch, EndRound, persistAndPublishFinalAnswer, Abort, validateOrRepair
<1>6. ASSUME NEW c \in AllCalls, ToolReturns(c) PROVE GroundTypes'
  <2>1. evidence' \subseteq evidence \cup {c} /\ links' \subseteq links \cup {c}
    BY <1>6 DEF ToolReturns, Registers
  <2>2. calculations' \subseteq Calls
    <3>1. calculations' = calculations \/ (tool[c].name = "estimate_pumpdown_time" /\ calculations' = calculations \cup {c})
      BY <1>6 DEF ToolReturns
    <3>2. tool[c].name = "estimate_pumpdown_time" => c \in Calls
      BY CallsAre DEF WaitPart
    <3> QED
      BY <3>1, <3>2
  <2>3. artifact' \in {"none", "ready", "failed"}
    BY <1>6 DEF ToolReturns
  <2> QED
    BY <2>1, <2>2, <2>3
<1>7. CASE \E c \in AllCalls : ToolTimesOut(c) \/ LateReturn(c) \/ Recorded(c) \/ RecordFails(c)
  BY <1>7 DEF ToolTimesOut, LateReturn, Recorded, RecordFails
<1>8. CASE Over \/ UNCHANGED vars
  BY <1>8 DEF Over, vars
<1> QED
  BY <1>2, <1>3, <1>4, <1>5, <1>6, <1>7, <1>8 DEF Next

LEMMA WebTypesStep == Types /\ [Next]_vars => WebTypes'
<1> SUFFICES ASSUME WebTypes, [Next]_vars PROVE WebTypes'
  BY DEF Types
<1> USE DEF WebTypes
<1>1. ASSUME NEW failure, NEW found, webDone(failure, found), failure \in {"none", "quota_exhausted", "no_validated_evidence"}
      PROVE  webFailure' \in {"none", "quota_exhausted", "no_validated_evidence"}
  BY <1>1 DEF webDone
<1>2. CASE AbortSeen \/ proactiveKnowledgeSearch \/ proactiveAttachmentEvidence \/ WebSkip \/ WebCommit \/ WebLinkBinding
  BY <1>2 DEF AbortSeen, proactiveKnowledgeSearch, proactiveAttachmentEvidence, StartServerCall, WebSkip, WebCommit, WebLinkBinding
<1>3. CASE WebReserve
  BY <1>1, <1>3 DEF WebReserve
<1>4. CASE WebFinish \/ webBudgetRefused \/ SettleBreaks \/ ProviderError
  BY <1>1, <1>4 DEF WebFinish, webBudgetRefused, SettleBreaks, ProviderError
<1>5. CASE requestModel \/ RequestRetry \/ ModelText \/ ModelFailed \/ ModelUnauthorized \/ ModelCutOff \/ RepairFinish
  BY <1>5 DEF requestModel, RequestRetry, ModelText, ModelFailed, ModelUnauthorized, ModelCutOff, RepairFinish
<1>6. CASE ModelCalls \/ executeToolCalls \/ NextBatch \/ EndRound \/ persistAndPublishFinalAnswer \/ Abort \/ validateOrRepair
  BY <1>6 DEF ModelCalls, executeToolCalls, NextBatch, EndRound, persistAndPublishFinalAnswer, Abort, validateOrRepair
<1>7. CASE \E c \in AllCalls : ToolReturns(c) \/ ToolTimesOut(c) \/ LateReturn(c) \/ Recorded(c) \/ RecordFails(c)
  BY <1>7 DEF ToolReturns, ToolTimesOut, LateReturn, Recorded, RecordFails
<1>8. CASE Over \/ UNCHANGED vars
  BY <1>8 DEF Over, vars
<1> QED
  BY <1>2, <1>3, <1>4, <1>5, <1>6, <1>7, <1>8 DEF Next

LEMMA ModelTypesStep == Types /\ InvocationPart /\ [Next]_vars => ModelTypes'
<1> SUFFICES ASSUME Types, ModelTypes, InvocationPart, [Next]_vars PROVE ModelTypes'
  BY DEF Types
<1>1. ASSUME pc = "stream", NEW status, (Settle(status) /\ status \in Statuses) \/ Settled(status), ask' = ask
      PROVE  ModelTypes'
  BY <1>1, Settling DEF ModelTypes
<1>0. ASSUME StartThrows PROVE ModelTypes'
  <2>1. CASE UNCHANGED <<invocation, unacknowledged>>
    BY <1>0, <2>1 DEF ModelTypes, StartThrows
  <2>2. CASE invocation' = Append(invocation, "running") /\ unacknowledged' = unacknowledged \cup {Len(invocation) + 1}
    <3>1. invocation' \in Seq(Statuses) /\ DOMAIN invocation \subseteq DOMAIN invocation'
          /\ Len(invocation) + 1 \in DOMAIN invocation'
      BY <2>2 DEF ModelTypes, Statuses
    <3> QED
      BY <1>0, <2>2, <3>1 DEF ModelTypes, StartThrows
  <2> QED
    BY <1>0, <2>1, <2>2 DEF StartThrows
<1>2. ASSUME NEW doing \in ModelRequest, NEW retry \in BOOLEAN, NEW purpose, StartRequest(purpose, retry, doing)
      PROVE  ModelTypes'
  <2>1. CASE UNCHANGED <<ask, invocation, unwritten, unacknowledged>>
    BY <1>2, <2>1 DEF ModelTypes
  <2>2. CASE /\ invocation' = Append(invocation, "running") /\ ask' = [doing EXCEPT !.retry = retry]
             /\ UNCHANGED <<unwritten, unacknowledged>>
    <3>1. ask' \in ModelRequest
      BY <2>2 DEF ModelRequest
    <3>2. invocation' \in Seq(Statuses) /\ DOMAIN invocation \subseteq DOMAIN invocation'
      BY <2>2 DEF ModelTypes, Statuses
    <3> QED
      BY <2>2, <3>1, <3>2 DEF ModelTypes
  <2> QED
    BY <1>0, <1>2, <2>1, <2>2 DEF StartRequest
<1>3. CASE AbortSeen \/ proactiveKnowledgeSearch \/ proactiveAttachmentEvidence \/ WebSkip \/ WebCommit \/ WebLinkBinding
  BY <1>3 DEF ModelTypes, AbortSeen, proactiveKnowledgeSearch, proactiveAttachmentEvidence, StartServerCall, WebSkip, WebCommit, WebLinkBinding
<1>4. CASE WebReserve \/ webBudgetRefused
  BY <1>0, <1>4 DEF ModelTypes, WebReserve, webBudgetRefused
<1>5. CASE requestModel
  <2>1. PICK purpose : purpose \in {"answer", "web", "repair", "regenerate"} /\ StartRequest(purpose, FALSE, Asking(purpose))
    <3>1. PICK p : p = (CASE pc = "ask" -> "answer" [] pc = "web_discovery" -> "web" [] OTHER -> pc)
      OBVIOUS
    <3>2. StartRequest(p, FALSE, Asking(p)) /\ pc \in {"ask", "web_discovery", "repair", "regenerate"}
      BY <1>5, <3>1 DEF requestModel
    <3> QED
      BY <3>1, <3>2
  <2> QED
    BY <1>2, <1>5, <2>1, PolicyIs DEF requestModel
<1>6. CASE RequestRetry
  <2>1. CASE UNCHANGED modelVars
    BY <2>1 DEF ModelTypes
  <2>2. CASE StartRequest(ask.purpose, TRUE, ask)
    BY <1>2, <1>6, <2>2 DEF RequestRetry, ModelTypes
  <2> QED
    BY <1>6, <2>1, <2>2 DEF RequestRetry
<1>7. CASE ProviderError
  <2>1. PICK status \in Statuses : Settle(status)
    BY <1>7 DEF ProviderError, Statuses
  <2> QED
    BY <1>1, <1>7, <2>1 DEF ProviderError
<1>8. CASE SettleBreaks
  <2>1. PICK status \in Statuses : Settle(status)
    BY <1>8 DEF SettleBreaks, Statuses
  <2> QED
    BY <1>1, <1>8, <2>1 DEF SettleBreaks
<1>9. CASE WebFinish \/ ModelText \/ ModelFailed \/ ModelUnauthorized \/ ModelCutOff \/ ModelCalls \/ RepairFinish
  <2>1. PICK status : Settled(status)
    BY <1>9 DEF WebFinish, ModelText, ModelFailed, ModelUnauthorized, ModelCutOff, ModelCalls, RepairFinish
  <2>2. pc = "stream" /\ ask' = ask
    BY <2>1 DEF Settled
  <2> QED
    BY <1>1, <2>1, <2>2
<1>10. CASE executeToolCalls \/ NextBatch \/ EndRound \/ persistAndPublishFinalAnswer \/ Abort \/ validateOrRepair
  BY <1>10 DEF ModelTypes, executeToolCalls, NextBatch, EndRound, persistAndPublishFinalAnswer, Abort, validateOrRepair
<1>11. CASE \E c \in AllCalls : ToolReturns(c) \/ ToolTimesOut(c) \/ LateReturn(c) \/ Recorded(c) \/ RecordFails(c)
  BY <1>11 DEF ModelTypes, ToolReturns, ToolTimesOut, LateReturn, Recorded, RecordFails
<1>12. CASE Over \/ UNCHANGED vars
  BY <1>12 DEF ModelTypes, Over, vars
<1> QED
  BY <1>3, <1>4, <1>5, <1>6, <1>7, <1>8, <1>9, <1>10, <1>11, <1>12 DEF Next

LEMMA TypesStep == Types /\ WaitPart /\ OrderPart /\ InvocationPart /\ [Next]_vars => Types'
BY RunTypesStep, CountTypesStep, CallTypesStep, GroundTypesStep, WebTypesStep, ModelTypesStep DEF Types
-----------------------------------------------------------------------------
(* The rows of model_invocation.                                            *)

LEMMA InvocationStep == Types /\ WaitPart /\ InvocationPart /\ [Next]_vars => InvocationPart'
<1> SUFFICES ASSUME Types, WaitPart, InvocationPart, [Next]_vars PROVE InvocationPart'
  OBVIOUS
<1>0. invocation \in Seq(Statuses) /\ unwritten \cup unacknowledged \subseteq DOMAIN invocation
  BY DEF Types, ModelTypes
<1>1. ASSUME pc = "stream", NEW status,
             \/ Settle(status) /\ status \in Statuses \ {"running"}
             \/ Settled(status)
      PROVE  \A i \in DOMAIN invocation' : invocation'[i] = "running" => i \in unwritten' \cup unacknowledged'
  <2>1. Len(invocation) \in DOMAIN invocation
    BY <1>0, <1>1 DEF InvocationPart
  <2>2. PICK s : s \in Statuses \ {"running"} /\
           (\/ invocation' = [invocation EXCEPT ![Len(invocation)] = s] /\ unwritten' = unwritten
            \/ invocation' = invocation /\ unwritten' = unwritten \cup {Len(invocation)})
           /\ unacknowledged' = unacknowledged
    <3>1. CASE Settle(status) /\ status \in Statuses \ {"running"}
      BY <3>1 DEF Settle
    <3>2. CASE Settled(status)
      <4>1. PICK s : s = IF status = "failed" THEN "failed" ELSE "succeeded"
        OBVIOUS
      <4>2. s \in Statuses \ {"running"} /\ invocation' = [invocation EXCEPT ![Len(invocation)] = s]
            /\ unwritten' = unwritten /\ unacknowledged' = unacknowledged
        BY <3>2, <4>1 DEF Settled, Statuses
      <4> QED
        BY <4>2
    <3> QED
      BY <1>1, <3>1, <3>2
  <2> QED
    BY <1>0, <2>1, <2>2 DEF InvocationPart
<1>2. ASSUME \A i \in DOMAIN invocation' : invocation'[i] = "running" => i \in unwritten' \cup unacknowledged', pc' # "stream"
      PROVE  InvocationPart'
  BY <1>2 DEF InvocationPart
<1>3. ASSUME pc # "stream", pc' # "stream", UNCHANGED <<invocation, unwritten, unacknowledged>>
      PROVE  InvocationPart'
  BY <1>3 DEF InvocationPart
<1>16. ASSUME pc # "stream", pc' # "stream", StartThrows PROVE InvocationPart'
  <2>1. CASE /\ invocation' = Append(invocation, "running") /\ unwritten' = unwritten
             /\ unacknowledged' = unacknowledged \cup {Len(invocation) + 1}
    BY <1>0, <1>16, <2>1 DEF InvocationPart
  <2> QED
    BY <1>3, <1>16, <2>1 DEF StartThrows
<1>4. ASSUME NEW doing, NEW retry, NEW purpose, StartRequest(purpose, retry, doing), pc # "stream"
      PROVE  InvocationPart'
  <2>1. CASE /\ invocation' = Append(invocation, "running") /\ pc' = "stream"
             /\ UNCHANGED <<unwritten, unacknowledged>>
    BY <1>0, <1>4, <2>1 DEF InvocationPart
  <2> QED
    BY <1>3, <1>4, <1>16, <2>1 DEF StartRequest
<1>5. CASE AbortSeen \/ proactiveKnowledgeSearch \/ proactiveAttachmentEvidence \/ WebSkip \/ WebCommit \/ WebLinkBinding
  BY <1>3, <1>5 DEF AbortSeen, proactiveKnowledgeSearch, proactiveAttachmentEvidence, StartServerCall, WebSkip, WebCommit, WebLinkBinding
<1>6. CASE WebReserve \/ webBudgetRefused
  BY <1>3, <1>6, <1>16 DEF WebReserve, webBudgetRefused, webDone
<1>7. CASE requestModel \/ RequestRetry
  BY <1>3, <1>4, <1>7 DEF requestModel, RequestRetry
<1>8. CASE ProviderError
  <2>1. pc = "stream" /\ pc' # "stream"
    BY <1>8 DEF ProviderError, webDone
  <2>2. \E status \in Statuses \ {"running"} : Settle(status)
    BY <1>8 DEF ProviderError, Statuses
  <2> QED
    BY <1>1, <1>2, <2>1, <2>2
<1>9. CASE SettleBreaks
  <2>1. pc = "stream" /\ pc' # "stream"
    BY <1>9 DEF SettleBreaks, webDone
  <2>2. \E status \in Statuses \ {"running"} : Settle(status)
    BY <1>9 DEF SettleBreaks, Statuses
  <2> QED
    BY <1>1, <1>2, <2>1, <2>2
<1>10. CASE WebFinish \/ ModelText \/ ModelFailed \/ ModelUnauthorized \/ ModelCutOff \/ ModelCalls \/ RepairFinish
  <2>1. PICK status : Settled(status)
    BY <1>10 DEF WebFinish, ModelText, ModelFailed, ModelUnauthorized, ModelCutOff, ModelCalls, RepairFinish
  <2>2. pc = "stream" /\ pc' # "stream"
    BY <1>10, <2>1 DEF WebFinish, ModelText, ModelFailed, ModelUnauthorized, ModelCutOff, ModelCalls, RepairFinish, webDone, Settled
  <2> QED
    BY <1>1, <1>2, <2>1, <2>2
<1>11. CASE executeToolCalls \/ NextBatch \/ EndRound \/ persistAndPublishFinalAnswer
  BY <1>3, <1>11 DEF executeToolCalls, NextBatch, EndRound, persistAndPublishFinalAnswer
<1>12. CASE validateOrRepair
  BY <1>3, <1>12 DEF validateOrRepair, Conclude, WithWebFallback, Repair
<1>13. CASE \E c \in AllCalls : ToolReturns(c) \/ ToolTimesOut(c) \/ LateReturn(c)
  BY <1>13 DEF ToolReturns, ToolTimesOut, LateReturn, InvocationPart
<1>14. CASE \E c \in AllCalls : Recorded(c) \/ RecordFails(c)
  <2>1. pc # "stream"
    BY <1>14 DEF WaitPart, Busy, Recorded, RecordFails, Types, RunTypes
  <2>2. UNCHANGED <<invocation, unwritten, unacknowledged>> /\ pc' # "stream"
    BY <1>14, <2>1 DEF Recorded, RecordFails, AfterServerCall
  <2> QED
    BY <1>3, <2>1, <2>2
<1>15. CASE Abort \/ Over \/ UNCHANGED vars
  BY <1>15 DEF Abort, Over, vars, InvocationPart
<1> QED
  BY <1>5, <1>6, <1>7, <1>8, <1>9, <1>10, <1>11, <1>12, <1>13, <1>14, <1>15 DEF Next

\* What a start leaves behind.
LEMMA StartThrowsIs ==
    ASSUME Types, StartThrows
    PROVE  /\ Len(invocation') <= Len(invocation) + 1
           /\ unacknowledged' \subseteq unacknowledged \cup {Len(invocation) + 1}
BY DEF StartThrows, Types, ModelTypes

LEMMA StartStep == Types /\ OrderPart /\ InvocationPart /\ StartPart /\ [Next]_vars => StartPart'
<1> SUFFICES ASSUME Types, OrderPart, InvocationPart, StartPart, [Next]_vars PROVE StartPart'
  OBVIOUS
<1>0. n \in Counters /\ n.requests \in Nat /\ n.rounds \in Nat /\ invocation \in Seq(Statuses) /\ Len(invocation) \in Nat
  BY DEF Types, CountTypes, Counters, ModelTypes
\* A step that starts no request.
<1>1. ASSUME Len(invocation') = Len(invocation), unacknowledged' = unacknowledged, n'.requests = n.requests,
             outcome' # "failed" => outcome # "failed"
      PROVE  StartPart'
  BY <1>1 DEF StartPart
<1>2. counted.requests = n.requests
  BY CountedIs DEF Types
<1>3. ASSUME NEW doing, NEW retry, NEW purpose, StartRequest(purpose, retry, doing)
      PROVE  StartPart'
  <2>1. CASE n.requests < MAX_MODEL_REQUESTS /\ n' = [n EXCEPT !.requests = n.requests + 1]
    <3>1. n'.requests = n.requests + 1
      BY <1>0, <2>1 DEF Counters
    <3>2. CASE /\ invocation' = Append(invocation, "running")
               /\ UNCHANGED <<unacknowledged, outcome>>
      BY <1>0, <3>1, <3>2 DEF StartPart
    <3>3. CASE Throw /\ StartThrows
      BY <1>0, <3>1, <3>3, StartThrowsIs DEF StartPart
    <3> QED
      BY <1>0, <1>3, <2>1, <3>2, <3>3, LimitsAssumption DEF StartRequest
  <2>2. CASE Throw /\ UNCHANGED <<n, modelVars>>
    BY <1>1, <2>2
  <2> QED
    BY <1>3, <2>1, <2>2 DEF StartRequest
<1>4. CASE webBudgetRefused
  <2>1. n.requests = 0 /\ StartThrows /\ outcome' = outcome /\ n' = [counted EXCEPT !.requests = n.requests + 1]
    BY <1>2, <1>4 DEF webBudgetRefused, webDone, OrderPart
  <2>2. n'.requests = 1
    <3>1. PICK x, k : x = counted /\ k = n.requests + 1
      OBVIOUS
    <3>2. x \in Counters /\ k \in Nat /\ k = 1 /\ n' = [x EXCEPT !.requests = k]
      BY <1>0, <2>1, <3>1, CountedIs DEF Types
    <3> QED
      BY <3>2, CountersAre
  <2>3. Len(invocation) = 0
    BY <1>0, <2>1 DEF StartPart
  <2> QED
    BY <1>0, <2>1, <2>2, <2>3, StartThrowsIs DEF StartPart
<1>5. CASE requestModel \/ RequestRetry
  <2>1. CASE Throw /\ UNCHANGED <<n, modelVars>>
    BY <1>1, <2>1
  <2> QED
    BY <1>3, <1>5, <2>1 DEF requestModel, RequestRetry
\* The row of the request under way is settled, or not.
<1>6. ASSUME pc = "stream", NEW status, (Settle(status) /\ status \in Statuses) \/ Settled(status)
      PROVE  Len(invocation') = Len(invocation) /\ unacknowledged' = unacknowledged
  BY <1>6, Settling DEF Types
<1>7. CASE ProviderError \/ SettleBreaks
  <2>1. PICK status \in Statuses : Settle(status)
    BY <1>7 DEF ProviderError, SettleBreaks, Statuses
  <2>2. pc = "stream" /\ outcome = "running"
    BY <1>7 DEF ProviderError, SettleBreaks, Types, RunTypes
  <2>3. n' = n \/ (\E x \in {n, counted} : n' = [x EXCEPT !.breaks = n.breaks + 1]) \/ n' = counted
    <3>1. counted.breaks = n.breaks
      BY CountedIs DEF Types
    <3> QED
      BY <1>7, <3>1 DEF ProviderError, SettleBreaks
  <2>4. n'.requests = n.requests
    <3>1. PICK k : k = n.breaks + 1
      OBVIOUS
    <3>2. k \in Nat /\ counted \in Counters
      BY <1>0, <3>1, CountedIs DEF Types, Counters
    <3> QED
      BY <1>0, <1>2, <2>3, <3>1, <3>2, CountersAre
  <2> QED
    BY <1>1, <1>6, <2>1, <2>2, <2>4
<1>8. CASE WebFinish \/ ModelText \/ ModelFailed \/ ModelUnauthorized \/ ModelCutOff \/ ModelCalls \/ RepairFinish
  <2>1. PICK status : Settled(status)
    BY <1>8 DEF WebFinish, ModelText, ModelFailed, ModelUnauthorized, ModelCutOff, ModelCalls, RepairFinish
  <2>2. pc = "stream" /\ outcome = "running"
    BY <2>1 DEF Settled, Types, RunTypes
  <2>3. n' \in {n, counted, [n EXCEPT !.artifactRepairs = 1], [n EXCEPT !.rounds = n.rounds + 1]}
    BY <1>8 DEF WebFinish, ModelText, ModelFailed, ModelUnauthorized, ModelCutOff, ModelCalls, RepairFinish
  <2>4. n'.requests = n.requests
    BY <1>0, <1>2, <2>3 DEF Counters
  <2> QED
    BY <1>1, <1>6, <2>1, <2>2, <2>4
<1>9. CASE AbortSeen \/ proactiveKnowledgeSearch \/ proactiveAttachmentEvidence \/ WebSkip \/ WebCommit \/ WebLinkBinding
  <2>1. UNCHANGED modelVars /\ outcome = "running"
    BY <1>9 DEF AbortSeen, proactiveKnowledgeSearch, proactiveAttachmentEvidence, StartServerCall, WebSkip, WebCommit, WebLinkBinding, Types, RunTypes
  <2>2. n' = n \/ n' = [n EXCEPT !.sequence = @ + 1]
    BY <1>9 DEF AbortSeen, proactiveKnowledgeSearch, proactiveAttachmentEvidence, StartServerCall, WebSkip, WebCommit, WebLinkBinding
  <2> QED
    BY <1>0, <1>1, <2>1, <2>2 DEF Counters
<1>10. CASE WebReserve
  BY <1>1, <1>2, <1>10 DEF WebReserve, webDone, Types, RunTypes
<1>11. CASE executeToolCalls \/ NextBatch \/ EndRound \/ persistAndPublishFinalAnswer \/ validateOrRepair
  <2>1. UNCHANGED modelVars /\ outcome = "running"
    BY <1>11 DEF executeToolCalls, NextBatch, EndRound, persistAndPublishFinalAnswer, validateOrRepair, Types, RunTypes
  <2>2. \/ n' = n \/ n' = [n EXCEPT !.calls = @ + Cardinality(Runs)]
        \/ n' = [n EXCEPT !.repairs = @ + 1]
    BY <1>11 DEF executeToolCalls, NextBatch, EndRound, persistAndPublishFinalAnswer, validateOrRepair, Repair
  <2> QED
    BY <1>0, <1>1, <2>1, <2>2 DEF Counters
<1>12. CASE \E c \in AllCalls : ToolReturns(c) \/ ToolTimesOut(c) \/ LateReturn(c) \/ Recorded(c) \/ RecordFails(c)
  <2>1. PICK c \in AllCalls : ToolReturns(c) \/ ToolTimesOut(c) \/ LateReturn(c) \/ Recorded(c) \/ RecordFails(c)
    BY <1>12
  <2>2. UNCHANGED modelVars /\ (outcome' # "failed" => outcome # "failed")
    BY <2>1 DEF ToolReturns, ToolTimesOut, LateReturn, Recorded, RecordFails
  <2>3. n' = n \/ Recording(c)
    BY <2>1 DEF ToolReturns, ToolTimesOut, LateReturn, Recorded, RecordFails
  <2>4. n'.requests = n.requests
    BY <1>0, <2>3 DEF Recording, Counters
  <2> QED
    BY <1>1, <2>2, <2>4
<1>13. CASE Abort \/ Over \/ UNCHANGED vars
  BY <1>1, <1>13 DEF Abort, Over, vars
<1> QED
  BY <1>4, <1>5, <1>7, <1>8, <1>9, <1>10, <1>11, <1>12, <1>13 DEF Next
-----------------------------------------------------------------------------
(* What the run waits for.                                                  *)

LEMMA WaitStep == Types /\ WaitPart /\ OrderPart /\ [Next]_vars => WaitPart'
<1> SUFFICES ASSUME Types, WaitPart, OrderPart, [Next]_vars PROVE WaitPart'
  OBVIOUS
<1>0. outcome \notin {"running", "failed"} \/ pc = "done" => outcome # "running" /\ pc = "done"
  BY DEF Types, RunTypes
<1>1. CASE Advance
  BY <1>1 DEF Advance, Quiet, WaitPart
<1>2. CASE Same
  BY <1>2 DEF Same, WaitPart
<1>3. ASSUME NEW c \in AllCalls, Starts(c) PROVE WaitPart'
  <2>1. Moved(c, "running") /\ tool'[c].name \in EvidenceTools /\ c \notin Calls /\ c \notin {"web", "web_link"}
    BY <1>3, StartsIs, CallsAre DEF Starts
  <2>2. \A d \in AllCalls : tool'[d].state \in Busy => d = c
    BY <1>3, <2>1 DEF Starts, Quiet, Moved
  <2> QED
    BY <1>3, <2>1, <2>2, CallsAre DEF Starts, Moved, EvidenceTools, WaitPart, Busy
<1>4. ASSUME NEW c \in AllCalls, Answers(c) PROVE WaitPart'
  <2>1. Moved(c, "recording") /\ tool'[c].name \in {"web_search", "web_link_binding"} /\ c \notin Calls
    BY <1>4, AnswersIs, CallsAre DEF Answers
  <2>2. \A d \in AllCalls : tool'[d].state \in Busy => d = c
    BY <1>4, <2>1 DEF Answers, Quiet, Moved
  <2> QED
    BY <1>4, <2>1, <2>2, CallsAre DEF Answers, Moved, WaitPart, Busy
<1>5. CASE executeToolCalls
  <2>1. outcome = "running" /\ outcome' = "running" /\ pc' = "batch_call" /\ Quiet
    BY <1>0, <1>5 DEF executeToolCalls, WaitPart, Quiet, Types, RunTypes
  <2>2. \A c \in ServerCalls : tool'[c] = tool[c]
    BY <1>5, BatchIs, CallsAre DEF Call
  <2>3. \A c \in AllCalls : tool'[c].state \in {tool[c].state, "running"}
    <3> SUFFICES ASSUME NEW c \in AllCalls PROVE tool'[c].state \in {tool[c].state, "running"}
      OBVIOUS
    <3>1. CASE \E i \in Runs : todo[i].id = c
      <4>1. PICK i \in Runs : todo[i].id = c
        BY <3>1
      <4>2. tool'[todo[i].id] = [name |-> todo[i].name, state |-> "running", sequence |-> 0]
        BY <1>5, BatchIs
      <4> QED
        BY <4>1, <4>2
    <3>2. CASE \A i \in Runs : todo[i].id # c
      BY <1>5, <3>2, BatchIs
    <3> QED
      BY <3>1, <3>2
  <2>4. \A c \in Calls : tool'[c].state # "none" => c \in seen'
    <3> SUFFICES ASSUME NEW c \in Calls, tool'[c].state # "none", c \notin seen' PROVE FALSE
      OBVIOUS
    <3>1. \A i \in Runs : todo[i].id # c
      BY <1>5, BatchIs
    <3> QED
      BY <1>5, <3>1, BatchIs, CallsAre DEF WaitPart
  <2> QED
    BY <2>1, <2>2, <2>3, <2>4, CallsAre DEF WaitPart, Quiet, Busy
<1>6. CASE NextBatch \/ EndRound
  <2>1. Quiet
    BY <1>6, CallsAre DEF NextBatch, EndRound, BatchSettled, Quiet, Busy, WaitPart
  <2> QED
    BY <1>6, <2>1 DEF NextBatch, EndRound, WaitPart, Quiet
<1>7. ASSUME NEW c \in AllCalls, ToolReturns(c) \/ ToolTimesOut(c) PROVE WaitPart'
  <2>1. Moved(c, "recording") /\ tool'[c].name = tool[c].name /\ tool[c].state = "running" /\ UNCHANGED <<pc, outcome, seen>>
    BY <1>7, RecordingIs DEF ToolReturns, ToolTimesOut
  <2>2. \A d \in AllCalls : tool'[d].name = tool[d].name /\ (tool'[d].state \in Busy <=> tool[d].state \in Busy)
                            /\ (d = c \/ tool'[d] = tool[d])
    BY <2>1 DEF Moved, Busy
  <2>3. \A d \in AllCalls : /\ tool'[d].state = "unrecorded" => tool[d].state = "unrecorded"
                            /\ tool'[d].state = "running" => tool[d].state = "running"
                            /\ tool'[d].state # "none" => tool[d].state # "none"
    BY <2>1 DEF Moved
  <2> QED
    BY <2>1, <2>2, <2>3, CallsAre DEF WaitPart
<1>8. ASSUME NEW c \in AllCalls, LateReturn(c) PROVE WaitPart'
  BY <1>8 DEF LateReturn, WaitPart
<1>9. ASSUME NEW c \in AllCalls, Recorded(c) \/ RecordFails(c) PROVE WaitPart'
  <2>1. PICK state \in {"done", "unrecorded"} : tool' = [tool EXCEPT ![c].state = state]
    BY <1>9 DEF Recorded, RecordFails
  <2>2. Moved(c, state) /\ tool'[c].name = tool[c].name /\ tool[c].state = "recording" /\ UNCHANGED seen
    BY <1>9, <2>1, EndsIs DEF Recorded, RecordFails
  <2>3. \A d \in AllCalls : /\ tool'[d].name = tool[d].name /\ (tool'[d].state \in Busy <=> d # c /\ tool[d].state \in Busy)
                            /\ tool'[d].state = "running" => tool[d].state = "running"
                            /\ tool'[d].state # "none" => tool[d].state # "none"
    BY <2>2 DEF Moved, Busy
  <2>4. CASE outcome' = "failed"
    <3>1. pc' \in {pc, "done"}
      BY <1>9, <2>4, <1>0 DEF Recorded, RecordFails, AfterServerCall, Types, RunTypes
    <3> QED
      BY <2>2, <2>3, <2>4, <3>1, CallsAre DEF WaitPart
  <2>5. CASE outcome' # "failed"
    <3>1. outcome = "running" /\ Recorded(c)
      BY <1>0, <1>9, <2>2, <2>5 DEF Recorded, RecordFails, WaitPart, Busy
    <3>2. pc \in {"server_call", "batch_call"} /\ pc' = AfterServerCall(c) /\ state = "done"
      <4>1. pc \in {"server_call", "batch_call"}
        BY <2>2, <3>1 DEF WaitPart, Busy
      <4>2. pc' = AfterServerCall(c)
        BY <2>5, <3>1 DEF Recorded
      <4>3. tool'[c].state = "done"
        BY <3>1, EndsIs DEF Recorded, Moved
      <4> QED
        BY <4>1, <4>2, <4>3, <2>2 DEF Moved
    <3>3. \A d \in AllCalls : tool'[d].state # "unrecorded"
      BY <2>2, <2>5, <3>1, <3>2 DEF Moved, WaitPart
    <3>4. CASE pc = "server_call"
      <4>1. c \in ServerCalls
        BY <2>2, <3>4, CallsAre DEF WaitPart, Busy
      <4>2. pc' \notin {"server_call", "batch_call"}
        BY <3>2, <4>1, CallsAre DEF AfterServerCall
      <4>3. \A d \in AllCalls : tool'[d].state \notin Busy
        BY <2>2, <2>3, <3>4, <4>1, CallsAre DEF WaitPart, Busy
      <4> QED
        BY <2>2, <2>3, <3>3, <4>2, <4>3, CallsAre DEF WaitPart
    <3>5. CASE pc = "batch_call"
      <4>1. c \in Calls
        BY <2>2, <3>5, CallsAre DEF WaitPart, Busy
      <4>2. pc' = "batch_call"
        BY <3>2, <3>5, <4>1, CallsAre DEF AfterServerCall
      <4> QED
        BY <2>2, <2>3, <3>3, <3>5, <4>2, CallsAre DEF WaitPart
    <3> QED
      BY <3>2, <3>4, <3>5
  <2> QED
    BY <2>4, <2>5
<1> QED
  BY <1>1, <1>2, <1>3, <1>4, <1>5, <1>6, <1>7, <1>8, <1>9, Kinds
-----------------------------------------------------------------------------
(* The order of the server's own calls.                                     *)

\* Where nothing is claimed about them any more.
Afterwards == {"ask", "batch", "batch_call", "validate", "repair", "regenerate", "save", "done"}

LEMMA AfterwardsIs ==
    /\ pc \in Afterwards => ~BeforeWeb /\ ~Searching
    /\ pc' \in Afterwards => OrderPart' /\ ~BeforeWeb' /\ ~Searching'
BY DEF Afterwards, OrderPart, BeforeWeb, Searching, Serving

\* The search is recorded: the binding of its link is still to come.
LEMMA SearchRecorded ==
    ASSUME OrderPart, BeforeWeb \/ Searching, NEW c \in AllCalls, c = "web", Answers(c), Types
    PROVE  OrderPart' /\ ~BeforeWeb' /\ ~Searching'
<1>1. Moved(c, "recording") /\ pc' = "server_call"
  BY AnswersIs DEF Answers
<1>2. \A d \in AllCalls : d # c => tool'[d] = tool[d] /\ tool'[d].state \notin Busy
  BY <1>1 DEF Moved, Answers, Quiet
<1>3. "knowledge" \in AllCalls /\ "attachment_search" \in AllCalls /\ "attachment_open" \in AllCalls /\ "web_link" \in AllCalls
  BY CallsAre
<1>4. ~BeforeWeb' /\ ~Searching'
  BY <1>1, <1>2, <1>3 DEF BeforeWeb, Searching, Serving
<1>5. ~Serving("knowledge")' /\ ~Serving("attachment_search")'
  BY <1>2, <1>3 DEF Serving
<1> QED
  BY <1>1, <1>2, <1>3, <1>4, <1>5 DEF OrderPart

LEMMA OrderStep == Types /\ WaitPart /\ OrderPart /\ [Next]_vars => OrderPart'
<1> SUFFICES ASSUME Types, WaitPart, OrderPart, [Next]_vars PROVE OrderPart'
  OBVIOUS
<1>0. pc \notin {"server_call", "batch_call", "done"} => outcome = "running" /\ Quiet
  BY DEF WaitPart, Quiet, Types, RunTypes
<1>1. {"knowledge", "attachment_search", "attachment_open", "web", "web_link"} \subseteq AllCalls
  BY CallsAre
<1>2. ASSUME NEW failure, NEW found, webDone(failure, found), n'.calls = counted.calls, n'.sequence = counted.sequence,
             BeforeWeb \/ Searching, pc \in {"web", "web_discovery", "stream"}
      PROVE  OrderPart'
  <2>1. Answers("web")
    BY <1>0, <1>2, WebAnswers DEF OrderPart, Types
  <2> QED
    BY <1>1, <1>2, <2>1, SearchRecorded
<1>3. ASSUME NEW c \in {"knowledge", "attachment_search", "attachment_open"}, Starts(c), n'.requests = 0, seen = {},
             tool["web"].state = "none", tool["web_link"].state = "none",
             c = "knowledge" => tool["attachment_search"].state = "none",
             c \in {"knowledge", "attachment_search"} => tool["attachment_open"].state = "none"
      PROVE  OrderPart'
  <2>1. Moved(c, "running") /\ pc' = "server_call" /\ seen' = seen
    BY <1>1, <1>3, StartsIs DEF Starts
  <2>2. \A d \in AllCalls : d # c => tool'[d] = tool[d] /\ tool'[d].state \notin Busy
    BY <1>3, <2>1 DEF Moved, Starts, Quiet
  <2>3. ~Serving("web")'
    BY <1>1, <1>3, <2>2 DEF Serving
  <2> QED
    BY <1>1, <1>3, <2>1, <2>2, <2>3 DEF OrderPart, Serving, Searching
<1>4. CASE pc' \in Afterwards
  BY <1>4, AfterwardsIs
<1>5. CASE proactiveKnowledgeSearch
  <2>1. Starts("knowledge")
    BY <1>0, <1>5, CallsAre DEF proactiveKnowledgeSearch, StartServerCall, Starts, OrderPart
  <2> QED
    BY <1>3, <1>5, <2>1 DEF proactiveKnowledgeSearch, StartServerCall, OrderPart, BeforeWeb
<1>6. CASE proactiveAttachmentEvidence
  <2>1. CASE StartServerCall("attachment_search", "attachment")
    <3>1. Starts("attachment_search")
      BY <1>0, <2>1, CallsAre DEF StartServerCall, Starts, OrderPart
    <3> QED
      BY <1>3, <2>1, <3>1 DEF StartServerCall, OrderPart, BeforeWeb
  <2>2. CASE StartServerCall("attachment_open", "attachment_open")
    <3>1. Starts("attachment_open")
      BY <1>0, <2>2, CallsAre DEF StartServerCall, Starts, OrderPart
    <3> QED
      BY <1>3, <2>2, <3>1 DEF StartServerCall, OrderPart, BeforeWeb
  <2>3. CASE /\ pc' = "web" /\ UNCHANGED <<toolVars, n, ask>>
             /\ pc \in {"attachment", "attachment_open"}
    BY <2>3 DEF OrderPart, BeforeWeb, Searching, Serving
  <2> QED
    BY <1>6, <2>1, <2>2, <2>3 DEF proactiveAttachmentEvidence
<1>7. CASE WebReserve
  <2>1. pc = "web" /\ BeforeWeb
    BY <1>7 DEF WebReserve, BeforeWeb
  <2>2. CASE pc' = "web_commit" /\ UNCHANGED <<toolVars, n, ask>>
    BY <2>1, <2>2 DEF OrderPart, BeforeWeb, Searching, Serving
  <2>3. CASE webDone("quota_exhausted", FALSE) /\ n' = counted
    BY <1>2, <2>1, <2>3
  <2> QED
    BY <1>4, <1>7, <2>2, <2>3 DEF WebReserve, Afterwards
<1>8. CASE WebCommit
  <2>1. CASE pc' = "web_discovery"
    BY <1>8, <2>1 DEF WebCommit, OrderPart, BeforeWeb, Searching, Serving
  <2> QED
    BY <1>4, <1>8, <2>1 DEF WebCommit, Afterwards
<1>9. CASE WebLinkBinding
  <2>1. tool' = [tool EXCEPT !["web_link"] = [name |-> "web_link_binding", state |-> "recording",
                                             sequence |-> n.sequence + 1]]
        /\ pc' = "server_call"
    BY <1>9 DEF WebLinkBinding
  <2>2. \A d \in AllCalls : d # "web_link" => tool'[d] = tool[d] /\ tool'[d].state \notin Busy
    BY <1>0, <1>9, <2>1 DEF WebLinkBinding, Quiet, Types, CallTypes
  <2> QED
    BY <1>1, <2>1, <2>2 DEF OrderPart, BeforeWeb, Searching, Serving
<1>10. CASE webBudgetRefused
  <2>1. n'.calls = counted.calls /\ n'.sequence = counted.sequence
    BY <1>10 DEF webBudgetRefused, counted, Types, CountTypes, Counters
  <2> QED
    BY <1>2, <1>10, <2>1 DEF webBudgetRefused, Searching
<1>11. CASE requestModel
  <2>1. CASE pc' = "stream"
    <3>1. PICK p : p = (CASE pc = "ask" -> "answer" [] pc = "web_discovery" -> "web" [] OTHER -> pc)
      OBVIOUS
    <3>2. StartRequest(p, FALSE, Asking(p)) /\ pc \in {"ask", "web_discovery", "repair", "regenerate"}
      BY <1>11, <3>1 DEF requestModel
    <3>3. ask' = [Asking(p) EXCEPT !.retry = FALSE]
      BY <2>1, <3>2 DEF StartRequest
    <3>4. ask'.purpose = p
      BY <3>3 DEF Asking
    <3>5. ask'.purpose = "web" => pc = "web_discovery"
      BY <3>1, <3>2, <3>4
    <3> QED
      BY <1>11, <2>1, <3>5 DEF requestModel, OrderPart, BeforeWeb, Searching, Serving
  <2> QED
    BY <1>4, <1>11, <2>1 DEF requestModel, StartRequest, Afterwards
<1>12. CASE RequestRetry
  <2>1. CASE pc' = "stream"
    <3>1. ask' = [ask EXCEPT !.retry = TRUE] /\ pc = "retry"
      BY <1>12, <2>1 DEF RequestRetry, StartRequest
    <3>2. ask'.purpose = ask.purpose
      BY <3>1 DEF Types, ModelTypes, ModelRequest
    <3> QED
      BY <2>1, <3>1, <3>2 DEF OrderPart, BeforeWeb, Searching, Serving
  <2> QED
    BY <1>4, <1>12, <2>1 DEF RequestRetry, StartRequest, Afterwards
<1>13. CASE ProviderError
  <2>1. CASE ask.purpose = "web" /\ webDone("no_validated_evidence", FALSE) /\ n' = [counted EXCEPT !.breaks = @ + 1]
    <3>1. n'.calls = counted.calls /\ n'.sequence = counted.sequence
      BY <2>1 DEF counted, Types, CountTypes, Counters
    <3> QED
      BY <1>2, <1>13, <2>1, <3>1 DEF ProviderError, Searching
  <2>2. CASE pc' = "retry" /\ ask.purpose # "web" /\ ask' = ask
    BY <2>2 DEF OrderPart, BeforeWeb, Searching, Serving
  <2> QED
    BY <1>4, <1>13, <2>1, <2>2 DEF ProviderError, Afterwards
<1>14. CASE WebFinish
  <2>1. pc = "stream" /\ ask.purpose = "web"
    BY <1>14 DEF WebFinish, Settled
  <2>2. ASSUME NEW failure, NEW found, webDone(failure, found), n' = counted PROVE OrderPart'
    BY <1>2, <2>1, <2>2 DEF Searching
  <2> QED
    BY <1>4, <1>14, <2>2 DEF WebFinish, Afterwards
<1>15. CASE SettleBreaks
  <2>1. CASE ask.purpose = "web" /\ webDone("no_validated_evidence", FALSE) /\ n' = counted
    BY <1>2, <1>15, <2>1 DEF SettleBreaks, Searching
  <2> QED
    BY <1>4, <1>15, <2>1 DEF SettleBreaks, Afterwards
<1>16. CASE AbortSeen \/ WebSkip \/ ModelText \/ ModelFailed \/ ModelUnauthorized \/ ModelCutOff \/ ModelCalls \/ RepairFinish
  BY <1>4, <1>16 DEF Afterwards, AbortSeen, WebSkip, ModelText, ModelFailed, ModelUnauthorized, ModelCutOff, ModelCalls, RepairFinish
<1>17. CASE executeToolCalls \/ NextBatch \/ EndRound \/ persistAndPublishFinalAnswer
  BY <1>4, <1>17 DEF Afterwards, executeToolCalls, NextBatch, EndRound, persistAndPublishFinalAnswer
<1>18. CASE validateOrRepair
  BY <1>4, <1>18 DEF Afterwards, validateOrRepair, Conclude, WithWebFallback, Repair
<1>19. ASSUME NEW c \in AllCalls, ToolReturns(c) \/ ToolTimesOut(c) PROVE OrderPart'
  <2>1. Moved(c, "recording") /\ tool[c].state = "running" /\ UNCHANGED <<pc, seen, ask>>
    BY <1>19, RecordingIs DEF ToolReturns, ToolTimesOut
  <2>2. \A d \in AllCalls : (tool'[d].state \in Busy <=> tool[d].state \in Busy) /\ (tool'[d].state = "none" <=> tool[d].state = "none")
    BY <2>1 DEF Moved, Busy
  <2>3. n'.requests = n.requests
    BY <1>19 DEF ToolReturns, ToolTimesOut, Recording, Types, CountTypes, Counters
  <2> QED
    BY <1>1, <2>1, <2>2, <2>3 DEF OrderPart, BeforeWeb, Searching, Serving
<1>20. ASSUME NEW c \in AllCalls, Recorded(c) PROVE OrderPart'
  <2>1. Moved(c, "done") /\ tool[c].state = "recording" /\ UNCHANGED <<seen, ask, n>>
    BY <1>20, EndsIs DEF Recorded
  <2>2. \A d \in AllCalls : d # c => tool'[d] = tool[d]
    BY <2>1 DEF Moved
  <2>3. CASE outcome # "running" \/ pc' = "done"
    BY <1>4, <1>20, <2>3 DEF Recorded, Afterwards, Types, RunTypes
  <2>4. CASE outcome = "running" /\ pc' # "done"
    <3>1. pc' = AfterServerCall(c) /\ pc \in {"server_call", "batch_call"}
      BY <1>20, <2>1, <2>4 DEF Recorded, WaitPart, Busy
    <3>2. CASE c \in Calls
      <4>1. pc = "batch_call"
        BY <2>1, <3>1, <3>2 DEF WaitPart, Busy
      <4> QED
        BY <1>4, <3>1, <3>2, <4>1, CallsAre DEF AfterServerCall, Afterwards
    <3>3. CASE c \in ServerCalls
      <4>1. Serving(c)
        BY <2>1, <3>1, <3>3 DEF WaitPart, Busy, Serving
      <4>2. CASE c = "knowledge"
        <5>1. pc' = "attachment"
          BY <3>1, <4>2 DEF AfterServerCall
        <5> QED
          BY <1>1, <2>1, <2>2, <4>1, <4>2, <5>1 DEF OrderPart, BeforeWeb, Searching, Serving
      <4>3. CASE c = "attachment_search"
        <5>1. pc' \in {"attachment_open", "web"}
          BY <3>1, <4>3 DEF AfterServerCall
        <5> QED
          BY <1>1, <2>1, <2>2, <4>1, <4>3, <5>1 DEF OrderPart, BeforeWeb, Searching, Serving
      <4>4. CASE c = "attachment_open"
        <5>1. pc' = "web"
          BY <3>1, <4>4 DEF AfterServerCall
        <5> QED
          BY <1>1, <2>1, <2>2, <4>1, <4>4, <5>1 DEF OrderPart, BeforeWeb, Searching, Serving
      <4>5. CASE c = "web" /\ pc' = "web_link"
        BY <1>1, <2>1, <2>2, <4>1, <4>5 DEF OrderPart, BeforeWeb, Searching, Serving
      <4>6. CASE c \in {"web", "web_link"} /\ pc' # "web_link"
        BY <1>4, <3>1, <4>6 DEF AfterServerCall, Afterwards
      <4> QED
        BY <3>1, <3>3, <4>2, <4>3, <4>4, <4>5, <4>6, CallsAre DEF AfterServerCall
    <3> QED
      BY <3>2, <3>3, CallsAre
  <2> QED
    BY <2>3, <2>4
<1>21. CASE \E c \in AllCalls : RecordFails(c)
  BY <1>4, <1>21 DEF RecordFails, Afterwards, Types, RunTypes
<1>22. CASE (\E c \in AllCalls : LateReturn(c)) \/ Abort \/ Over \/ UNCHANGED vars
  BY <1>22 DEF LateReturn, Abort, Over, vars, OrderPart, BeforeWeb, Searching, Serving
<1> QED
  BY <1>5, <1>6, <1>7, <1>8, <1>9, <1>10, <1>11, <1>12, <1>13, <1>14, <1>15, <1>16, <1>17, <1>18, <1>19, <1>20, <1>21, <1>22 DEF Next
-----------------------------------------------------------------------------
(* The account of the calls.                                                *)

Done(c) == tool[c].state = "done"
Row(c) == [call |-> c, sequence |-> tool[c].sequence]

LEMMA DoneRows == Accounted <=>
    /\ \A c \in Numbered : tool[c].sequence \in 1..n.sequence
    /\ \A c, d \in Numbered : tool[c].sequence = tool[d].sequence => c = d
    /\ \A i \in 1..n.sequence : \E c \in Numbered : tool[c].sequence = i
    /\ \A r : r \in records <=> \E c \in AllCalls : Done(c) /\ r = Row(c)
    /\ IsFiniteSet(Counted) /\ n.calls = Cardinality(Counted)
BY DEF Accounted, Done, Row

\* A step that numbers no call and whose count follows keeps the account.
LEMMA SameAccount ==
    ASSUME Accounted, Numbered' = Numbered, \A c \in Numbered : tool'[c].sequence = tool[c].sequence,
           \A c \in AllCalls : Done(c)' <=> Done(c), records' = records, n'.sequence = n.sequence,
           IsFiniteSet(Counted'), n'.calls = Cardinality(Counted')
    PROVE  Accounted'
<1>1. \A c \in AllCalls : Done(c) => c \in Numbered
  BY DEF Done, Numbered
<1>2. \A c \in AllCalls : Done(c) => Row(c)' = Row(c)
  BY <1>1 DEF Row
<1>3. records' = {[call |-> c, sequence |-> tool'[c].sequence] : c \in {d \in AllCalls : tool'[d].state = "done"}}
  <2>1. \A r : r \in records <=> \E c \in AllCalls : Done(c) /\ r = Row(c)
    BY DoneRows
  <2>2. \A r : r \in records' <=> \E c \in AllCalls : Done(c)' /\ r = Row(c)'
    BY <1>2, <2>1
  <2> QED
    BY <2>2 DEF Done, Row
<1>4. \A c \in Numbered' : tool'[c].sequence \in 1..n'.sequence
  BY DEF Accounted
<1>5. \A c, d \in Numbered' : tool'[c].sequence = tool'[d].sequence => c = d
  BY DEF Accounted
<1>6. \A i \in 1..n'.sequence : \E c \in Numbered' : tool'[c].sequence = i
  BY DEF Accounted
<1> QED
  BY <1>3, <1>4, <1>5, <1>6 DEF Accounted

\* The next number goes to one call that had none.
LEMMA NumberedOnce ==
    ASSUME Types, Accounted, NEW c \in AllCalls, Moved(c, "recording"), tool[c].state \in {"none", "running"},
           tool'[c].sequence = n.sequence + 1, n'.sequence = n.sequence + 1, records' = records,
           n'.calls = n.calls + IF c \in ServerCalls \ {"web_link"} THEN 1 ELSE 0,
           c \in Calls => tool[c].state = "running"
    PROVE  Accounted'
<1>0. n.sequence \in Nat /\ n.calls \in Nat
  BY DEF Types, CountTypes, Counters
<1>1. c \notin Numbered /\ Numbered' = Numbered \cup {c}
  BY DEF Moved, Numbered
<1>2. \A d \in Numbered : d # c /\ tool'[d] = tool[d]
  BY <1>1 DEF Moved, Numbered
<1>3. \A d \in Numbered' : tool'[d].sequence \in 1..n'.sequence
  BY <1>0, <1>1, <1>2 DEF Accounted
<1>4. \A d, e \in Numbered' : tool'[d].sequence = tool'[e].sequence => d = e
  BY <1>0, <1>1, <1>2 DEF Accounted
<1>5. \A i \in 1..n'.sequence : \E d \in Numbered' : tool'[d].sequence = i
  <2> SUFFICES ASSUME NEW i \in 1..n'.sequence PROVE \E d \in Numbered' : tool'[d].sequence = i
    OBVIOUS
  <2>1. CASE i = n.sequence + 1
    BY <1>1, <2>1
  <2>2. CASE i # n.sequence + 1
    <3>1. i \in 1..n.sequence
      BY <1>0, <2>2
    <3>2. PICK d \in Numbered : tool[d].sequence = i
      BY <3>1 DEF Accounted
    <3> QED
      BY <1>1, <1>2, <3>2
  <2> QED
    BY <2>1, <2>2
<1>6. {d \in AllCalls : tool'[d].state = "done"} = {d \in AllCalls : tool[d].state = "done"}
  BY DEF Moved
<1>7. \A d \in {e \in AllCalls : tool[e].state = "done"} : tool'[d] = tool[d]
  BY <1>2 DEF Numbered
<1>8. records' = {[call |-> d, sequence |-> tool'[d].sequence] : d \in {e \in AllCalls : tool'[e].state = "done"}}
  BY <1>6, <1>7 DEF Accounted
<1>9. IsFiniteSet(Counted') /\ n'.calls = Cardinality(Counted')
  <2>1. IsFiniteSet(Counted) /\ n.calls = Cardinality(Counted)
    BY DEF Accounted
  <2>2. CASE c \in ServerCalls \ {"web_link"}
    <3>1. c \notin Counted /\ Counted' = Counted \cup {c}
      BY <2>2, CallsAre DEF Counted, Moved
    <3> QED
      BY <2>1, <2>2, <3>1, FS_AddElement
  <2>3. CASE c \notin ServerCalls \ {"web_link"}
    <3>1. Counted' = Counted
      BY <2>3, CallsAre DEF Counted, Moved
    <3> QED
      BY <1>0, <2>1, <2>3, <3>1
  <2> QED
    BY <2>2, <2>3
<1> QED
  BY <1>3, <1>4, <1>5, <1>8, <1>9 DEF Accounted

\* The calls of a batch are as many as the new ids it takes.
LEMMA BatchCounts ==
    ASSUME Types, WaitPart, executeToolCalls, IsFiniteSet(Counted), n.calls = Cardinality(Counted)
    PROVE  IsFiniteSet(Counted') /\ n'.calls = Cardinality(Counted')
<1> DEFINE Started == {todo[i].id : i \in Runs}
<1>1. IsFiniteSet(Runs)
  <2>1. Runs \subseteq 1..Take /\ Take \in Int
    BY BatchIs
  <2>2. IsFiniteSet(1..Take)
    BY <2>1, FS_Interval
  <2> QED
    BY <2>1, <2>2, FS_Subset
<1>2. ExistsBijection(Runs, Started)
  <2> DEFINE f == [i \in Runs |-> todo[i].id]
  <2>1. f \in [Runs -> Started]
    OBVIOUS
  <2>2. \A i, j \in Runs : f[i] = f[j] => i = j
    BY BatchIs
  <2>3. \A c \in Started : \E i \in Runs : f[i] = c
    OBVIOUS
  <2>4. f \in Bijection(Runs, Started)
    BY <2>1, <2>2, <2>3 DEF Bijection, Injection, Surjection, IsInjective
  <2> QED
    BY <2>4 DEF ExistsBijection
<1>3. IsFiniteSet(Started) /\ Cardinality(Started) = Cardinality(Runs)
  BY <1>1, <1>2, FS_Bijection
<1>4. \A c \in Started : c \in Calls /\ tool[c].state = "none" /\ tool'[c].state = "running"
  <2> SUFFICES ASSUME NEW i \in Runs PROVE todo[i].id \in Calls /\ tool[todo[i].id].state = "none" /\ tool'[todo[i].id].state = "running"
    OBVIOUS
  <2>1. tool'[todo[i].id] = [name |-> todo[i].name, state |-> "running", sequence |-> 0] /\ todo[i].id \in Calls
        /\ todo[i].id \notin seen
    BY BatchIs DEF Call
  <2> QED
    BY <2>1 DEF WaitPart
<1>5. \A c \in AllCalls : c \notin Started => tool'[c] = tool[c]
  BY BatchIs
<1>6. Counted' = Counted \cup Started /\ Counted \cap Started = {}
  <2>1. \A c \in AllCalls : c \in Started => c \in Counted' /\ c \notin Counted
    BY <1>4, CallsAre DEF Counted
  <2>2. \A c \in AllCalls : c \notin Started => (c \in Counted' <=> c \in Counted)
    BY <1>5 DEF Counted
  <2>3. Counted \subseteq AllCalls /\ Counted' \subseteq AllCalls /\ Started \subseteq AllCalls
    BY <1>4, CallsAre DEF Counted
  <2> QED
    BY <2>1, <2>2, <2>3
<1>7. Cardinality(Counted \cup Started) = Cardinality(Counted) + Cardinality(Started) /\ IsFiniteSet(Counted \cup Started)
  <2>1. Cardinality(Counted \cap Started) = 0
    BY <1>6, FS_EmptySet
  <2>2. Cardinality(Counted) \in Nat /\ Cardinality(Started) \in Nat
    BY <1>3, FS_CardinalityType
  <2> QED
    <3>1. PICK S, T : S = Counted /\ T = Started
      OBVIOUS
    <3>2. IsFiniteSet(S) /\ IsFiniteSet(T) /\ Cardinality(S \cap T) = 0 /\ Cardinality(S) \in Nat /\ Cardinality(T) \in Nat
      BY <1>3, <2>1, <2>2, <3>1
    <3>3. IsFiniteSet(S \cup T) /\ Cardinality(S \cup T) = Cardinality(S) + Cardinality(T) - Cardinality(S \cap T)
      BY <3>2, FS_Union
    <3> QED
      BY <3>1, <3>2, <3>3
<1>8. n'.calls = n.calls + Cardinality(Runs)
  BY BatchIs
<1> QED
  BY <1>3, <1>6, <1>7, <1>8

LEMMA AccountStep == Types /\ WaitPart /\ OrderPart /\ AccountPart /\ [Next]_vars => AccountPart'
<1> SUFFICES ASSUME Types, WaitPart, OrderPart, AccountPart, [Next]_vars, outcome' # "failed" PROVE Accounted'
  BY DEF AccountPart
<1>1. ASSUME UNCHANGED <<tool, records>>, n'.calls = n.calls, n'.sequence = n.sequence, outcome # "failed" PROVE Accounted'
  BY <1>1 DEF AccountPart, Accounted, Numbered, Counted
<1>2. CASE Advance
  BY <1>1, <1>2 DEF Advance
<1>3. CASE Same \/ NextBatch \/ EndRound
  BY <1>1, <1>3 DEF Same, NextBatch, EndRound, Types, RunTypes
<1>4. ASSUME NEW c \in AllCalls, Starts(c) PROVE Accounted'
  <2>1. Moved(c, "running") /\ Accounted /\ UNCHANGED <<records, n>> /\ c \notin Calls /\ tool[c].state = "none"
    BY <1>4, StartsIs, CallsAre DEF Starts, AccountPart
  <2>2. Numbered' = Numbered /\ Counted' = Counted
    BY <2>1 DEF Moved, Numbered, Counted
  <2>3. \A d \in Numbered : tool'[d].sequence = tool[d].sequence
    BY <2>1 DEF Moved, Numbered
  <2>4. \A d \in AllCalls : Done(d)' <=> Done(d)
    BY <2>1 DEF Moved, Done
  <2> QED
    BY <2>1, <2>2, <2>3, <2>4, SameAccount DEF Accounted
<1>5. ASSUME NEW c \in AllCalls, Answers(c) PROVE Accounted'
  <2>1. Moved(c, "recording") /\ tool'[c].sequence = n.sequence + 1 /\ c \in {"web", "web_link"} /\ c \notin Calls
    BY <1>5, AnswersIs, CallsAre DEF Answers
  <2>2. n'.calls = n.calls + IF c \in ServerCalls \ {"web_link"} THEN 1 ELSE 0
    BY <1>5, <2>1, CallsAre DEF Answers
  <2> QED
    BY <1>5, <2>1, <2>2, NumberedOnce DEF Answers, AccountPart
<1>6. ASSUME NEW c \in AllCalls, ToolReturns(c) \/ ToolTimesOut(c) PROVE Accounted'
  <2>1. Recording(c) /\ records' = records /\ tool[c].state = "running" /\ outcome # "failed"
    BY <1>6 DEF ToolReturns, ToolTimesOut
  <2> QED
    BY <2>1, RecordingIs, NumberedOnce DEF AccountPart
<1>7. CASE executeToolCalls
  <2>1. Accounted /\ records' = records
    BY <1>7 DEF executeToolCalls, AccountPart
  <2>2. \A c \in AllCalls : tool'[c] = tool[c] \/ (tool[c].state = "none" /\ tool'[c].state = "running")
    <3> SUFFICES ASSUME NEW c \in AllCalls, tool'[c] # tool[c] PROVE tool[c].state = "none" /\ tool'[c].state = "running"
      OBVIOUS
    <3>1. PICK i \in Runs : todo[i].id = c
      BY <1>7, BatchIs
    <3>2. tool'[todo[i].id] = [name |-> todo[i].name, state |-> "running", sequence |-> 0] /\ todo[i].id \in Calls
          /\ todo[i].id \notin seen
      BY <1>7, BatchIs DEF Call
    <3> QED
      BY <3>1, <3>2 DEF WaitPart
  <2>3. Numbered' = Numbered /\ \A c \in Numbered : tool'[c].sequence = tool[c].sequence
    BY <2>2 DEF Numbered
  <2>4. \A c \in AllCalls : Done(c)' <=> Done(c)
    BY <2>2 DEF Done
  <2>5. n'.sequence = n.sequence
    BY <1>7, BatchIs
  <2>6. IsFiniteSet(Counted') /\ n'.calls = Cardinality(Counted')
    BY <1>7, <2>1, BatchCounts DEF Accounted
  <2> QED
    BY <2>1, <2>3, <2>4, <2>5, <2>6, SameAccount
<1>8. ASSUME NEW c \in AllCalls, LateReturn(c) PROVE Accounted'
  BY <1>1, <1>8 DEF LateReturn
<1>9. ASSUME NEW c \in AllCalls, Recorded(c) PROVE Accounted'
  <2>1. Moved(c, "done") /\ tool'[c].sequence = tool[c].sequence /\ tool[c].state = "recording" /\ n' = n
    BY <1>9, EndsIs DEF Recorded
  <2>2. Accounted
    BY <1>9, <2>1 DEF Recorded, AccountPart
  <2>3. \A d \in AllCalls : tool'[d].sequence = tool[d].sequence /\ (Done(d)' <=> Done(d) \/ d = c)
    BY <2>1 DEF Moved, Done
  <2>4. Numbered' = Numbered /\ Counted' = Counted
    BY <2>1 DEF Moved, Numbered, Counted
  <2>5. \A r : r \in records' <=> \E d \in AllCalls : Done(d)' /\ r = Row(d)'
    <3>1. \A r : r \in records <=> \E d \in AllCalls : Done(d) /\ r = Row(d)
      BY <2>2, DoneRows
    <3>2. records' = records \cup {Row(c)}
      BY <1>9 DEF Recorded, Row
    <3>3. \A d \in AllCalls : Row(d)' = Row(d)
      BY <2>3 DEF Row
    <3> QED
      BY <2>3, <3>1, <3>2, <3>3
  <2>6. records' = {[call |-> d, sequence |-> tool'[d].sequence] : d \in {e \in AllCalls : tool'[e].state = "done"}}
    BY <2>5 DEF Done, Row
  <2> QED
    BY <2>1, <2>2, <2>3, <2>4, <2>6 DEF Accounted, Numbered
<1>10. ASSUME NEW c \in AllCalls, RecordFails(c) PROVE Accounted'
  <2>1. outcome \notin {"running", "failed"}
    BY <1>10 DEF RecordFails, Types, RunTypes
  <2>2. tool[c].state \in Busy /\ pc = "done"
    BY <1>10, <2>1 DEF RecordFails, Busy, Types, RunTypes
  <2> QED
    BY <2>1, <2>2 DEF WaitPart
<1> QED
  BY <1>2, <1>3, <1>4, <1>5, <1>6, <1>7, <1>8, <1>9, <1>10, Kinds
-----------------------------------------------------------------------------
(* The one file.                                                            *)

\* Only a response of the model starts a file.
LEMMA AttemptedStep == [Next]_vars => ModelCalls \/ attempted' = attempted
<1> SUFFICES ASSUME [Next]_vars PROVE ModelCalls \/ attempted' = attempted
  OBVIOUS
<1>1. CASE AbortSeen \/ proactiveKnowledgeSearch \/ proactiveAttachmentEvidence \/ WebSkip \/ WebCommit \/ WebLinkBinding
  BY <1>1 DEF AbortSeen, proactiveKnowledgeSearch, proactiveAttachmentEvidence, StartServerCall, WebSkip, WebCommit, WebLinkBinding
<1>2. CASE WebReserve \/ WebFinish \/ webBudgetRefused \/ SettleBreaks \/ ProviderError
  BY <1>2 DEF WebReserve, WebFinish, webBudgetRefused, SettleBreaks, webDone, ProviderError
<1>3. CASE requestModel \/ RequestRetry \/ ModelText \/ ModelFailed \/ ModelUnauthorized \/ ModelCutOff \/ RepairFinish
  BY <1>3 DEF requestModel, RequestRetry, ModelText, ModelFailed, ModelUnauthorized, ModelCutOff, RepairFinish
<1>4. CASE executeToolCalls \/ NextBatch \/ EndRound \/ persistAndPublishFinalAnswer \/ Abort \/ validateOrRepair
  BY <1>4 DEF executeToolCalls, NextBatch, EndRound, persistAndPublishFinalAnswer, Abort, validateOrRepair
<1>5. CASE \E c \in AllCalls : ToolReturns(c) \/ ToolTimesOut(c) \/ LateReturn(c) \/ Recorded(c) \/ RecordFails(c)
  BY <1>5 DEF ToolReturns, ToolTimesOut, LateReturn, Recorded, RecordFails
<1>6. CASE Over \/ UNCHANGED vars
  BY <1>6 DEF Over, vars
<1> QED
  BY <1>1, <1>2, <1>3, <1>4, <1>5, <1>6 DEF Next

\* What a call does is fixed by the batch that starts it.
LEMMA NamesStep ==
    ASSUME Types, WaitPart, OrderPart, [Next]_vars, ~executeToolCalls
    PROVE  \A c \in Calls : tool'[c].name = tool[c].name
<1>1. ASSUME NEW c \in AllCalls, NEW state, Moved(c, state), c \notin Calls \/ tool'[c].name = tool[c].name
      PROVE  \A d \in Calls : tool'[d].name = tool[d].name
  BY <1>1, CallsAre DEF Moved
<1>2. CASE Advance \/ Same \/ NextBatch \/ EndRound
  BY <1>2 DEF Advance, Same, NextBatch, EndRound
<1>3. ASSUME NEW c \in AllCalls, Starts(c) \/ Answers(c) PROVE \A d \in Calls : tool'[d].name = tool[d].name
  <2>1. c \notin Calls /\ \E state : Moved(c, state)
    BY <1>3, StartsIs, AnswersIs, CallsAre DEF Starts, Answers
  <2> QED
    BY <1>1, <2>1
<1>4. ASSUME NEW c \in AllCalls, ToolReturns(c) \/ ToolTimesOut(c) PROVE \A d \in Calls : tool'[d].name = tool[d].name
  BY <1>1, <1>4, RecordingIs DEF ToolReturns, ToolTimesOut
<1>5. ASSUME NEW c \in AllCalls, Recorded(c) \/ RecordFails(c) PROVE \A d \in Calls : tool'[d].name = tool[d].name
  BY <1>1, <1>5, EndsIs DEF Recorded, RecordFails
<1>6. ASSUME NEW c \in AllCalls, LateReturn(c) PROVE \A d \in Calls : tool'[d].name = tool[d].name
  BY <1>6 DEF LateReturn
<1> QED
  BY <1>2, <1>3, <1>4, <1>5, <1>6, Kinds

\* A response with a file is taken when none was tried before.
LEMMA FileAsked ==
    ASSUME ModelCalls, FilePart
    PROVE  FilePart'
<1>1. CASE todo' = todo /\ attempted' = attempted
  BY <1>1 DEF ModelCalls, FilePart, Making, Waiting
<1>2. CASE ~(todo' = todo /\ attempted' = attempted)
  <2>1. PICK called \in Responses :
          LET files == {i \in DOMAIN called : called[i].name = "create_artifact"} IN
          /\ Cardinality(files) <= 1 /\ ~(files # {} /\ attempted)
          /\ attempted' = (attempted \/ files # {}) /\ todo' = called
    BY <1>2 DEF ModelCalls
  <2> DEFINE files == {i \in DOMAIN called : called[i].name = "create_artifact"}
  <2>2. \A i, j \in files : i = j
    <3>1. PICK k \in 1..MaxCallsPerResponse : called \in [1..k -> [id : Calls, name : Tools]]
      BY DEF Responses
    <3>2. files \subseteq 1..k /\ IsFiniteSet(1..k)
      BY <3>1, FS_Interval, LimitsAssumption
    <3>3. IsFiniteSet(files)
      BY <3>2, FS_Subset
    <3> SUFFICES ASSUME NEW i \in files, NEW j \in files, i # j PROVE FALSE
      OBVIOUS
    <3>4. Cardinality(files \ {i}) = Cardinality(files) - 1 /\ IsFiniteSet(files \ {i})
      BY <3>3, FS_RemoveElement
    <3>5. Cardinality(files) \in Nat /\ Cardinality(files \ {i}) \in Nat
      BY <3>3, <3>4, FS_CardinalityType
    <3>6. Cardinality(files \ {i}) = 0
      BY <2>1, <3>4, <3>5
    <3>7. files \ {i} = {}
      BY <3>4, <3>6, FS_EmptySet
    <3> QED
      BY <3>7
  <2>3. \A i \in DOMAIN todo' : Waiting(i)' <=> i \in files
    BY <2>1 DEF Waiting
  <2>4. \A c \in Calls : Making(c)' <=> Making(c)
    BY DEF ModelCalls, Making
  <2>5. DOMAIN todo' = DOMAIN called /\ attempted' = (attempted \/ files # {}) /\ (files # {} => ~attempted)
    BY <2>1
  <2>6. files # {} => \A c \in Calls : ~Making(c)
    BY <2>5 DEF FilePart
  <2>7. \A c, d \in Calls : Making(c)' /\ Making(d)' => c = d
    BY <2>4 DEF FilePart
  <2>8. \A i, j \in DOMAIN todo' : Waiting(i)' /\ Waiting(j)' => i = j
    BY <2>2, <2>3
  <2>9. \A i \in DOMAIN todo', c \in Calls : ~(Waiting(i)' /\ Making(c)')
    BY <2>3, <2>4, <2>6
  <2>10. ~attempted' => (\A c \in Calls : ~Making(c)') /\ (\A i \in DOMAIN todo' : ~Waiting(i)')
    BY <2>3, <2>4, <2>5 DEF FilePart
  <2> QED
    BY <2>7, <2>8, <2>9, <2>10 DEF FilePart
<1> QED
  BY <1>1, <1>2

\* The call of the file leaves the queue when its batch starts it.
LEMMA FileStarted ==
    ASSUME Types, executeToolCalls, FilePart
    PROVE  FilePart'
<1>1. todo \in Seq(Call) /\ DOMAIN todo = 1..Len(todo) /\ Len(todo) \in Nat /\ Take \in 0..Len(todo)
  BY BatchIs DEF Types, CallTypes
<1>2. DOMAIN todo' = 1..(Len(todo) - Take) /\ \A i \in DOMAIN todo' : todo'[i] = todo[i + Take] /\ i + Take \in DOMAIN todo
  <2>1. todo' = SubSeq(todo, Take + 1, Len(todo))
    BY BatchIs
  <2>2. PICK t : t = Take
    OBVIOUS
  <2>3. SubSeq(todo, t + 1, Len(todo)) = [i \in 1..(Len(todo) - t) |-> todo[i + t]]
    BY <1>1, <2>2
  <2> QED
    BY <1>1, <2>1, <2>2, <2>3
<1>3. \A i \in DOMAIN todo' : /\ Waiting(i)' <=> Waiting(i + Take)
                              /\ i + Take \in DOMAIN todo /\ i + Take \notin Runs
  BY <1>1, <1>2, BatchIs DEF Waiting
<1>4. \A c \in Calls : Making(c)' => Making(c) \/ \E i \in Runs : todo[i].id = c /\ Waiting(i)
  <2> SUFFICES ASSUME NEW c \in Calls, Making(c)', ~Making(c) PROVE \E i \in Runs : todo[i].id = c /\ Waiting(i)
    OBVIOUS
  <2>1. PICK i \in Runs : todo[i].id = c
    BY BatchIs, CallsAre DEF Making
  <2>2. tool'[todo[i].id] = [name |-> todo[i].name, state |-> "running", sequence |-> 0]
    BY BatchIs
  <2> QED
    BY <2>1, <2>2 DEF Making, Waiting
<1>5. Runs \subseteq DOMAIN todo /\ attempted' = attempted
  BY BatchIs DEF executeToolCalls
<1>6. \A c, d \in Calls : Making(c)' /\ Making(d)' => c = d
  BY <1>4, <1>5 DEF FilePart
<1>7. \A i, j \in DOMAIN todo' : Waiting(i)' /\ Waiting(j)' => i = j
  BY <1>1, <1>2, <1>3 DEF FilePart
<1>8. \A i \in DOMAIN todo', c \in Calls : ~(Waiting(i)' /\ Making(c)')
  BY <1>3, <1>4, <1>5 DEF FilePart
<1>9. ~attempted' => (\A c \in Calls : ~Making(c)') /\ (\A i \in DOMAIN todo' : ~Waiting(i)')
  BY <1>3, <1>4, <1>5 DEF FilePart
<1> QED
  BY <1>6, <1>7, <1>8, <1>9 DEF FilePart

LEMMA FileStep == Types /\ WaitPart /\ OrderPart /\ InvocationPart /\ FilePart /\ [Next]_vars => FilePart'
<1> SUFFICES ASSUME Types, WaitPart, OrderPart, InvocationPart, FilePart, [Next]_vars PROVE FilePart'
  OBVIOUS
<1>1. CASE ModelCalls
  BY <1>1, FileAsked
<1>2. CASE executeToolCalls
  BY <1>2, FileStarted
<1>3. CASE ~ModelCalls /\ ~executeToolCalls
  <2>1. todo' = todo /\ attempted' = attempted
    BY <1>3, TodoStep, AttemptedStep
  <2>2. \A c \in Calls : Making(c)' <=> Making(c)
    BY <1>3, NamesStep DEF Making
  <2>3. \A i \in DOMAIN todo : Waiting(i)' <=> Waiting(i)
    BY <2>1 DEF Waiting
  <2> QED
    BY <2>1, <2>2, <2>3 DEF FilePart
<1> QED
  BY <1>1, <1>2, <1>3
-----------------------------------------------------------------------------
(* The answer.                                                              *)

LEMMA CandidatesAre == \A c \in Candidates : c.by = "model"
BY DEF Candidates, ValidCandidates, Unusable

\* What validation leads to: an answer of the server's own, the candidate when it
\* rests on what a required search allows, another request, or the end.
LEMMA ValidateIs ==
    ASSUME validateOrRepair
    PROVE  \/ pc' \in {"regenerate", "repair"} /\ UNCHANGED endVars
           \/ Throw
           \/ /\ pc' = "save" /\ outcome' = outcome
              /\ \/ answer'.by \in {"scope", "calculation", "safe", "web_unavailable"}
                 \/ ~requiresWebQuotaFallback(candidate) /\ answer' = [by |-> candidate.by, basis |-> candidate.basis]
<1>1. ASSUME NEW by \in {"scope", "calculation", "safe", "web_unavailable"}, Conclude(Deterministic(by))
      PROVE  Throw \/ (pc' = "save" /\ outcome' = outcome /\ answer'.by \in {"scope", "calculation", "safe", "web_unavailable"})
  BY <1>1 DEF Conclude, Deterministic
<1>2. ASSUME WithWebFallback(candidate), ~Throw
      PROVE  /\ pc' = "save" /\ outcome' = outcome
             /\ \/ answer'.by \in {"scope", "calculation", "safe", "web_unavailable"}
                \/ ~requiresWebQuotaFallback(candidate) /\ answer' = [by |-> candidate.by, basis |-> candidate.basis]
  <2>1. CASE requiresWebQuotaFallback(candidate)
    BY <1>1, <1>2, <2>1 DEF WithWebFallback
  <2>2. CASE ~requiresWebQuotaFallback(candidate)
    <3>1. Conclude(candidate)
      BY <1>2, <2>2 DEF WithWebFallback
    <3> QED
      BY <1>2, <2>2, <3>1 DEF Conclude, Deterministic
  <2> QED
    BY <2>1, <2>2
<1>3. \/ \E label \in {"regenerate", "repair"} : Repair(label)
      \/ \E by \in {"scope", "calculation", "safe", "web_unavailable"} : Conclude(Deterministic(by))
      \/ Throw
      \/ WithWebFallback(candidate)
  BY DEF validateOrRepair
<1>4. ASSUME NEW label \in {"regenerate", "repair"}, Repair(label) PROVE pc' \in {"regenerate", "repair"} /\ UNCHANGED endVars
  BY <1>4 DEF Repair
<1> QED
  BY <1>1, <1>2, <1>3, <1>4

\* A call that is under way keeps the run from its answer.
LEMMA CallsUnderWay ==
    ASSUME Types, WaitPart, AnswerPart, NEW c \in AllCalls, tool[c].state \in Busy
    PROVE  answer = NoAnswer /\ pc # "validate"
BY DEF WaitPart, AnswerPart, Types, RunTypes

LEMMA AnswerStep == Types /\ WaitPart /\ OrderPart /\ AnswerPart /\ [Next]_vars => AnswerPart'
<1> SUFFICES ASSUME Types, WaitPart, OrderPart, AnswerPart, [Next]_vars PROVE AnswerPart'
  OBVIOUS
<1>1. ASSUME pc \notin {"save", "done"}, pc' # "validate", UNCHANGED <<answer, outcome>> PROVE AnswerPart'
  BY <1>1 DEF AnswerPart, NoAnswer
<1>2. ASSUME Throw PROVE AnswerPart'
  BY <1>2 DEF AnswerPart, NoAnswer
<1>3. ASSUME pc \notin {"save", "done"}, pc' = "validate", UNCHANGED <<answer, outcome>>,
             candidate'.by = "artifact" => artifact' = "ready"
      PROVE  AnswerPart'
  BY <1>3 DEF AnswerPart, NoAnswer
<1>4. CASE AbortSeen \/ proactiveKnowledgeSearch \/ proactiveAttachmentEvidence \/ WebSkip \/ WebLinkBinding
  BY <1>1, <1>2, <1>4 DEF AbortSeen, proactiveKnowledgeSearch, proactiveAttachmentEvidence, StartServerCall, WebSkip, WebLinkBinding
<1>5. CASE WebCommit \/ WebReserve \/ webBudgetRefused
  BY <1>1, <1>2, <1>5 DEF WebReserve, webBudgetRefused, WebCommit, webDone
<1>6. CASE requestModel \/ RequestRetry
  BY <1>1, <1>2, <1>6 DEF requestModel, RequestRetry, StartRequest
<1>7. CASE WebFinish \/ SettleBreaks
  BY <1>1, <1>2, <1>7 DEF WebFinish, SettleBreaks, Settled, webDone
<1>8. CASE ProviderError
  BY <1>1, <1>2, <1>3, <1>8 DEF ProviderError, webDone
<1>9. CASE ModelText
  BY <1>2, <1>3, <1>9, CandidatesAre DEF ModelText, Settled
<1>10. CASE ModelFailed
  BY <1>2, <1>3, <1>10 DEF ModelFailed, Settled
<1>11. CASE ModelUnauthorized \/ ModelCalls
  BY <1>1, <1>2, <1>11 DEF ModelUnauthorized, ModelCalls, Settled
<1>12. CASE ModelCutOff
  BY <1>3, <1>12, CandidatesAre DEF ModelCutOff, Settled
<1>13. CASE RepairFinish
  <2>1. candidate'.by = "model" /\ pc = "stream" /\ pc' = "validate" /\ UNCHANGED <<answer, outcome>>
    BY <1>13, CandidatesAre DEF RepairFinish, Settled, Unusable
  <2> QED
    BY <1>3, <2>1
<1>14. CASE executeToolCalls \/ NextBatch
  BY <1>1, <1>14 DEF executeToolCalls, NextBatch
<1>15. CASE EndRound
  <2>1. CASE pc' = "validate"
    BY <1>3, <1>15, <2>1 DEF EndRound, fileReady
  <2> QED
    BY <1>1, <1>2, <1>15, <2>1 DEF EndRound
<1>16. CASE validateOrRepair
  <2>1. pc = "validate" /\ artifact' = artifact
    BY <1>16 DEF validateOrRepair
  <2>2. CASE pc' = "save" /\ outcome' = outcome
    <3>1. answer'.by = "artifact" => candidate.by = "artifact"
      BY <1>16, <2>2, ValidateIs
    <3> QED
      BY <2>1, <2>2, <3>1 DEF AnswerPart, Types, RunTypes
  <2> QED
    BY <1>1, <1>2, <1>16, <2>1, <2>2, ValidateIs
<1>17. CASE persistAndPublishFinalAnswer
  <2>1. CASE Throw
    BY <1>2, <2>1
  <2>2. CASE pc = "save" /\ pc' = "done" /\ outcome' # "failed" /\ UNCHANGED <<answer, artifact>>
    BY <2>2 DEF AnswerPart
  <2> QED
    BY <1>17, <2>1, <2>2 DEF persistAndPublishFinalAnswer
<1>18. ASSUME NEW c \in AllCalls, ToolReturns(c) \/ ToolTimesOut(c) PROVE AnswerPart'
  <2>1. answer = NoAnswer /\ pc # "validate" /\ UNCHANGED <<answer, outcome, pc>>
    BY <1>18, CallsUnderWay DEF ToolReturns, ToolTimesOut, Busy
  <2> QED
    BY <2>1 DEF AnswerPart, NoAnswer
<1>19. ASSUME NEW c \in AllCalls, Recorded(c) \/ RecordFails(c) PROVE AnswerPart'
  <2>1. answer = NoAnswer /\ pc # "validate"
    BY <1>19, CallsUnderWay DEF Recorded, RecordFails, Busy
  <2>2. answer' = NoAnswer /\ pc' # "validate"
    BY <1>19, <2>1 DEF Recorded, RecordFails, AfterServerCall
  <2> QED
    BY <2>2 DEF AnswerPart, NoAnswer
<1>20. CASE (\E c \in AllCalls : LateReturn(c)) \/ Abort \/ Over \/ UNCHANGED vars
  BY <1>20 DEF LateReturn, Abort, Over, vars, AnswerPart
<1> QED
  BY <1>4, <1>5, <1>6, <1>7, <1>8, <1>9, <1>10, <1>11, <1>12, <1>13, <1>14, <1>15, <1>16, <1>17, <1>18, <1>19, <1>20 DEF Next
-----------------------------------------------------------------------------
(* The web search.                                                          *)

\* Before the search only the server's own calls have been counted.
LEMMA EarlyCalls ==
    ASSUME Types, WaitPart, OrderPart, AccountPart, pc = "web"
    PROVE  n.calls < MAX_TOOL_CALLS
<1>1. PICK E : E = {"knowledge", "attachment_search", "attachment_open"}
  OBVIOUS
<1>2. IsFiniteSet(E) /\ Cardinality(E) <= 3
  <2>1. PICK A : A = {"knowledge"}
    OBVIOUS
  <2>2. PICK B : B = A \cup {"attachment_search"}
    OBVIOUS
  <2>3. IsFiniteSet(A) /\ Cardinality(A) = 1
    BY <2>1, FS_Singleton
  <2>4. IsFiniteSet(B) /\ Cardinality(B) \in {1, 2}
    BY <2>2, <2>3, FS_AddElement
  <2>5. E = B \cup {"attachment_open"}
    BY <1>1, <2>1, <2>2
  <2> QED
    BY <2>4, <2>5, FS_AddElement
<1>3. Counted \subseteq E
  <2>1. BeforeWeb
    BY DEF BeforeWeb
  <2> QED
    BY <1>1, <2>1, CallsAre DEF Counted, OrderPart, WaitPart
<1>4. n.calls = Cardinality(Counted)
  BY DEF AccountPart, Accounted, Types, RunTypes
<1>5. Cardinality(Counted) <= Cardinality(E) /\ Cardinality(Counted) \in Nat /\ Cardinality(E) \in Nat
  BY <1>2, <1>3, FS_Subset, FS_CardinalityType
<1> QED
  BY <1>2, <1>4, <1>5, LimitsAssumption

\* The web is not left out when it is required.
LEMMA SkipIsOptional ==
    ASSUME Types, WaitPart, OrderPart, AccountPart, WebSkip
    PROVE  ~webRequired
BY EarlyCalls DEF WebSkip, shouldUseWeb

SameWeb == UNCHANGED <<request, webLease, webFailure>> /\ ("web" \in evidence' <=> "web" \in evidence)

LEMMA WebStep == IInv /\ [Next]_vars => WebPart'
<1> SUFFICES ASSUME IInv, Types, WaitPart, OrderPart, AccountPart, AnswerPart, WebPart, [Next]_vars PROVE WebPart'
  BY DEF IInv
<1>0. pc \notin {"server_call", "batch_call", "done"} => outcome = "running" /\ Quiet
  BY DEF WaitPart, Quiet, Types, RunTypes
<1>1. {"knowledge", "attachment_search", "attachment_open", "web", "web_link"} \subseteq AllCalls
  BY CallsAre
<1>2. pc' \in Afterwards => ~BeforeWeb' /\ ~Searching'
  BY AfterwardsIs
\* A step after the search.
<1>3. ASSUME ~BeforeWeb, ~Searching, ~BeforeWeb', ~Searching', SameWeb, ask'.purpose = "web" => ask.purpose = "web",
             answer' = answer \/ answer'.by \notin {"model", "artifact"},
             outcome = "failed" => outcome' = "failed"
      PROVE  WebPart'
  BY <1>3 DEF WebPart, SameWeb, webRequired, BeforeWeb
\* The end of the run.
<1>4. ASSUME Throw, request' = request, "web" \in evidence' \/ ask'.purpose = "web" => webLease' = "committed"
      PROVE  WebPart'
  BY <1>2, <1>4 DEF WebPart, NoAnswer, Afterwards
\* A step before the search.
<1>5. ASSUME BeforeWeb, BeforeWeb', pc # "web_commit", pc' # "web_commit", pc' \notin {"web_discovery", "stream"},
             SameWeb, UNCHANGED <<ask, answer>>
      PROVE  WebPart'
  BY <1>5 DEF WebPart, SameWeb, webRequired, Searching
\* A step that leaves the run where it is.
<1>6. ASSUME UNCHANGED <<pc, outcome, answer, ask>>, SameWeb, \A c \in AllCalls : tool'[c].state \in Busy <=> tool[c].state \in Busy
      PROVE  WebPart'
  <2>1. BeforeWeb' <=> BeforeWeb
    BY <1>1, <1>6 DEF BeforeWeb, Serving
  <2>2. Searching' <=> Searching
    BY <1>6 DEF Searching
  <2> QED
    BY <1>6, <2>1, <2>2 DEF WebPart, SameWeb, webRequired
\* The search is recorded.
<1>7. ASSUME NEW failure, NEW found \in BOOLEAN, webDone(failure, found), n'.calls = counted.calls, n'.sequence = counted.sequence,
             pc = "web" \/ Searching, UNCHANGED <<ask, webLease>>,
             failure = "none" => found, found => webLease = "committed"
      PROVE  WebPart'
  <2>1. (BeforeWeb \/ Searching) /\ pc \in {"web", "web_discovery", "stream"}
    BY <1>7 DEF BeforeWeb, Searching
  <2>2. Answers("web")
    BY <1>0, <1>7, <2>1, WebAnswers DEF OrderPart, Types, Searching
  <2>3. ~BeforeWeb' /\ ~Searching'
    BY <1>1, <2>1, <2>2, SearchRecorded
  <2>4. request' = request /\ webFailure' = failure /\ answer' = answer /\ outcome' = outcome
        /\ ("web" \in evidence' <=> "web" \in evidence \/ found)
    BY <1>7 DEF webDone
  <2>5. answer = NoAnswer
    BY <1>7, <1>0 DEF AnswerPart, Searching
  <2>6. "web" \notin evidence /\ webLease # "reserved"
    BY <1>7 DEF WebPart, BeforeWeb
  <2>7. ask.purpose = "web" => webLease = "committed"
    BY DEF WebPart
  <2> QED
    BY <1>7, <2>3, <2>4, <2>5, <2>6, <2>7 DEF WebPart, webRequired, NoAnswer
<1>8. CASE AbortSeen
  <2>1. "web" \in evidence' \/ ask'.purpose = "web" => webLease' = "committed"
    BY <1>8 DEF AbortSeen, WebPart
  <2> QED
    BY <1>4, <1>8, <2>1 DEF AbortSeen
<1>9. CASE proactiveKnowledgeSearch \/ proactiveAttachmentEvidence
  <2>1. BeforeWeb /\ pc # "web_commit" /\ SameWeb /\ UNCHANGED <<ask, answer>>
    BY <1>9 DEF proactiveKnowledgeSearch, proactiveAttachmentEvidence, StartServerCall, BeforeWeb, SameWeb
  <2>2. CASE pc' = "web"
    BY <1>5, <2>1, <2>2 DEF BeforeWeb
  <2>3. ASSUME NEW c \in {"knowledge", "attachment_search", "attachment_open"}, NEW label, StartServerCall(c, label) PROVE WebPart'
    <3>1. PICK x : x = [NoTool EXCEPT !.name = ServerToolName(c), !.state = "running"]
      OBVIOUS
    <3>2. x.state = "running" /\ tool' = [tool EXCEPT ![c] = x] /\ pc' = "server_call" /\ c \in AllCalls
      BY <1>1, <2>3, <3>1 DEF StartServerCall, Executing, NoTool
    <3>3. tool'[c].state = "running"
      BY <3>2 DEF Types, CallTypes
    <3>4. BeforeWeb'
      BY <2>3, <3>2, <3>3 DEF BeforeWeb, Serving, Busy
    <3> QED
      BY <1>5, <2>1, <3>2, <3>4
  <2> QED
    BY <1>9, <2>2, <2>3 DEF proactiveKnowledgeSearch, proactiveAttachmentEvidence
<1>10. CASE WebSkip
  <2>1. ~webRequired /\ pc = "web" /\ pc' = "ask" /\ SameWeb /\ UNCHANGED <<ask, answer, outcome>>
    BY <1>10, SkipIsOptional DEF WebSkip, SameWeb
  <2>2. ~BeforeWeb' /\ ~Searching' /\ BeforeWeb
    BY <1>2, <2>1 DEF Afterwards, BeforeWeb
  <2> QED
    BY <2>1, <2>2 DEF WebPart, SameWeb, webRequired
<1>11. CASE WebReserve
  <2>1. BeforeWeb /\ pc = "web" /\ ask.purpose = "none" /\ "web" \notin evidence /\ answer = NoAnswer
    BY <1>11, <1>0 DEF WebReserve, BeforeWeb, WebPart, AnswerPart
  <2>2. CASE pc' = "web_commit" /\ webLease' = "reserved" /\ UNCHANGED <<request, ask, answer, outcome, evidence, tool>>
    <3>1. BeforeWeb' /\ ~Searching'
      BY <2>2 DEF BeforeWeb, Searching
    <3> QED
      BY <2>1, <2>2, <3>1 DEF WebPart, NoAnswer, webRequired
  <2>3. CASE webDone("quota_exhausted", FALSE) /\ n' = counted /\ UNCHANGED <<ask, webLease>>
    BY <1>7, <2>1, <2>3
  <2>4. CASE Throw /\ UNCHANGED <<request, evidence, ask>>
    BY <1>4, <2>1, <2>4
  <2> QED
    BY <1>11, <2>2, <2>3, <2>4 DEF WebReserve
<1>12. CASE WebCommit
  <2>1. BeforeWeb /\ ask.purpose = "none" /\ "web" \notin evidence /\ answer = NoAnswer /\ UNCHANGED <<request, ask, evidence>>
    BY <1>12, <1>0 DEF WebCommit, BeforeWeb, WebPart, AnswerPart
  <2>2. CASE webLease' = "committed" /\ pc' = "web_discovery" /\ UNCHANGED <<outcome, answer>>
    <3>1. Searching' /\ ~BeforeWeb'
      BY <2>2 DEF Searching, BeforeWeb, Serving
    <3> QED
      BY <2>1, <2>2, <3>1 DEF WebPart, NoAnswer
  <2>3. CASE Throw
    BY <1>4, <2>1, <2>3
  <2> QED
    BY <1>12, <2>2, <2>3 DEF WebCommit
<1>13. CASE WebLinkBinding
  <2>1. tool' = [tool EXCEPT !["web_link"] = [name |-> "web_link_binding", state |-> "recording",
                                             sequence |-> n.sequence + 1]]
        /\ pc = "web_link" /\ pc' = "server_call" /\ SameWeb /\ UNCHANGED <<ask, answer, outcome>>
    BY <1>13 DEF WebLinkBinding, SameWeb
  <2>2. \A d \in AllCalls : d # "web_link" => tool'[d].state \notin Busy
    BY <1>0, <2>1 DEF Quiet, Types, CallTypes
  <2>3. ~BeforeWeb /\ ~Searching /\ ~BeforeWeb' /\ ~Searching'
    BY <1>1, <2>1, <2>2 DEF BeforeWeb, Searching, Serving
  <2> QED
    BY <1>3, <2>1, <2>3
<1>14. CASE webBudgetRefused
  <2>1. n'.calls = counted.calls /\ n'.sequence = counted.sequence
    BY <1>14 DEF webBudgetRefused, counted, Types, CountTypes, Counters
  <2> QED
    BY <1>7, <1>14, <2>1 DEF webBudgetRefused, StartThrows, Searching
<1>15. CASE requestModel
  <2>1. PICK p : p = (CASE pc = "ask" -> "answer" [] pc = "web_discovery" -> "web" [] OTHER -> pc)
    OBVIOUS
  <2>2. StartRequest(p, FALSE, Asking(p)) /\ pc \in {"ask", "web_discovery", "repair", "regenerate"} /\ SameWeb
    BY <1>15, <2>1 DEF requestModel, SameWeb
  <2>3. CASE pc' = "stream" /\ ask' = [Asking(p) EXCEPT !.retry = FALSE] /\ UNCHANGED <<answer, outcome>>
    <3>1. ask'.purpose = p
      BY <2>3 DEF Asking
    <3>2. ~BeforeWeb'
      BY <2>3 DEF BeforeWeb, Serving
    <3>3. CASE pc = "web_discovery"
      <4>1. Searching /\ Searching'
        BY <2>1, <2>3, <3>1, <3>3 DEF Searching
      <4> QED
        BY <2>2, <2>3, <3>2, <4>1 DEF WebPart, SameWeb, webRequired
    <3>4. CASE pc # "web_discovery"
      <4>1. ~Searching /\ ~Searching' /\ ~BeforeWeb /\ ask'.purpose # "web"
        BY <2>1, <2>2, <2>3, <3>1, <3>4 DEF Searching, BeforeWeb, Serving
      <4> QED
        BY <1>3, <2>2, <2>3, <3>2, <4>1
    <3> QED
      BY <3>3, <3>4
  <2>4. CASE Throw /\ ask' = ask
    <3>1. "web" \in evidence' \/ ask'.purpose = "web" => webLease' = "committed"
      BY <2>2, <2>4 DEF WebPart, SameWeb
    <3> QED
      BY <1>4, <2>2, <2>4, <3>1 DEF SameWeb
  <2> QED
    BY <2>2, <2>3, <2>4 DEF StartRequest, StartThrows
<1>16. CASE RequestRetry
  <2>1. SameWeb /\ pc = "retry" /\ ask.purpose # "web" /\ ~BeforeWeb /\ ~Searching
    BY <1>16 DEF RequestRetry, SameWeb, OrderPart, BeforeWeb, Searching, Serving
  <2>2. CASE pc' = "stream" /\ ask' = [ask EXCEPT !.retry = TRUE] /\ UNCHANGED <<answer, outcome>>
    <3>1. ask'.purpose = ask.purpose
      BY <2>2 DEF Types, ModelTypes, ModelRequest
    <3>2. ~BeforeWeb' /\ ~Searching'
      BY <2>1, <2>2, <3>1 DEF BeforeWeb, Searching, Serving
    <3> QED
      BY <1>3, <2>1, <2>2, <3>1, <3>2
  <2>3. CASE Throw /\ ask' = ask
    <3>1. "web" \in evidence' \/ ask'.purpose = "web" => webLease' = "committed"
      BY <2>1, <2>3 DEF WebPart, SameWeb
    <3> QED
      BY <1>4, <2>1, <2>3, <3>1 DEF SameWeb
  <2> QED
    BY <1>16, <2>2, <2>3 DEF RequestRetry, StartRequest, StartThrows
\* A request that ends without a search.
<1>17. ASSUME pc = "stream", ask' = ask, ask.purpose # "web", SameWeb, answer' = answer \/ answer' = NoAnswer,
              pc' \in Afterwards \cup {"retry"}
       PROVE  WebPart'
  <2>1. ~BeforeWeb /\ ~Searching /\ ~BeforeWeb' /\ ~Searching'
    BY <1>2, <1>17 DEF BeforeWeb, Searching, Serving
  <2> QED
    BY <1>0, <1>3, <1>17, <2>1 DEF NoAnswer
\* A request for a search that ends the run.
<1>18. ASSUME ask' = ask, SameWeb, Throw PROVE WebPart'
  BY <1>4, <1>18 DEF WebPart, SameWeb
<1>19. CASE ProviderError
  <2>1. pc = "stream" /\ ask' = ask
    BY <1>19 DEF ProviderError
  <2>2. CASE ask.purpose = "web" /\ webDone("no_validated_evidence", FALSE) /\ n' = [counted EXCEPT !.breaks = @ + 1] /\ webLease' = webLease
    <3>1. n'.calls = counted.calls /\ n'.sequence = counted.sequence
      BY <2>2 DEF counted, Types, CountTypes, Counters
    <3> QED
      BY <1>7, <2>1, <2>2, <3>1 DEF Searching
  <2>3. CASE SameWeb /\ ask.purpose # "web" /\ pc' \in {"retry", "validate"} /\ answer' = answer
    BY <1>17, <2>1, <2>3 DEF Afterwards
  <2>4. CASE SameWeb /\ Throw
    BY <1>18, <2>1, <2>4
  <2> QED
    BY <1>19, <2>2, <2>3, <2>4 DEF ProviderError, SameWeb
<1>20. CASE SettleBreaks
  <2>1. pc = "stream" /\ ask' = ask
    BY <1>20 DEF SettleBreaks
  <2>2. CASE ask.purpose = "web" /\ webDone("no_validated_evidence", FALSE) /\ n' = counted /\ webLease' = webLease
    BY <1>7, <2>1, <2>2 DEF Searching
  <2> QED
    BY <1>18, <1>20, <2>1, <2>2 DEF SettleBreaks, SameWeb
<1>21. CASE WebFinish
  <2>1. pc = "stream" /\ ask' = ask /\ ask.purpose = "web" /\ webLease' = webLease /\ webLease = "committed"
    BY <1>21 DEF WebFinish, Settled, WebPart
  <2>2. ASSUME NEW found \in BOOLEAN, webDone(IF found THEN "none" ELSE "no_validated_evidence", found), n' = counted PROVE WebPart'
    <3>1. PICK failure : failure = IF found THEN "none" ELSE "no_validated_evidence"
      OBVIOUS
    <3> QED
      BY <1>7, <2>1, <2>2, <3>1 DEF Searching
  <2> QED
    BY <1>18, <1>21, <2>1, <2>2 DEF WebFinish, SameWeb
<1>22. CASE ModelText \/ ModelFailed \/ ModelUnauthorized \/ ModelCutOff \/ ModelCalls
  <2>1. pc = "stream" /\ ask' = ask /\ SameWeb /\ ask.purpose # "web" /\ (answer' = answer \/ answer' = NoAnswer)
    BY <1>22 DEF ModelText, ModelFailed, ModelUnauthorized, ModelCutOff, ModelCalls, Settled, SameWeb
  <2>2. pc' \in Afterwards
    BY <1>22 DEF ModelText, ModelFailed, ModelUnauthorized, ModelCutOff, ModelCalls, Settled, Afterwards
  <2> QED
    BY <1>17, <2>1, <2>2
<1>23. CASE RepairFinish
  BY <1>17, <1>23 DEF RepairFinish, Settled, SameWeb, Afterwards
<1>24. CASE executeToolCalls
  <2>1. pc = "batch" /\ pc' = "batch_call" /\ SameWeb /\ UNCHANGED <<ask, answer, outcome>>
    BY <1>24 DEF executeToolCalls, SameWeb
  <2> QED
    BY <1>2, <1>3, <2>1, AfterwardsIs DEF Afterwards
<1>25. CASE NextBatch \/ EndRound
  <2>1. pc = "batch_call" /\ pc' \in Afterwards /\ SameWeb /\ ask' = ask
    BY <1>25 DEF NextBatch, EndRound, SameWeb, Afterwards
  <2>2. (answer' = answer /\ outcome' = outcome) \/ Throw
    BY <1>25 DEF NextBatch, EndRound
  <2> QED
    BY <1>2, <1>3, <1>18, <2>1, <2>2, AfterwardsIs DEF Afterwards
<1>26. CASE validateOrRepair
  <2>1. pc = "validate" /\ SameWeb /\ ask' = ask
    BY <1>26 DEF validateOrRepair, SameWeb
  <2>2. ~BeforeWeb /\ ~Searching
    BY <2>1, AfterwardsIs DEF Afterwards
  <2>3. CASE pc' = "save" /\ outcome' = outcome /\ ~requiresWebQuotaFallback(candidate) /\ answer' = [by |-> candidate.by, basis |-> candidate.basis]
    <3>1. ~BeforeWeb' /\ ~Searching'
      BY <1>2, <2>3 DEF Afterwards
    <3>2. webRequired => webFailure # "none" \/ "web" \in evidence
      BY <1>0, <2>1, <2>2 DEF WebPart
    <3>3. webRequired => "web" \in evidence \/ answer'.basis \in {"currentTurn", "calculation"}
      BY <2>3, <3>2 DEF requiresWebQuotaFallback
    <3> QED
      BY <2>1, <2>2, <2>3, <3>1, <3>3 DEF WebPart, SameWeb, webRequired, BeforeWeb
  <2>4. CASE pc' = "save" /\ outcome' = outcome /\ answer'.by \in {"scope", "calculation", "safe", "web_unavailable"}
    BY <1>2, <1>3, <2>1, <2>2, <2>4 DEF Afterwards
  <2>5. CASE pc' \in {"regenerate", "repair"} /\ UNCHANGED <<answer, outcome>>
    BY <1>2, <1>3, <2>1, <2>2, <2>5 DEF Afterwards
  <2> QED
    BY <1>18, <1>26, <2>1, <2>3, <2>4, <2>5, ValidateIs
<1>27. CASE persistAndPublishFinalAnswer
  <2>1. pc = "save" /\ pc' = "done" /\ SameWeb /\ ask' = ask /\ (answer' = answer \/ answer' = NoAnswer) /\ outcome # "failed"
    BY <1>27, <1>0 DEF persistAndPublishFinalAnswer, SameWeb
  <2> QED
    BY <1>2, <1>3, <2>1, AfterwardsIs DEF Afterwards, NoAnswer
<1>28. ASSUME NEW c \in AllCalls, ToolReturns(c) \/ ToolTimesOut(c) PROVE WebPart'
  <2>1. Moved(c, "recording") /\ tool[c].state = "running" /\ UNCHANGED <<pc, outcome, answer, ask>>
    BY <1>28, RecordingIs DEF ToolReturns, ToolTimesOut
  <2>2. \A d \in AllCalls : tool'[d].state \in Busy <=> tool[d].state \in Busy
    BY <2>1 DEF Moved, Busy
  <2>3. SameWeb
    BY <1>28, <2>1 DEF ToolReturns, ToolTimesOut, Registers, SameWeb, WaitPart
  <2> QED
    BY <1>6, <2>1, <2>2, <2>3
<1>29. ASSUME NEW c \in AllCalls, LateReturn(c) PROVE WebPart'
  <2>1. SameWeb /\ UNCHANGED <<pc, outcome, answer, ask, tool>>
    BY <1>29 DEF LateReturn, SameWeb, Types, CallTypes
  <2> QED
    BY <1>6, <2>1
<1>30. ASSUME NEW c \in AllCalls, Recorded(c) PROVE WebPart'
  <2>1. Moved(c, "done") /\ tool[c].state = "recording" /\ SameWeb /\ ask' = ask
    BY <1>30, EndsIs DEF Recorded, SameWeb
  <2>2. CASE Throw
    BY <1>18, <2>1, <2>2
  <2>3. CASE ~Throw
    <3>1. UNCHANGED <<answer, outcome>> /\ pc' = IF outcome = "running" THEN AfterServerCall(c) ELSE pc
      BY <1>30, <2>3 DEF Recorded
    <3>2. CASE outcome # "running"
      <4>1. pc = "done" /\ pc' = "done"
        BY <3>1, <3>2 DEF Types, RunTypes
      <4> QED
        BY <1>2, <1>3, <2>1, <3>1, <4>1, AfterwardsIs DEF Afterwards
    <3>3. CASE outcome = "running" /\ c \in Calls
      <4>1. pc = "batch_call" /\ pc' = "batch_call"
        <5>1. pc = "batch_call"
          BY <2>1, <3>3 DEF WaitPart, Busy
        <5> QED
          BY <3>1, <3>3, <5>1, CallsAre DEF AfterServerCall
      <4> QED
        BY <1>2, <1>3, <2>1, <3>1, <4>1, AfterwardsIs DEF Afterwards
    <3>4. CASE outcome = "running" /\ c \in ServerCalls
      <4>1. Serving(c) /\ pc = "server_call"
        BY <2>1, <3>4, CallsAre DEF WaitPart, Busy, Serving, Types, RunTypes
      <4>2. CASE c \in {"knowledge", "attachment_search", "attachment_open"}
        <5>1. pc' \in {"attachment", "attachment_open", "web"}
          BY <3>1, <3>4, <4>2 DEF AfterServerCall
        <5>2. BeforeWeb /\ BeforeWeb'
          BY <4>1, <4>2, <5>1 DEF BeforeWeb
        <5> QED
          BY <1>5, <2>1, <3>1, <4>1, <5>1, <5>2
      <4>3. CASE c \in {"web", "web_link"}
        <5>1. pc' \in {"web_link", "ask"}
          BY <3>1, <3>4, <4>3 DEF AfterServerCall
        <5>2. ~BeforeWeb /\ ~Searching
          BY <3>4, <4>1, <4>3, CallsAre DEF WaitPart, BeforeWeb, Searching, Serving
        <5>3. ~BeforeWeb' /\ ~Searching'
          BY <5>1 DEF BeforeWeb, Searching, Serving
        <5> QED
          BY <1>3, <2>1, <3>1, <5>2, <5>3
      <4> QED
        BY <3>4, <4>2, <4>3, CallsAre
    <3> QED
      BY <3>2, <3>3, <3>4, CallsAre
  <2> QED
    BY <2>2, <2>3
<1>31. ASSUME NEW c \in AllCalls, RecordFails(c) PROVE WebPart'
  <2>1. SameWeb /\ ask' = ask
    BY <1>31 DEF RecordFails, SameWeb
  <2>2. CASE outcome = "running"
    BY <1>18, <1>31, <2>1, <2>2 DEF RecordFails
  <2>3. CASE outcome # "running"
    <3>1. pc = "done" /\ pc' = "done" /\ UNCHANGED <<answer, outcome>>
      BY <1>31, <2>3 DEF RecordFails, Types, RunTypes
    <3> QED
      BY <1>2, <1>3, <2>1, <3>1, AfterwardsIs DEF Afterwards
  <2> QED
    BY <2>2, <2>3
<1>32. CASE Abort \/ Over \/ UNCHANGED vars
  <2>1. SameWeb /\ UNCHANGED <<pc, outcome, answer, ask, tool>>
    BY <1>32 DEF Abort, Over, vars, SameWeb
  <2> QED
    BY <1>6, <2>1
<1> QED
  BY <1>8, <1>9, <1>10, <1>11, <1>12, <1>13, <1>14, <1>15, <1>16, <1>19, <1>20, <1>21, <1>22, <1>23, <1>24, <1>25, <1>26, <1>27, <1>28, <1>29, <1>30, <1>31, <1>32 DEF Next
-----------------------------------------------------------------------------
(* The invariant.                                                           *)

LEMMA SequenceStep == Types /\ WaitPart /\ OrderPart /\ SequencePart /\ [Next]_vars => SequencePart'
<1> SUFFICES ASSUME Types, WaitPart, OrderPart, SequencePart, [Next]_vars PROVE SequencePart'
  OBVIOUS
<1>0. n.sequence \in Nat /\ \A c \in AllCalls : tool[c].sequence \in Nat
  BY DEF Types, CountTypes, Counters, CallTypes, Execution
<1>1. ASSUME NEW c \in AllCalls, NEW state, Moved(c, state), tool'[c].sequence <= n'.sequence,
             n'.sequence \in {n.sequence, n.sequence + 1}
      PROVE  SequencePart'
  BY <1>0, <1>1 DEF Moved, SequencePart
<1>2. CASE Advance \/ Same \/ NextBatch \/ EndRound
  BY <1>2 DEF Advance, Same, NextBatch, EndRound, SequencePart
<1>3. ASSUME NEW c \in AllCalls, Starts(c) PROVE SequencePart'
  <2>1. PICK x : x = [NoTool EXCEPT !.name = ServerToolName(c), !.state = "running"]
    OBVIOUS
  <2>2. x.sequence = 0 /\ tool' = [tool EXCEPT ![c] = x] /\ n' = n
    BY <1>3, <2>1 DEF Starts, Executing, NoTool
  <2>3. tool'[c].sequence = 0
    BY <2>2 DEF Types, CallTypes
  <2> QED
    BY <1>0, <1>1, <1>3, <2>2, <2>3, StartsIs
<1>4. ASSUME NEW c \in AllCalls, Answers(c) PROVE SequencePart'
  <2>1. tool'[c].sequence = n.sequence + 1 /\ n'.sequence = n.sequence + 1 /\ Moved(c, "recording")
    BY <1>4, AnswersIs DEF Answers
  <2> QED
    BY <1>0, <1>1, <2>1
<1>5. ASSUME NEW c \in AllCalls, ToolReturns(c) \/ ToolTimesOut(c) PROVE SequencePart'
  <2>1. tool'[c].sequence = n.sequence + 1 /\ n'.sequence = n.sequence + 1 /\ Moved(c, "recording")
    BY <1>5, RecordingIs DEF ToolReturns, ToolTimesOut
  <2> QED
    BY <1>0, <1>1, <2>1
<1>6. ASSUME NEW c \in AllCalls, Recorded(c) \/ RecordFails(c) PROVE SequencePart'
  <2>1. n' = n /\ \E state \in {"done", "unrecorded"} : tool' = [tool EXCEPT ![c].state = state]
    BY <1>6 DEF Recorded, RecordFails
  <2>2. tool'[c].sequence = tool[c].sequence /\ \E state : Moved(c, state)
    BY <2>1, EndsIs
  <2> QED
    BY <1>1, <2>1, <2>2 DEF SequencePart
<1>7. CASE executeToolCalls
  <2>1. n'.sequence = n.sequence
    BY <1>7, BatchIs
  <2>2. ASSUME NEW c \in AllCalls PROVE tool'[c].sequence \in {0, tool[c].sequence}
    <3>1. CASE \E i \in Runs : todo[i].id = c
      <4>1. PICK i \in Runs : todo[i].id = c
        BY <3>1
      <4>2. tool'[todo[i].id] = [name |-> todo[i].name, state |-> "running", sequence |-> 0]
        BY <1>7, BatchIs
      <4> QED
        BY <4>1, <4>2
    <3>2. CASE \A i \in Runs : todo[i].id # c
      BY <1>7, <3>2, BatchIs
    <3> QED
      BY <3>1, <3>2
  <2> QED
    BY <1>0, <2>1, <2>2 DEF SequencePart
<1>8. CASE \E c \in AllCalls : LateReturn(c)
  BY <1>8 DEF LateReturn, SequencePart
<1> QED
  BY <1>2, <1>3, <1>4, <1>5, <1>6, <1>7, <1>8, Kinds

LEMMA InitHolds == Init => IInv
<1> SUFFICES ASSUME Init PROVE IInv
  OBVIOUS
<1>1. /\ pc = "knowledge" /\ outcome = "running" /\ seen = {} /\ late = {} /\ todo = <<>> /\ records = {}
      /\ evidence = {} /\ links = {} /\ calculations = {} /\ artifact = "none" /\ webLease = "none" /\ webFailure = "none"
      /\ ask = NoAsk /\ invocation = <<>> /\ unwritten = {} /\ unacknowledged = {} /\ candidate = NoCandidate /\ answer = NoAnswer
      /\ request \in Request /\ aborted = FALSE
  BY DEF Init
<1>2. \A c \in AllCalls : tool[c] = NoTool
  BY DEF Init
<1>3. n \in Counters /\ n.requests = 0 /\ n.calls = 0 /\ n.sequence = 0 /\ n.breaks = 0
  BY DEF Init, Counters
<1>4. RunTypes
  BY <1>1 DEF RunTypes, Pcs
<1>5. CountTypes
  BY <1>3, LimitsAssumption DEF CountTypes
<1>6. CallTypes
  <2>1. NoTool \in Execution
    BY DEF NoTool, Execution
  <2>2. tool = [c \in AllCalls |-> NoTool]
    BY DEF Init
  <2> QED
    BY <1>1, <2>1, <2>2 DEF CallTypes
<1>7. GroundTypes /\ WebTypes
  BY <1>1 DEF GroundTypes, WebTypes
<1>8. ModelTypes
  BY <1>1 DEF ModelTypes, NoAsk, ModelRequest
<1>9. \A c \in AllCalls : tool[c].state = "none" /\ tool[c].name = "none" /\ tool[c].sequence = 0
  BY <1>2 DEF NoTool
<1>10. WaitPart
  BY <1>1, <1>9, CallsAre DEF WaitPart, Busy
<1>11. OrderPart
  BY <1>1, <1>3, <1>9, CallsAre DEF OrderPart
<1>12. AccountPart
  <2>1. Numbered = {} /\ Counted = {} /\ {d \in AllCalls : tool[d].state = "done"} = {}
    BY <1>9, CallsAre DEF Numbered, Counted
  <2>2. IsFiniteSet(Counted) /\ Cardinality(Counted) = 0
    BY <2>1, FS_EmptySet
  <2> QED
    BY <1>1, <1>3, <2>1, <2>2 DEF AccountPart, Accounted
<1>13. InvocationPart /\ StartPart
  BY <1>1, <1>3 DEF InvocationPart, StartPart
<1>14. FilePart
  BY <1>1, <1>9, CallsAre DEF FilePart, Making, Waiting
<1>15. SequencePart
  BY <1>3, <1>9 DEF SequencePart
<1>16. AnswerPart
  BY <1>1 DEF AnswerPart, NoAnswer
<1>17. WebPart
  BY <1>1 DEF WebPart, NoAsk, NoAnswer, BeforeWeb, Searching
<1> QED
  BY <1>4, <1>5, <1>6, <1>7, <1>8, <1>10, <1>11, <1>12, <1>13, <1>14, <1>15, <1>16, <1>17 DEF IInv, Types

\* The whole invariant, which every theorem below rests on.
THEOREM Inductive == Spec => []IInv
<1>1. ASSUME IInv, [Next]_vars PROVE IInv'
  <2>1. /\ Types /\ WaitPart /\ OrderPart /\ AccountPart /\ InvocationPart /\ StartPart /\ FilePart
        /\ SequencePart /\ AnswerPart
    BY <1>1 DEF IInv
  <2>2. Types' /\ WaitPart' /\ OrderPart' /\ AccountPart'
    BY <1>1, <2>1, TypesStep, WaitStep, OrderStep, AccountStep
  <2>3. InvocationPart' /\ StartPart' /\ FilePart' /\ SequencePart' /\ AnswerPart' /\ WebPart'
    BY <1>1, <2>1, InvocationStep, StartStep, FileStep, SequenceStep, AnswerStep, WebStep
  <2> QED
    BY <2>2, <2>3 DEF IInv
<1> QED
  BY <1>1, InitHolds, PTL DEF Spec
-----------------------------------------------------------------------------
(* What a reader of the loop relies on.                                     *)

\* The variables keep their types: the counters stay under their limits, and no row
\* has a number that was not drawn (AgentRunOrchestrator's fields).
THEOREM TypeCorrect == Spec => []TypeOK
<1>1. IInv => TypeOK
  <2> SUFFICES ASSUME IInv, Types, SequencePart PROVE TypeOK
    BY DEF IInv
  <2>1. n \in [requests : 0..MAX_MODEL_REQUESTS, calls : Nat, rounds : Nat, repairs : Nat,
              artifactRepairs : Nat, sequence : Nat, breaks : 0..MaxBreaks]
    BY LimitsAssumption DEF Types, CountTypes, Counters
  <2>2. ASSUME NEW c \in AllCalls
        PROVE  /\ DOMAIN tool[c] = {"name", "state", "sequence"}
               /\ tool[c].state \in {"none", "running", "recording", "done", "unrecorded"}
               /\ tool[c].sequence \in 0..n.sequence
    <3>1. tool[c] \in Execution
      BY DEF Types, CallTypes
    <3>2. tool[c].sequence \in Nat /\ tool[c].sequence <= n.sequence /\ n.sequence \in Nat
      BY <3>1 DEF Execution, SequencePart, Types, CountTypes, Counters
    <3> QED
      BY <3>1, <3>2 DEF Execution
  <2>3. \A i \in DOMAIN invocation : invocation[i] \in {"running", "succeeded", "failed", "cancelled"}
    BY DEF Types, ModelTypes, Statuses
  <2>4. RunTypes /\ CallTypes /\ GroundTypes /\ WebTypes /\ ModelTypes
    BY DEF Types
  <2>5. request \in Request /\ aborted \in BOOLEAN /\ pc \in Pcs /\ outcome \in {"running", "completed", "incomplete", "failed"}
        /\ (outcome = "running" <=> pc # "done")
    BY <2>4 DEF RunTypes
  <2>6. late \subseteq AllCalls /\ seen \subseteq Calls /\ unwritten \subseteq DOMAIN invocation
        /\ unacknowledged \subseteq DOMAIN invocation
    BY <2>4 DEF CallTypes, ModelTypes
  <2> QED
    BY <2>1, <2>2, <2>3, <2>4, <2>5, <2>6 DEF TypeOK, GroundTypes, WebTypes, Pcs
<1> QED
  BY <1>1, Inductive, PTL

\* At most one create_artifact is executed in a run, whatever ids and batches the
\* model's responses use, and a file is presented only when it is ready
\* (attemptedNonRepeatableToolNames of orchestrator.ts).
THEOREM ArtifactIsMadeOnce == Spec => []ArtifactOnce
<1>1. IInv => ArtifactOnce
  <2> SUFFICES ASSUME FilePart, AnswerPart PROVE ArtifactOnce
    BY DEF IInv
  <2>1. PICK S : S = {c \in Calls : tool[c].name = "create_artifact"}
    OBVIOUS
  <2>2. \A c, d \in S : c = d
    BY <2>1 DEF FilePart, Making
  <2>3. S = {} \/ \E c : S = {c}
    BY <2>2
  <2>4. Cardinality(S) <= 1
    <3>1. CASE S = {}
      BY <3>1, FS_EmptySet
    <3>2. ASSUME NEW c, S = {c} PROVE Cardinality(S) <= 1
      <4>1. Cardinality(S) = 1
        BY <3>2, FS_Singleton
      <4> QED
        BY <4>1
    <3> QED
      BY <2>3, <3>1, <3>2
  <2> QED
    BY <2>1, <2>4 DEF ArtifactOnce, AnswerPart
<1> QED
  BY <1>1, Inductive, PTL

\* When the answer is saved every call that ran has its one row, the rows are numbered
\* without gap or repetition, and the counters saved with the answer count them
\* (recordTool and persistAndPublishFinalAnswer of orchestrator.ts).
THEOREM SavedRunIsAccounted == Spec => []SavedIsAccounted
<1>1. ASSUME IInv, Saved
      PROVE  /\ \A c \in AllCalls : tool[c].state \in {"none", "done"}
             /\ {r.call : r \in records} = {c \in AllCalls : tool[c].state = "done"}
             /\ {r.sequence : r \in records} = 1..Cardinality(records)
             /\ n.calls = Cardinality({r \in records : r.call # "web_link"})
  <2>1. Types /\ WaitPart /\ Accounted /\ pc = "done" /\ outcome # "failed"
    BY <1>1 DEF IInv, AccountPart, Saved, Types, RunTypes
  <2>2. \A c \in AllCalls : tool[c].state \in {"none", "done"}
    BY <2>1 DEF WaitPart, Busy, Types, CallTypes, Execution
  <2>3. \A r : r \in records <=> \E c \in AllCalls : Done(c) /\ r = Row(c)
    BY <2>1, DoneRows
  <2>4. \A c \in AllCalls : c \in Numbered <=> Done(c)
    BY <2>2 DEF Numbered, Done
  <2>5. \A c : Row(c).call = c /\ Row(c).sequence = tool[c].sequence
    BY DEF Row
  <2>6. {r.call : r \in records} = {c \in AllCalls : tool[c].state = "done"}
    BY <2>3, <2>5 DEF Done
  <2>7. n.sequence \in Nat
    BY <2>1 DEF Types, CountTypes, Counters
  <2>8. \A r \in records : r.sequence \in 1..n.sequence
    BY <2>1, <2>3, <2>4, <2>5 DEF Accounted
  <2>9. \A i \in 1..n.sequence : \E r \in records : r.sequence = i
    <3> SUFFICES ASSUME NEW i \in 1..n.sequence PROVE \E r \in records : r.sequence = i
      OBVIOUS
    <3>1. PICK c \in Numbered : tool[c].sequence = i
      BY <2>1 DEF Accounted
    <3>2. Row(c) \in records
      BY <2>3, <2>4, <3>1 DEF Numbered
    <3> QED
      BY <2>5, <3>1, <3>2
  <2>10. \A r, s \in records : r.sequence = s.sequence => r = s
    <3> SUFFICES ASSUME NEW r \in records, NEW s \in records, r.sequence = s.sequence PROVE r = s
      OBVIOUS
    <3>1. PICK c \in AllCalls : Done(c) /\ r = Row(c)
      BY <2>3
    <3>2. PICK d \in AllCalls : Done(d) /\ s = Row(d)
      BY <2>3
    <3>3. tool[c].sequence = tool[d].sequence /\ c \in Numbered /\ d \in Numbered
      BY <2>4, <2>5, <3>1, <3>2
    <3> QED
      BY <2>1, <3>1, <3>2, <3>3 DEF Accounted
  <2>11. Cardinality(records) = n.sequence
    <3> DEFINE f == [i \in 1..n.sequence |-> CHOOSE r \in records : r.sequence = i]
    <3>1. \A i \in 1..n.sequence : f[i] \in records /\ f[i].sequence = i
      BY <2>9
    <3>2. f \in [1..n.sequence -> records]
      BY <3>1
    <3>3. \A i, j \in 1..n.sequence : f[i] = f[j] => i = j
      BY <3>1
    <3>4. \A r \in records : \E i \in 1..n.sequence : f[i] = r
      BY <2>8, <2>10, <3>1
    <3>5. f \in Bijection(1..n.sequence, records)
      BY <3>2, <3>3, <3>4 DEF Bijection, Injection, Surjection, IsInjective
    <3>6. ExistsBijection(1..n.sequence, records)
      BY <3>5 DEF ExistsBijection
    <3> QED
      BY <2>7, <3>6, FS_CountingElements
  <2>12. {r.sequence : r \in records} = 1..Cardinality(records)
    BY <2>8, <2>9, <2>11
  <2>13. n.calls = Cardinality({r \in records : r.call # "web_link"})
    <3> DEFINE rows == {r \in records : r.call # "web_link"}
               g == [c \in Counted |-> Row(c)]
    <3>1. \A c : c \in Counted <=> c \in AllCalls /\ Done(c) /\ c # "web_link"
      BY <2>2, CallsAre DEF Counted, Done
    <3>2. \A c \in Counted : g[c] \in rows /\ g[c].call = c
      BY <2>3, <2>5, <3>1
    <3>3. g \in [Counted -> rows]
      BY <3>2
    <3>4. \A c, d \in Counted : g[c] = g[d] => c = d
      BY <3>2
    <3>5. \A r \in rows : \E c \in Counted : g[c] = r
      BY <2>3, <2>5, <3>1
    <3>6. g \in Bijection(Counted, rows)
      BY <3>3, <3>4, <3>5 DEF Bijection, Injection, Surjection, IsInjective
    <3>7. ExistsBijection(Counted, rows)
      BY <3>6 DEF ExistsBijection
    <3>8. IsFiniteSet(Counted) /\ n.calls = Cardinality(Counted)
      BY <2>1 DEF Accounted
    <3> QED
      BY <3>7, <3>8, FS_Bijection
  <2> QED
    BY <2>2, <2>6, <2>12, <2>13
<1>2. IInv => SavedIsAccounted
  BY <1>1 DEF SavedIsAccounted
<1> QED
  BY <1>2, Inductive, PTL

\* A run that is over leaves a model_invocation row in progress only where the write that
\* settles it was lost or its start was lost after the commit; the request count covers
\* every row; and of a saved run only the first request, the discovery, can have been
\* started without its knowing (meteredStream of orchestrator.ts).
THEOREM NoInvocationIsLeft == Spec => []InvocationsSettled
<1>1. IInv => InvocationsSettled
  BY DEF IInv, InvocationsSettled, InvocationPart, StartPart, Saved, Types, RunTypes
<1> QED
  BY <1>1, Inductive, PTL

\* The unit of a search is committed before its request is made, and no saved run keeps
\* one reserved (the web_search lease of orchestrator.ts).
THEOREM EverySearchIsPaid == Spec => []SearchIsPaid
<1>1. IInv => SearchIsPaid
  BY DEF IInv, SearchIsPaid, WebPart, Saved, Types, RunTypes
<1> QED
  BY <1>1, Inductive, PTL

\* A question that requires the web is never answered in the model's words without a
\* validated source, this turn's own material or a calculation
\* (requiresWebQuotaFallback of orchestrator.ts).
THEOREM RequiredWebIsKept == Spec => []RequiredWebIsHonest
<1>1. IInv => RequiredWebIsHonest
  BY DEF IInv, RequiredWebIsHonest, WebPart
<1> QED
  BY <1>1, Inductive, PTL

-----------------------------------------------------------------------------
(* The stream of one request (ModelStream).  What the merge of a response    *)
(* returns is a recursive function over data of any size: it is proved by    *)
(* induction, stated with sets in place of predicates.                       *)

\* The order of the natural numbers as a relation.
LessThan == {pair \in Nat \X Nat : pair[1] < pair[2]}

LEMMA LeastNatural ==
    ASSUME NEW S \in SUBSET Nat, S # {}
    PROVE  \E p \in S : \A m \in S : p <= m
<1>1. IsWellFoundedOn(LessThan, Nat)
  BY NatLessThanWellFounded DEF OpToRel, LessThan
<1>2. PICK p \in S : \A m \in S : <<m, p>> \notin LessThan
  BY <1>1, WFMin
<1>3. \A m \in S : ~(m < p)
  BY <1>2 DEF LessThan
<1>4. \A m \in S : p <= m
  BY <1>3
<1> QED
  BY <1>4

\* What holds of 0 and is passed on to the next number holds of every number.
LEMMA InductionOn ==
    ASSUME NEW S, 0 \in S, \A p \in Nat : p \in S => p + 1 \in S
    PROVE  Nat \subseteq S
<1> SUFFICES ASSUME Nat \ S # {} PROVE FALSE
  OBVIOUS
<1>1. PICK p \in Nat \ S : \A m \in Nat \ S : p <= m
  <2>1. Nat \ S \in SUBSET Nat
    OBVIOUS
  <2> QED
    BY <2>1, LeastNatural
<1>2. p # 0
  OBVIOUS
<1>3. p - 1 \in Nat /\ p - 1 \in S
  BY <1>1, <1>2
<1> QED
  BY <1>1, <1>3

-----------------------------------------------------------------------------
(* The order in which streamed items are merged.                            *)

StreamedItem == [index : Nat, item : Items]
StreamedOK == streamed \in Seq(StreamedItem)

LEMMA StreamedIs ==
    ASSUME StreamedOK
    PROVE  /\ Len(streamed) \in Nat /\ DOMAIN streamed = 1..Len(streamed)
           /\ \A k \in DOMAIN streamed :
                 k \in Nat /\ streamed[k].index \in Nat /\ streamed[k].item \in Items
<1>1. Len(streamed) \in Nat /\ DOMAIN streamed = 1..Len(streamed)
  BY LenProperties DEF StreamedOK
<1>2. ASSUME NEW k \in 1..Len(streamed)
      PROVE  streamed[k] \in StreamedItem
  BY ElementOfSeq, Zenon DEF StreamedOK
<1> QED
  BY <1>1, <1>2 DEF StreamedItem

LEMMA IntervalIs ==
    ASSUME NEW p \in Nat
    PROVE  /\ IsFiniteSet(1..p) /\ Cardinality(1..p) = p
           /\ IsFiniteSet(0..(p - 1)) /\ Cardinality(0..(p - 1)) = p
<1>1. 1 \in Int /\ p \in Int /\ 0 \in Int /\ p - 1 \in Int
  OBVIOUS
<1>2. IsFiniteSet(1..p) /\ Cardinality(1..p) = IF 1 > p THEN 0 ELSE p - 1 + 1
  BY <1>1, FS_Interval
<1>3. IsFiniteSet(0..(p - 1)) /\ Cardinality(0..(p - 1)) = IF 0 > p - 1 THEN 0 ELSE p - 1 - 0 + 1
  BY <1>1, FS_Interval
<1> QED
  BY <1>1, <1>2, <1>3

LEMMA EarlierIs ==
    ASSUME StreamedOK, NEW i \in DOMAIN streamed
    PROVE  /\ IsFiniteSet(Earlier(i)) /\ Cardinality(Earlier(i)) \in Nat
           /\ Cardinality(Earlier(i)) < Len(streamed)
<1>1. Len(streamed) \in Nat /\ DOMAIN streamed = 1..Len(streamed)
  BY LenProperties DEF StreamedOK
<1>2. IsFiniteSet(1..Len(streamed)) /\ Cardinality(1..Len(streamed)) = Len(streamed)
  BY <1>1, IntervalIs
<1>3. streamed[i].index \in Nat /\ i \in Nat
  BY StreamedIs
<1>4. i \notin Earlier(i) /\ Earlier(i) \in SUBSET (1..Len(streamed))
  BY <1>1, <1>3 DEF Earlier, Before
<1>5. IsFiniteSet(Earlier(i)) /\ Cardinality(Earlier(i)) <= Len(streamed)
  BY <1>2, <1>4, FS_Subset
<1>6. Cardinality(Earlier(i)) # Len(streamed)
  BY <1>1, <1>2, <1>4, FS_Subset
<1> QED
  BY <1>1, <1>5, <1>6, FS_CardinalityType

LEMMA EarlierGrows ==
    ASSUME StreamedOK, NEW i \in DOMAIN streamed, NEW j \in DOMAIN streamed, Before(i, j)
    PROVE  Cardinality(Earlier(i)) < Cardinality(Earlier(j))
<1>1. DOMAIN streamed = 1..Len(streamed) /\ Len(streamed) \in Nat
  BY LenProperties DEF StreamedOK
<1>2. \A k \in DOMAIN streamed : streamed[k].index \in Nat /\ k \in Nat
  BY StreamedIs
<1>3. \A k \in DOMAIN streamed : Before(k, i) => Before(k, j)
  BY <1>2 DEF Before
<1>4. Earlier(i) \in SUBSET Earlier(j)
  BY <1>3 DEF Earlier
<1>5. i \in Earlier(j) /\ i \notin Earlier(i)
  BY <1>2 DEF Earlier, Before
<1>6. /\ Cardinality(Earlier(i)) <= Cardinality(Earlier(j))
      /\ Cardinality(Earlier(j)) = Cardinality(Earlier(i)) => Earlier(j) = Earlier(i)
  BY <1>4, EarlierIs, FS_Subset
<1> QED
  BY <1>5, <1>6, EarlierIs

LEMMA EarlierDiffers ==
    ASSUME StreamedOK, NEW i \in DOMAIN streamed, NEW j \in DOMAIN streamed, i # j
    PROVE  Cardinality(Earlier(i)) # Cardinality(Earlier(j))
<1>1. DOMAIN streamed = 1..Len(streamed) /\ Len(streamed) \in Nat
  BY LenProperties DEF StreamedOK
<1>2. \A k \in DOMAIN streamed : streamed[k].index \in Nat /\ k \in Nat
  BY StreamedIs
<1>3. Before(i, j) \/ Before(j, i)
  BY <1>2 DEF Before
<1>4. Cardinality(Earlier(i)) \in Nat /\ Cardinality(Earlier(j)) \in Nat
  BY EarlierIs
<1> QED
  BY <1>3, <1>4, EarlierGrows

\* Every streamed item has its turn, and every turn its item.
LEMMA SortedIs ==
    ASSUME StreamedOK
    PROVE  /\ Len(streamed) \in Nat /\ DOMAIN streamed = 1..Len(streamed)
           /\ \A p \in 1..Len(streamed) : Sorted(p) \in DOMAIN streamed
           /\ \A i \in DOMAIN streamed : \E p \in 1..Len(streamed) : Sorted(p) = i
<1> DEFINE L == Len(streamed)
           rank == [i \in 1..L |-> Cardinality(Earlier(i))]
<1>1. L \in Nat /\ DOMAIN streamed = 1..L
  BY LenProperties DEF StreamedOK
<1>2. \A i \in 1..L : rank[i] = Cardinality(Earlier(i)) /\ rank[i] \in 0..(L - 1)
  BY <1>1, EarlierIs
<1>3. rank \in [1..L -> 0..(L - 1)]
  BY <1>2
<1>4. \A i, j \in 1..L : rank[i] = rank[j] => i = j
  BY <1>1, <1>2, EarlierDiffers
<1> HIDE DEF rank
<1>5. rank \in Injection(1..L, 0..(L - 1))
  BY <1>3, <1>4 DEF Injection, IsInjective
<1>6. /\ IsFiniteSet(0..(L - 1)) /\ Cardinality(0..(L - 1)) = L /\ Cardinality(1..L) = L
  BY <1>1, IntervalIs
<1>7. rank \in Surjection(1..L, 0..(L - 1))
  BY <1>5, <1>6, FS_Injection
<1>8. \A p \in 1..L : \E i \in 1..L : rank[i] = p - 1
  <2> TAKE p \in 1..L
  <2>1. p - 1 \in 0..(L - 1)
    BY <1>1
  <2> QED
    BY <1>7, <2>1 DEF Surjection
<1>9. ASSUME NEW p \in 1..L
      PROVE  Sorted(p) \in 1..L /\ rank[Sorted(p)] = p - 1
  <2>1. \E i \in DOMAIN streamed : Cardinality(Earlier(i)) = p - 1
    BY <1>1, <1>2, <1>8
  <2>2. Sorted(p) \in DOMAIN streamed /\ Cardinality(Earlier(Sorted(p))) = p - 1
    BY <2>1 DEF Sorted
  <2> QED
    BY <1>1, <1>2, <2>2
<1>10. ASSUME NEW i \in 1..L
       PROVE  \E p \in 1..L : Sorted(p) = i
  <2>1. rank[i] + 1 \in 1..L
    BY <1>1, <1>2
  <2> DEFINE p == rank[i] + 1
  <2> HIDE DEF p
  <2>2. Sorted(p) \in 1..L /\ rank[Sorted(p)] = p - 1
    BY <1>9, <2>1 DEF p
  <2>3. rank[Sorted(p)] = rank[i]
    BY <1>2, <2>2 DEF p
  <2> QED
    BY <1>4, <2>1, <2>2, <2>3 DEF p
<1> QED
  BY <1>1, <1>9, <1>10
-----------------------------------------------------------------------------
(* The merge of the streamed items into the output of the response.         *)

LEMMA InsertAtIs ==
    ASSUME NEW s, NEW p, NEW e
    PROVE  InsertAt(s, p, e) = SubSeq(s, 1, p - 1) \o <<e>> \o SubSeq(s, p, Len(s))
BY DEF InsertAt

\* One item inserted into a sequence.
LEMMA Inserted ==
    ASSUME NEW S, NEW s \in Seq(S), NEW e \in S, NEW p \in 1..Len(s) + 1
    PROVE  /\ InsertAt(s, p, e) \in Seq(S) /\ Len(InsertAt(s, p, e)) = Len(s) + 1
           /\ \A k \in 1..Len(s) + 1 :
                 InsertAt(s, p, e)[k] = IF k < p THEN s[k] ELSE IF k = p THEN e ELSE s[k - 1]
<1> DEFINE at == p - 1
           a == SubSeq(s, 1, at)
           c == SubSeq(s, p, Len(s))
           b == a \o <<e>>
<1>1. Len(s) \in Nat /\ at \in Nat /\ at <= Len(s) /\ p = at + 1 /\ \A k \in 1..Len(s) : s[k] \in S
  BY ElementOfSeq, LenProperties
<1>7. InsertAt(s, p, e) = b \o c
  BY InsertAtIs, Zenon
<1> HIDE DEF at
<1>2. a \in Seq(S) /\ Len(a) = at /\ \A k \in 1..at : a[k] = s[k]
  <2>1. 1 \in Int /\ at \in Int /\ \A k \in 1..at : s[k] \in S
    BY <1>1
  <2>2. /\ a \in Seq(S) /\ Len(a) = (IF 1 <= at THEN at - 1 + 1 ELSE 0)
        /\ \A k \in 1..at - 1 + 1 : a[k] = s[1 + k - 1]
    BY <2>1, SubSeqProperties
  <2> QED
    BY <1>1, <2>2
<1>3. c \in Seq(S) /\ Len(c) = Len(s) - at /\ \A k \in 1..Len(s) - at : c[k] = s[at + k]
  <2>1. p \in Int /\ Len(s) \in Int /\ \A k \in p..Len(s) : s[k] \in S
    BY <1>1
  <2>2. /\ c \in Seq(S) /\ Len(c) = (IF p <= Len(s) THEN Len(s) - p + 1 ELSE 0)
        /\ \A k \in 1..Len(s) - p + 1 : c[k] = s[p + k - 1]
    BY <2>1, SubSeqProperties
  <2> QED
    BY <1>1, <2>2
<1> HIDE DEF a, c
<1>4. <<e>> \in Seq(S) /\ Len(<<e>>) = 1 /\ <<e>>[1] = e
  OBVIOUS
<1>5. b \in Seq(S) /\ Len(b) = at + 1 /\ \A k \in 1..at + 1 : b[k] = IF k <= at THEN s[k] ELSE e
  <2>1. /\ b \in Seq(S) /\ Len(b) = Len(a) + 1
        /\ \A k \in 1..Len(a) + 1 : b[k] = IF k <= Len(a) THEN a[k] ELSE <<e>>[k - Len(a)]
    BY <1>2, <1>4, ConcatProperties
  <2> QED
    BY <1>1, <1>2, <1>4, <2>1
<1> HIDE DEF b
<1>6. /\ b \o c \in Seq(S) /\ Len(b \o c) = Len(b) + Len(c)
      /\ \A k \in 1..Len(b) + Len(c) : (b \o c)[k] = IF k <= Len(b) THEN b[k] ELSE c[k - Len(b)]
  BY <1>3, <1>5, ConcatProperties
<1>8. Len(b \o c) = Len(s) + 1
  BY <1>1, <1>3, <1>5, <1>6
<1>9. ASSUME NEW k \in 1..Len(s) + 1
      PROVE  (b \o c)[k] = IF k < p THEN s[k] ELSE IF k = p THEN e ELSE s[k - 1]
  <2>1. (b \o c)[k] = IF k <= at + 1 THEN b[k] ELSE c[k - (at + 1)]
    BY <1>1, <1>3, <1>5, <1>6
  <2>2. k > at + 1 => k - (at + 1) \in 1..Len(s) - at /\ at + (k - (at + 1)) = k - 1
    BY <1>1
  <2>3. k > at + 1 => c[k - (at + 1)] = s[k - 1]
    BY <1>3, <2>2
  <2> QED
    BY <1>1, <1>5, <2>1, <2>3
<1> QED
  BY <1>6, <1>7, <1>8, <1>9

\* No two function calls of a sequence of items have the same id.
CallsDiffer(items) ==
    \A i, k \in DOMAIN items : items[i].type = "function_call" /\ SameItem(items[i], items[k]) => i = k

LEMMA SameIs ==
    ASSUME NEW x, NEW y, SameItem(x, y)
    PROVE  SameItem(y, x) /\ x.type = y.type /\ x.id = y.id /\ x.id # None
BY DEF SameItem, continuationItemIdentity

\* An item is dropped when one of its identity is there already, and inserted otherwise.
LEMMA PlacedIs ==
    ASSUME StreamedOK, NEW i \in DOMAIN streamed, NEW items \in Seq(Items)
    PROVE  LET r == Placed(items, i)  item == streamed[i].item
           IN  /\ r \in Seq(Items)
               /\ \A k \in DOMAIN r : r[k] = item \/ \E j \in DOMAIN items : r[k] = items[j]
               /\ \A j \in DOMAIN items : \E k \in DOMAIN r : r[k] = items[j]
               /\ \E k \in DOMAIN r : r[k] = item \/ SameItem(r[k], item)
               /\ CallsDiffer(items) => CallsDiffer(r)
<1> DEFINE item == streamed[i].item
           at == IF streamed[i].index < Len(items) THEN streamed[i].index ELSE Len(items)
           p == at + 1
           r == InsertAt(items, p, item)
<1>1. CASE Seen(items, item)
  <2>1. Placed(items, i) = items
    BY <1>1 DEF Placed
  <2> QED
    BY <1>1, <2>1 DEF Seen
<1>2. CASE ~Seen(items, item)
  <2>1. Placed(items, i) = r
    BY <1>2 DEF Placed
  <2>2. Len(items) \in Nat /\ DOMAIN items = 1..Len(items) /\ item \in Items
        /\ p \in 1..Len(items) + 1
    BY StreamedIs, LenProperties
  <2> HIDE DEF p, item
  <2>3. /\ r \in Seq(Items) /\ Len(r) = Len(items) + 1
        /\ \A k \in 1..Len(items) + 1 :
              r[k] = IF k < p THEN items[k] ELSE IF k = p THEN item ELSE items[k - 1]
    <3>1. item \in Items /\ p \in 1..Len(items) + 1
      BY <2>2
    <3> QED
      BY <3>1, Inserted
  <2> HIDE DEF r
  <2>4. DOMAIN r = 1..Len(items) + 1
    BY <2>3, LenProperties
  <2>5. \A k \in 1..Len(items) + 1 :
           r[k] = item \/ \E j \in 1..Len(items) : r[k] = items[j]
    <3> TAKE k \in 1..Len(items) + 1
    <3>1. CASE k < p
      BY <2>2, <2>3, <3>1
    <3>2. CASE k = p
      BY <2>2, <2>3, <3>2
    <3>3. CASE k > p
      <4>1. k - 1 \in 1..Len(items) /\ r[k] = items[k - 1]
        BY <2>2, <2>3, <3>3
      <4> QED
        BY <4>1
    <3> QED
      BY <2>2, <3>1, <3>2, <3>3
  <2>6. \A j \in 1..Len(items) : \E k \in 1..Len(items) + 1 : r[k] = items[j]
    <3> TAKE j \in 1..Len(items)
    <3>1. CASE j < p
      BY <2>2, <2>3, <3>1
    <3>2. CASE j >= p
      <4>1. j + 1 \in 1..Len(items) + 1 /\ r[j + 1] = items[j + 1 - 1]
        BY <2>2, <2>3, <3>2
      <4> QED
        BY <2>2, <4>1
    <3> QED
      BY <2>2, <3>1, <3>2
  <2>7. p \in 1..Len(items) + 1 /\ r[p] = item
    BY <2>2, <2>3
  <2>8. ASSUME CallsDiffer(items), NEW j \in 1..Len(items) + 1, NEW k \in 1..Len(items) + 1,
               r[j].type = "function_call", SameItem(r[j], r[k])
        PROVE  j = k
    <3> DEFINE old(m) == IF m < p THEN m ELSE m - 1
    <3>1. \A m \in 1..Len(items) + 1 : m # p => old(m) \in 1..Len(items) /\ r[m] = items[old(m)]
      BY <2>2, <2>3
    <3>2. CASE j # p /\ k # p
      <4>1. old(j) = old(k)
        BY <2>2, <2>8, <3>1, <3>2 DEF CallsDiffer
      <4> QED
        BY <2>2, <3>2, <4>1
    <3>3. ~(j = p /\ k # p)
      BY <1>2, <2>2, <2>7, <2>8, <3>1, SameIs DEF Seen
    <3>4. ~(j # p /\ k = p)
      BY <1>2, <2>2, <2>7, <2>8, <3>1 DEF Seen
    <3> QED
      BY <3>2, <3>3, <3>4
  <2>9. CallsDiffer(items) => CallsDiffer(r)
    BY <2>4, <2>8 DEF CallsDiffer
  <2> QED
    BY <2>1, <2>2, <2>3, <2>4, <2>5, <2>6, <2>7, <2>9 DEF item
<1> QED
  BY <1>1, <1>2

\* The recursive definition defines a function.
LEMMA MergeDefined ==
    ASSUME NEW output, NEW p \in Nat
    PROVE  \E f : f = [k \in 0..p |-> IF k = 0 THEN output ELSE Placed(f[k - 1], Sorted(k))]
<1> DEFINE S == {m \in Nat : \E f : f = [k \in 0..m |-> IF k = 0 THEN output ELSE Placed(f[k - 1], Sorted(k))]}
<1>1. 0 \in S
  <2>1. [k \in 0..0 |-> output]
           = [k \in 0..0 |-> IF k = 0 THEN output ELSE Placed([l \in 0..0 |-> output][k - 1], Sorted(k))]
    OBVIOUS
  <2> QED
    BY <2>1
<1>2. ASSUME NEW m \in Nat, m \in S
      PROVE  m + 1 \in S
  <2>1. PICK f : f = [k \in 0..m |-> IF k = 0 THEN output ELSE Placed(f[k - 1], Sorted(k))]
    BY <1>2
  <2> DEFINE g == [k \in 0..m + 1 |-> IF k = m + 1 THEN Placed(f[m], Sorted(m + 1)) ELSE f[k]]
  <2>2. /\ DOMAIN g = 0..m + 1 /\ \A k \in 0..m : g[k] = f[k]
        /\ g[m + 1] = Placed(f[m], Sorted(m + 1))
    OBVIOUS
  <2>3. f[0] = output /\ \A k \in 1..m : f[k] = Placed(f[k - 1], Sorted(k))
    BY <2>1
  <2>4. ASSUME NEW k \in 0..m + 1
        PROVE  g[k] = IF k = 0 THEN output ELSE Placed(g[k - 1], Sorted(k))
    <3>1. CASE k = 0
      BY <2>2, <2>3, <3>1
    <3>2. CASE k \in 1..m
      <4>1. k - 1 \in 0..m /\ k \in 0..m /\ k # 0
        BY <3>2
      <4> QED
        BY <2>2, <2>3, <3>2, <4>1
    <3>3. CASE k = m + 1
      <4>1. g[k - 1] = f[m] /\ k # 0
        BY <2>2, <3>3
      <4> QED
        BY <2>2, <3>3, <4>1
    <3> QED
      BY <3>1, <3>2, <3>3
  <2>5. g = [k \in 0..m + 1 |-> IF k = 0 THEN output ELSE Placed(g[k - 1], Sorted(k))]
    <3> HIDE DEF g
    <3>1. g = [k \in 0..m + 1 |-> g[k]]
      BY <2>2 DEF g
    <3> QED
      BY <2>4, <3>1, Zenon
  <2> HIDE DEF g
  <2>6. \E h : h = [k \in 0..m + 1 |-> IF k = 0 THEN output ELSE Placed(h[k - 1], Sorted(k))]
    BY <2>5
  <2> QED
    BY <2>6
<1>3. p \in S
  BY <1>1, <1>2, InductionOn
<1> QED
  BY <1>3

LEMMA MergeIs ==
    ASSUME StreamedOK, NEW output
    PROVE  \E f : /\ f[0] = output /\ mergeResponseOutputItems(output) = f[Len(streamed)]
                  /\ \A p \in 1..Len(streamed) : f[p] = Placed(f[p - 1], Sorted(p))
<1>1. Len(streamed) \in Nat
  BY StreamedIs
<1> DEFINE f == CHOOSE f : f = [p \in 0..Len(streamed) |->
                                   IF p = 0 THEN output ELSE Placed(f[p - 1], Sorted(p))]
<1>2. f = [p \in 0..Len(streamed) |-> IF p = 0 THEN output ELSE Placed(f[p - 1], Sorted(p))]
  BY <1>1, MergeDefined
<1>3. mergeResponseOutputItems(output) = f[Len(streamed)]
  BY DEF mergeResponseOutputItems
<1> HIDE DEF f
<1>4. f[0] = output /\ \A p \in 1..Len(streamed) : f[p] = Placed(f[p - 1], Sorted(p))
  BY <1>1, <1>2
<1> QED
  BY <1>3, <1>4

\* What the merge has made of the output and of the first p streamed items.
Merged(items, output, p) ==
    /\ items \in Seq(Items) /\ CallsDiffer(items)
    /\ \A k \in DOMAIN items : \/ \E j \in DOMAIN output : items[k] = output[j]
                               \/ \E i \in DOMAIN streamed : items[k] = streamed[i].item
    /\ \A j \in DOMAIN output : \E k \in DOMAIN items : items[k] = output[j]
    /\ \A m \in 1..p : \E k \in DOMAIN items :
          items[k] = streamed[Sorted(m)].item \/ SameItem(items[k], streamed[Sorted(m)].item)

LEMMA MergedOneMore ==
    ASSUME StreamedOK, NEW output, NEW items, NEW p \in Nat, p + 1 \in 1..Len(streamed),
           Merged(items, output, p)
    PROVE  Merged(Placed(items, Sorted(p + 1)), output, p + 1)
<1> DEFINE r == Placed(items, Sorted(p + 1))
           i == Sorted(p + 1)
<1>1. i \in DOMAIN streamed
  BY SortedIs
<1>2. items \in Seq(Items) /\ CallsDiffer(items)
  BY DEF Merged
<1>3. /\ r \in Seq(Items) /\ CallsDiffer(r)
      /\ \A k \in DOMAIN r : r[k] = streamed[i].item \/ \E j \in DOMAIN items : r[k] = items[j]
      /\ \A j \in DOMAIN items : \E k \in DOMAIN r : r[k] = items[j]
      /\ \E k \in DOMAIN r : r[k] = streamed[i].item \/ SameItem(r[k], streamed[i].item)
  BY <1>1, <1>2, PlacedIs
<1> HIDE DEF r, i
<1>4. \A k \in DOMAIN r : \/ \E j \in DOMAIN output : r[k] = output[j]
                          \/ \E m \in DOMAIN streamed : r[k] = streamed[m].item
  <2>1. \A k \in DOMAIN items : \/ \E j \in DOMAIN output : items[k] = output[j]
                                \/ \E m \in DOMAIN streamed : items[k] = streamed[m].item
    BY DEF Merged
  <2> QED
    BY <1>1, <1>3, <2>1
<1>5. \A j \in DOMAIN output : \E k \in DOMAIN r : r[k] = output[j]
  BY <1>3 DEF Merged
<1>6. ASSUME NEW m \in 1..p + 1
      PROVE  \E k \in DOMAIN r : r[k] = streamed[Sorted(m)].item \/ SameItem(r[k], streamed[Sorted(m)].item)
  <2>1. CASE m = p + 1
    BY <1>3, <2>1 DEF i
  <2>2. CASE m \in 1..p
    <3>1. PICK k \in DOMAIN items :
             items[k] = streamed[Sorted(m)].item \/ SameItem(items[k], streamed[Sorted(m)].item)
      BY <2>2 DEF Merged
    <3>2. PICK l \in DOMAIN r : r[l] = items[k]
      BY <1>3
    <3> QED
      BY <3>1, <3>2
  <2> QED
    BY <2>1, <2>2
<1>7. Merged(r, output, p + 1)
  BY <1>3, <1>4, <1>5, <1>6 DEF Merged
<1> QED
  BY <1>7 DEF r

LEMMA MergedIs ==
    ASSUME StreamedOK, NEW output \in Seq(Items), CallsDiffer(output)
    PROVE  Merged(mergeResponseOutputItems(output), output, Len(streamed))
<1>1. Len(streamed) \in Nat
  BY StreamedIs
<1>2. PICK f : /\ f[0] = output /\ mergeResponseOutputItems(output) = f[Len(streamed)]
               /\ \A p \in 1..Len(streamed) : f[p] = Placed(f[p - 1], Sorted(p))
  BY MergeIs
<1> DEFINE S == {p \in Nat : p <= Len(streamed) => Merged(f[p], output, p)}
<1>3. 0 \in S
  <2>1. Merged(output, output, 0)
    BY DEF Merged
  <2> QED
    BY <1>2, <2>1
<1>4. ASSUME NEW p \in Nat, p \in S
      PROVE  p + 1 \in S
  <2> SUFFICES ASSUME p + 1 <= Len(streamed)
               PROVE  Merged(f[p + 1], output, p + 1)
    OBVIOUS
  <2>1. p <= Len(streamed) /\ p + 1 \in 1..Len(streamed) /\ p + 1 - 1 = p
    BY <1>1
  <2>2. f[p + 1] = Placed(f[p], Sorted(p + 1))
    BY <1>2, <2>1
  <2>3. Merged(f[p], output, p)
    BY <1>4, <2>1
  <2> QED
    BY <2>1, <2>2, <2>3, MergedOneMore
<1>5. Len(streamed) \in S
  BY <1>1, <1>3, <1>4, InductionOn
<1> QED
  BY <1>1, <1>2, <1>5

\* What a merge is made of, and that it loses nothing.
LEMMA MergeLosesNothing ==
    ASSUME StreamedOK, NEW output \in Seq(Items), CallsDiffer(output)
    PROVE  LET items == mergeResponseOutputItems(output) IN
           /\ items \in Seq(Items) /\ CallsDiffer(items)
           /\ \A k \in DOMAIN items : \/ \E j \in DOMAIN output : items[k] = output[j]
                                      \/ \E i \in DOMAIN streamed : items[k] = streamed[i].item
           /\ \A j \in DOMAIN output : \E k \in DOMAIN items : items[k] = output[j]
           /\ \A i \in DOMAIN streamed : \E k \in DOMAIN items :
                 items[k] = streamed[i].item \/ SameItem(items[k], streamed[i].item)
<1> DEFINE items == mergeResponseOutputItems(output)
<1>1. Merged(items, output, Len(streamed))
  BY MergedIs
<1> HIDE DEF items
<1>2. \A i \in DOMAIN streamed : \E p \in 1..Len(streamed) : Sorted(p) = i
  BY SortedIs
<1>3. ASSUME NEW i \in DOMAIN streamed
      PROVE  \E k \in DOMAIN items : items[k] = streamed[i].item \/ SameItem(items[k], streamed[i].item)
  <2>1. PICK p \in 1..Len(streamed) : Sorted(p) = i
    BY <1>2
  <2> QED
    BY <1>1, <2>1 DEF Merged
<1>4. /\ items \in Seq(Items) /\ CallsDiffer(items)
      /\ \A k \in DOMAIN items : \/ \E j \in DOMAIN output : items[k] = output[j]
                                 \/ \E i \in DOMAIN streamed : items[k] = streamed[i].item
      /\ \A j \in DOMAIN output : \E k \in DOMAIN items : items[k] = output[j]
  BY <1>1 DEF Merged
<1> QED
  BY <1>3, <1>4 DEF items

-----------------------------------------------------------------------------
(* The calls that the terminal event adds.                                  *)

\* A call of the continuation that was not streamed.
IsLate(item) == item.type = "function_call" /\ ~Emitted(item.id)

Lates(l, items, p) ==
    /\ l \in Seq(Items)
    /\ \A k \in DOMAIN l : \E j \in 1..p : IsLate(items[j]) /\ l[k] = items[j]
    /\ \A j \in 1..p : IsLate(items[j]) => \E k \in DOMAIN l : l[k] = items[j]
    /\ \A k, m \in DOMAIN l : l[k].id = l[m].id => k = m

\* No two function calls have the same id, whether it is left out or not.
IdsDiffer(items) ==
    \A i, k \in DOMAIN items :
        /\ items[i].type = "function_call" /\ items[k].type = "function_call"
        /\ items[i].id = items[k].id
        => i = k

\* The recursive definition defines a function.
LEMMA LateDefined ==
    ASSUME NEW items, NEW p \in Nat
    PROVE  \E f : f = [k \in 0..p |->
                          IF k = 0 THEN <<>>
                          ELSE IF items[k].type = "function_call" /\ ~Emitted(items[k].id)
                          THEN Append(f[k - 1], items[k]) ELSE f[k - 1]]
<1> DEFINE Next1(k, l) == IF items[k].type = "function_call" /\ ~Emitted(items[k].id)
                          THEN Append(l, items[k]) ELSE l
           S == {m \in Nat : \E f : f = [k \in 0..m |-> IF k = 0 THEN <<>> ELSE Next1(k, f[k - 1])]}
<1> HIDE DEF Next1
<1>1. 0 \in S
  <2>1. [k \in 0..0 |-> <<>>]
           = [k \in 0..0 |-> IF k = 0 THEN <<>> ELSE Next1(k, [l \in 0..0 |-> <<>>][k - 1])]
    OBVIOUS
  <2> QED
    BY <2>1
<1>2. ASSUME NEW m \in Nat, m \in S
      PROVE  m + 1 \in S
  <2>1. PICK f : f = [k \in 0..m |-> IF k = 0 THEN <<>> ELSE Next1(k, f[k - 1])]
    BY <1>2
  <2> DEFINE g == [k \in 0..m + 1 |-> IF k = m + 1 THEN Next1(m + 1, f[m]) ELSE f[k]]
  <2>2. /\ DOMAIN g = 0..m + 1 /\ \A k \in 0..m : g[k] = f[k]
        /\ g[m + 1] = Next1(m + 1, f[m])
    OBVIOUS
  <2>3. f[0] = <<>> /\ \A k \in 1..m : f[k] = Next1(k, f[k - 1])
    BY <2>1
  <2>4. ASSUME NEW k \in 0..m + 1
        PROVE  g[k] = IF k = 0 THEN <<>> ELSE Next1(k, g[k - 1])
    <3>1. CASE k = 0
      BY <2>2, <2>3, <3>1
    <3>2. CASE k \in 1..m
      <4>1. k - 1 \in 0..m /\ k \in 0..m /\ k # 0
        BY <3>2
      <4> QED
        BY <2>2, <2>3, <3>2, <4>1
    <3>3. CASE k = m + 1
      <4>1. g[k - 1] = f[m] /\ k # 0
        BY <2>2, <3>3
      <4> QED
        BY <2>2, <3>3, <4>1
    <3> QED
      BY <3>1, <3>2, <3>3
  <2>5. g = [k \in 0..m + 1 |-> IF k = 0 THEN <<>> ELSE Next1(k, g[k - 1])]
    <3> HIDE DEF g
    <3>1. g = [k \in 0..m + 1 |-> g[k]]
      BY <2>2 DEF g
    <3> QED
      BY <2>4, <3>1, Zenon
  <2> HIDE DEF g
  <2>6. \E h : h = [k \in 0..m + 1 |-> IF k = 0 THEN <<>> ELSE Next1(k, h[k - 1])]
    BY <2>5
  <2> QED
    BY <2>6
<1>3. p \in S
  BY <1>1, <1>2, InductionOn
<1> QED
  BY <1>3 DEF Next1

LEMMA LateIs ==
    ASSUME NEW items \in Seq(Items)
    PROVE  \E f : /\ f[0] = <<>> /\ TerminalCalls(items) = f[Len(items)]
                  /\ \A p \in 1..Len(items) :
                        f[p] = IF IsLate(items[p]) THEN Append(f[p - 1], items[p]) ELSE f[p - 1]
<1>1. Len(items) \in Nat
  BY LenProperties
<1> DEFINE f == CHOOSE f : f = [p \in 0..Len(items) |->
                                   IF p = 0 THEN <<>>
                                   ELSE IF items[p].type = "function_call" /\ ~Emitted(items[p].id)
                                   THEN Append(f[p - 1], items[p]) ELSE f[p - 1]]
<1>2. f = [p \in 0..Len(items) |->
               IF p = 0 THEN <<>>
               ELSE IF items[p].type = "function_call" /\ ~Emitted(items[p].id)
               THEN Append(f[p - 1], items[p]) ELSE f[p - 1]]
  BY <1>1, LateDefined
<1>3. TerminalCalls(items) = f[Len(items)]
  BY DEF TerminalCalls
<1> HIDE DEF f
<1> DEFINE With(l, p) == IF IsLate(items[p]) THEN Append(l, items[p]) ELSE l
<1>4. f = [p \in 0..Len(items) |-> IF p = 0 THEN <<>> ELSE With(f[p - 1], p)]
  BY <1>2 DEF IsLate
<1> HIDE DEF With
<1>5. f[0] = <<>> /\ \A p \in 1..Len(items) : f[p] = With(f[p - 1], p)
  BY <1>1, <1>4
<1> QED
  BY <1>3, <1>5 DEF With

LEMMA LatesOneMore ==
    ASSUME NEW items \in Seq(Items), IdsDiffer(items), NEW p \in Nat, p + 1 \in 1..Len(items),
           NEW l, Lates(l, items, p)
    PROVE  Lates(IF IsLate(items[p + 1]) THEN Append(l, items[p + 1]) ELSE l, items, p + 1)
<1>1. Len(items) \in Nat /\ DOMAIN items = 1..Len(items) /\ items[p + 1] \in Items
  BY ElementOfSeq, LenProperties
<1>2. \A j : j \in 1..p + 1 <=> j \in 1..p \/ j = p + 1
  OBVIOUS
<1>3. CASE ~IsLate(items[p + 1])
  BY <1>2, <1>3 DEF Lates
<1>4. CASE IsLate(items[p + 1])
  <2> DEFINE e == items[p + 1]
             r == Append(l, e)
  <2>1. l \in Seq(Items) /\ Len(l) \in Nat /\ DOMAIN l = 1..Len(l)
    BY LenProperties DEF Lates
  <2>2. /\ r \in Seq(Items) /\ DOMAIN r = 1..Len(l) + 1 /\ r[Len(l) + 1] = e
        /\ \A k \in 1..Len(l) : r[k] = l[k]
    BY <1>1, <2>1, AppendProperties
  <2>3. \A k \in 1..Len(l) : \E j \in 1..p : IsLate(items[j]) /\ l[k] = items[j]
    BY <2>1 DEF Lates
  <2>4. \A k \in 1..Len(l) : l[k].id # e.id
    <3> TAKE k \in 1..Len(l)
    <3>1. PICK j \in 1..p : IsLate(items[j]) /\ l[k] = items[j]
      BY <2>3
    <3>2. j \in 1..Len(items) /\ j # p + 1
      BY <1>1
    <3> QED
      BY <1>1, <1>4, <3>1, <3>2 DEF IdsDiffer, IsLate
  <2> HIDE DEF r, e
  <2>5. \A k \in DOMAIN r : \E j \in 1..p + 1 : IsLate(items[j]) /\ r[k] = items[j]
    <3> TAKE k \in DOMAIN r
    <3>1. CASE k \in 1..Len(l)
      <4>1. PICK j \in 1..p : IsLate(items[j]) /\ l[k] = items[j]
        BY <2>3, <3>1
      <4> QED
        BY <1>2, <2>2, <3>1, <4>1
    <3>2. CASE k = Len(l) + 1
      BY <1>2, <1>4, <2>2, <3>2 DEF e
    <3> QED
      BY <2>1, <2>2, <3>1, <3>2
  <2>6. \A j \in 1..p + 1 : IsLate(items[j]) => \E k \in DOMAIN r : r[k] = items[j]
    <3> TAKE j \in 1..p + 1
    <3>1. CASE j = p + 1
      BY <2>1, <2>2, <3>1 DEF e
    <3>2. CASE j \in 1..p
      BY <2>1, <2>2, <3>2 DEF Lates
    <3> QED
      BY <1>2, <3>1, <3>2
  <2>7. \A k, m \in 1..Len(l) : l[k].id = l[m].id => k = m
    BY <2>1 DEF Lates
  <2>8. \A k, m \in DOMAIN r : r[k].id = r[m].id => k = m
    BY <2>1, <2>2, <2>4, <2>7
  <2>9. Lates(r, items, p + 1)
    BY <2>2, <2>5, <2>6, <2>8 DEF Lates
  <2> QED
    BY <1>4, <2>9 DEF r, e
<1> QED
  BY <1>3, <1>4

\* Every call that was not streamed is added, once.
LEMMA LateCalls ==
    ASSUME NEW items \in Seq(Items), IdsDiffer(items)
    PROVE  Lates(TerminalCalls(items), items, Len(items))
<1>1. Len(items) \in Nat
  BY LenProperties
<1>2. PICK f : /\ f[0] = <<>> /\ TerminalCalls(items) = f[Len(items)]
               /\ \A p \in 1..Len(items) :
                     f[p] = IF IsLate(items[p]) THEN Append(f[p - 1], items[p]) ELSE f[p - 1]
  BY LateIs
<1> DEFINE S == {p \in Nat : p <= Len(items) => Lates(f[p], items, p)}
<1>3. 0 \in S
  <2>1. Lates(<<>>, items, 0)
    BY DEF Lates
  <2> QED
    BY <1>2, <2>1
<1>4. ASSUME NEW p \in Nat, p \in S
      PROVE  p + 1 \in S
  <2> SUFFICES ASSUME p + 1 <= Len(items)
               PROVE  Lates(f[p + 1], items, p + 1)
    OBVIOUS
  <2>1. p <= Len(items) /\ p + 1 \in 1..Len(items) /\ p + 1 - 1 = p
    BY <1>1
  <2>2. f[p + 1] = IF IsLate(items[p + 1]) THEN Append(f[p], items[p + 1]) ELSE f[p]
    BY <1>2, <2>1
  <2>3. Lates(f[p], items, p)
    BY <1>4, <2>1
  <2>4. Lates(IF IsLate(items[p + 1]) THEN Append(f[p], items[p + 1]) ELSE f[p], items, p + 1)
    BY <2>1, <2>3, LatesOneMore
  <2> QED
    BY <2>2, <2>4
<1>5. Len(items) \in S
  BY <1>1, <1>3, <1>4, InductionOn
<1> QED
  BY <1>1, <1>2, <1>5

-----------------------------------------------------------------------------
(* What holds of a stream while it is read.                                  *)

\* Every call that was yielded is one of the continuation, and was yielded once.
CallsStreamed ==
    /\ \A i, k \in DOMAIN calls : calls[i].id = calls[k].id => i = k
    /\ \A i \in DOMAIN calls : \E k \in DOMAIN streamed :
          streamed[k].item.type = "function_call" /\ streamed[k].item.id = calls[i].id

\* What is remembered of the searches is what was said of them.
SearchesTold ==
    /\ completed \cup failed \cup groups \subseteq SearchIds \cup {None}
    /\ told \subseteq (SearchIds \cup {None}) \X {"completed", "failed"}
    /\ \A id \in SearchIds \cup {None} : id \in completed <=> <<id, "completed">> \in told
    /\ \A id \in SearchIds \cup {None} : id \in failed <=> <<id, "failed">> \in told
    /\ groups \subseteq completed
    /\ \A k \in DOMAIN streamed : streamed[k].item.type = "web_search_call" =>
          <<streamed[k].item.id, streamed[k].item.body>> \in told

StreamIInv ==
    /\ StreamedOK
    /\ calls \in Seq(FunctionCalls)
    /\ phase \in {"streaming", "finished", "threw"} /\ reports \in Nat
    /\ phase # "finished" => finish = NoFinish
    /\ phase = "streaming" => CallsStreamed /\ SearchesTold
    /\ NextRequestIsPaired /\ SearchProofIsGenuine

-----------------------------------------------------------------------------
(* The next request.                                                        *)

LEMMA ItemIs ==
    ASSUME NEW item \in Items
    PROVE  /\ item.type \in {"message", "function_call", "web_search_call"}
           /\ item.type = "function_call" <=> item \in FunctionCalls
           /\ item.type = "web_search_call" <=> item \in Searches
           /\ item \in FunctionCalls /\ item.body # None => item.id \in CallIds /\ item.id # None
           /\ item \in Searches => /\ item.id \in SearchIds \cup {None}
                                   /\ item.body \in {"completed", "failed"}
<1>1. item \in Messages => item.type = "message"
  BY DEF Messages, Item
<1>2. item \in FunctionCalls =>
         item.type = "function_call" /\ (item.body # None => item.id \in CallIds)
  BY DEF FunctionCalls, Item
<1>3. item \in Searches => /\ item.type = "web_search_call" /\ item.id \in SearchIds \cup {None}
                           /\ item.body \in {"completed", "failed"}
  BY DEF Searches, Item
<1>4. item \in Messages \/ item \in FunctionCalls \/ item \in Searches
  BY DEF Items
<1>5. None \notin CallIds
  BY StreamAssumption
<1> QED
  BY <1>1, <1>2, <1>3, <1>4, <1>5

\* Calls and their outputs that match one to one are paired.
LEMMA MatchedIsPaired ==
    ASSUME NEW items \in Seq(Items), NEW cs \in Seq(FunctionCalls), IdsDiffer(items),
           \A i \in DOMAIN items : items[i].type = "function_call" => items[i].body # None,
           \A i, k \in DOMAIN cs : cs[i].id = cs[k].id => i = k,
           \A i \in DOMAIN items : items[i].type = "function_call" =>
              \E k \in DOMAIN cs : cs[k].id = items[i].id,
           \A k \in DOMAIN cs : \E i \in DOMAIN items :
              items[i].type = "function_call" /\ items[i].id = cs[k].id
    PROVE  Paired(items \o [i \in DOMAIN cs |-> Item("function_call_output", cs[i].id, "result")])
<1> DEFINE outs == [i \in DOMAIN cs |-> Item("function_call_output", cs[i].id, "result")]
           r == items \o outs
           m == Len(items)
           c == Len(cs)
           S == Items \cup {outs[i] : i \in 1..c}
<1>1. m \in Nat /\ DOMAIN items = 1..m /\ c \in Nat /\ DOMAIN cs = 1..c
  BY LenProperties
<1>2. \A i \in 1..m : items[i] \in Items
  BY <1>1, ElementOfSeq
<1>3. \A i \in 1..c : outs[i].type = "function_call_output" /\ outs[i].id = cs[i].id
  BY <1>1 DEF Item
<1>4. outs \in Seq(S) /\ Len(outs) = c
  <2>1. DOMAIN outs = 1..c /\ \A i \in 1..c : outs[i] \in S
    BY <1>1
  <2>2. outs = [i \in 1..c |-> outs[i]]
    BY <1>1
  <2> HIDE DEF outs
  <2>3. outs \in [1..c -> S]
    BY <2>1, <2>2
  <2>4. outs \in Seq(S)
    BY <1>1, <2>3
  <2> QED
    BY <1>1, <2>1, <2>4, LenProperties
<1>5. items \in Seq(S)
  <2>1. \A i \in 1..m : items[i] \in S
    BY <1>2
  <2> HIDE DEF S
  <2> QED
    BY <1>1, <2>1, SMT
<1> HIDE DEF outs, S
<1>6. /\ r \in Seq(S) /\ Len(r) = m + c
      /\ \A i \in 1..m + c : r[i] = IF i <= m THEN items[i] ELSE outs[i - m]
  <2>1. /\ items \o outs \in Seq(S) /\ Len(items \o outs) = Len(items) + Len(outs)
        /\ \A i \in 1..Len(items) + Len(outs) :
              (items \o outs)[i] = IF i <= Len(items) THEN items[i] ELSE outs[i - Len(items)]
    <3>1. outs \in Seq(S)
      BY <1>4
    <3> QED
      BY <1>5, <3>1, ConcatProperties
  <2> QED
    BY <1>4, <2>1
<1> HIDE DEF r
<1>7. DOMAIN r = 1..m + c
  BY <1>1, <1>6, LenProperties
<1>8. \A i \in 1..m : i \in DOMAIN r /\ r[i] = items[i] /\ r[i].type # "function_call_output"
  BY <1>1, <1>2, <1>6, <1>7, ItemIs
<1>9. \A k \in 1..c : /\ m + k \in DOMAIN r
                      /\ r[m + k].type = "function_call_output" /\ r[m + k].id = cs[k].id
  <2> TAKE k \in 1..c
  <2>1. m + k \in 1..m + c /\ ~(m + k <= m) /\ m + k - m = k
    BY <1>1
  <2>2. r[m + k] = outs[m + k - m]
    BY <1>6, <2>1
  <2> QED
    BY <1>3, <1>7, <2>1, <2>2
<1>10. \A i \in DOMAIN r : r[i].type = "function_call" => i \in 1..m
  <2> TAKE i \in DOMAIN r
  <2>1. CASE i > m
    <3>1. i - m \in 1..c /\ m + (i - m) = i
      BY <1>1, <1>7, <2>1
    <3> QED
      BY <1>9, <3>1
  <2> QED
    BY <1>1, <1>7, <2>1
<1>11. \A i \in DOMAIN r : r[i].type = "function_call_output" => i - m \in 1..c /\ m + (i - m) = i
  <2> TAKE i \in DOMAIN r
  <2>1. CASE i <= m
    BY <1>1, <1>7, <1>8, <2>1
  <2> QED
    BY <1>1, <1>7, <2>1
<1>12. \A i \in DOMAIN r : r[i].type = "function_call" => r[i].body # None
  BY <1>1, <1>8, <1>10
<1>13. \A i, j \in DOMAIN r :
          r[i].type = "function_call" /\ r[j].type = "function_call" /\ r[i].id = r[j].id => i = j
  BY <1>1, <1>8, <1>10 DEF IdsDiffer
<1>14. \A i, j \in DOMAIN r :
          r[i].type = "function_call_output" /\ r[j].type = "function_call_output" /\ r[i].id = r[j].id
          => i = j
  <2> SUFFICES ASSUME NEW i \in DOMAIN r, NEW j \in DOMAIN r, r[i].type = "function_call_output",
                      r[j].type = "function_call_output", r[i].id = r[j].id
               PROVE  i = j
    OBVIOUS
  <2>1. i - m \in 1..c /\ m + (i - m) = i /\ j - m \in 1..c /\ m + (j - m) = j
    BY <1>11
  <2>2. cs[i - m].id = cs[j - m].id
    BY <1>9, <2>1
  <2>3. i - m = j - m
    BY <1>1, <2>1, <2>2
  <2> QED
    BY <2>1, <2>3
<1>15. \A i \in DOMAIN r : r[i].type = "function_call" =>
          \E j \in DOMAIN r : r[j].type = "function_call_output" /\ j > i /\ r[j].id = r[i].id
  <2> SUFFICES ASSUME NEW i \in DOMAIN r, r[i].type = "function_call"
               PROVE  \E j \in DOMAIN r : r[j].type = "function_call_output" /\ j > i /\ r[j].id = r[i].id
    OBVIOUS
  <2>1. i \in 1..m /\ r[i] = items[i]
    BY <1>8, <1>10
  <2>2. PICK k \in 1..c : cs[k].id = items[i].id
    BY <1>1, <2>1
  <2>3. m + k > i
    BY <1>1, <2>1
  <2> QED
    BY <1>9, <2>1, <2>2, <2>3
<1>16. \A j \in DOMAIN r : r[j].type = "function_call_output" =>
          \E i \in DOMAIN r : r[i].type = "function_call" /\ r[i].id = r[j].id
  <2> SUFFICES ASSUME NEW j \in DOMAIN r, r[j].type = "function_call_output"
               PROVE  \E i \in DOMAIN r : r[i].type = "function_call" /\ r[i].id = r[j].id
    OBVIOUS
  <2>1. j - m \in 1..c /\ r[j].id = cs[j - m].id
    BY <1>9, <1>11
  <2>2. PICK i \in 1..m : items[i].type = "function_call" /\ items[i].id = cs[j - m].id
    BY <1>1, <2>1
  <2> QED
    BY <1>8, <2>1, <2>2
<1>17. Paired(r)
  BY <1>12, <1>13, <1>14, <1>15, <1>16, Zenon DEF Paired
<1> QED
  BY <1>17 DEF r, outs

\* What a completed response reports is paired once its late calls are added.
LEMMA CompletedIsPaired ==
    ASSUME StreamedOK, calls \in Seq(FunctionCalls), CallsStreamed,
           NEW output \in Seq(Items), CallsDiffer(output),
           NEW items, items = mergeResponseOutputItems(output),
           ~\E i \in DOMAIN items : items[i].type = "function_call" /\ items[i].body = None
    PROVE  LET cs == calls \o TerminalCalls(items) IN
           /\ cs \in Seq(FunctionCalls)
           /\ Paired(items \o [i \in DOMAIN cs |-> Item("function_call_output", cs[i].id, "result")])
<1> DEFINE added == TerminalCalls(items)
           cs == calls \o added
<1>1. /\ items \in Seq(Items) /\ CallsDiffer(items)
      /\ \A i \in DOMAIN streamed : \E k \in DOMAIN items :
            items[k] = streamed[i].item \/ SameItem(items[k], streamed[i].item)
  BY MergeLosesNothing
<1>2. Len(items) \in Nat /\ DOMAIN items = 1..Len(items) /\ \A i \in DOMAIN items : items[i] \in Items
  BY <1>1, LenProperties, ElementOfSeq
<1>3. \A i \in DOMAIN items : items[i].type = "function_call" =>
         /\ items[i] \in FunctionCalls /\ items[i].body # None /\ items[i].id # None
  BY <1>2, ItemIs
<1>4. IdsDiffer(items)
  <2>1. \A i, k \in DOMAIN items :
           items[i].type = "function_call" /\ items[k].type = "function_call" /\ items[i].id = items[k].id
           => SameItem(items[i], items[k])
    BY <1>3 DEF SameItem, continuationItemIdentity
  <2> QED
    BY <1>1, <2>1 DEF CallsDiffer, IdsDiffer
<1>5. Lates(added, items, Len(items))
  BY <1>1, <1>4, LateCalls
<1> HIDE DEF added
<1>6. Len(added) \in Nat /\ DOMAIN added = 1..Len(added)
  BY <1>5, LenProperties DEF Lates
<1>7. \A k \in DOMAIN added : \E j \in DOMAIN items : IsLate(items[j]) /\ added[k] = items[j]
  BY <1>2, <1>5 DEF Lates
<1>8. \A k \in DOMAIN added : added[k] \in FunctionCalls
  BY <1>3, <1>7 DEF IsLate
<1>9. added \in Seq(FunctionCalls)
  <2>1. added \in [1..Len(added) -> Items]
    BY <1>5, LenProperties DEF Lates
  <2>2. added \in [1..Len(added) -> FunctionCalls]
    BY <1>6, <1>8, <2>1
  <2> QED
    BY <1>6, <2>2
<1>10. Len(calls) \in Nat /\ DOMAIN calls = 1..Len(calls)
  BY LenProperties
<1>11. /\ cs \in Seq(FunctionCalls) /\ Len(cs) = Len(calls) + Len(added)
       /\ \A k \in 1..Len(calls) + Len(added) :
             cs[k] = IF k <= Len(calls) THEN calls[k] ELSE added[k - Len(calls)]
  BY <1>9, ConcatProperties
<1> HIDE DEF cs
<1>12. DOMAIN cs = 1..Len(calls) + Len(added)
  BY <1>11, LenProperties
<1>13. /\ \A k \in DOMAIN calls : k \in DOMAIN cs /\ cs[k] = calls[k]
       /\ \A k \in DOMAIN added : Len(calls) + k \in DOMAIN cs /\ cs[Len(calls) + k] = added[k]
  <2>1. \A k \in DOMAIN added : /\ Len(calls) + k \in 1..Len(calls) + Len(added)
                               /\ ~(Len(calls) + k <= Len(calls)) /\ Len(calls) + k - Len(calls) = k
    BY <1>6, <1>10
  <2>2. \A k \in DOMAIN calls : k \in 1..Len(calls) + Len(added) /\ k <= Len(calls)
    BY <1>6, <1>10
  <2>3. \A k \in DOMAIN added : cs[Len(calls) + k] = added[k]
    <3> TAKE k \in DOMAIN added
    <3>1. cs[Len(calls) + k] = added[Len(calls) + k - Len(calls)]
      BY <1>11, <2>1
    <3> QED
      BY <2>1, <3>1
  <2> QED
    BY <1>11, <1>12, <2>1, <2>2, <2>3
<1>14. \A k \in DOMAIN cs : \/ k \in DOMAIN calls
                            \/ k - Len(calls) \in DOMAIN added /\ k = Len(calls) + (k - Len(calls))
  BY <1>6, <1>10, <1>12
<1>15. \A k \in DOMAIN added : ~Emitted(added[k].id)
  BY <1>7 DEF IsLate
<1>16. ASSUME NEW i \in DOMAIN cs, NEW k \in DOMAIN cs, cs[i].id = cs[k].id
       PROVE  i = k
  <2>1. CASE i \in DOMAIN calls /\ k \in DOMAIN calls
    BY <1>13, <1>16, <2>1 DEF CallsStreamed
  <2>2. CASE i \in DOMAIN calls /\ k \notin DOMAIN calls
    BY <1>13, <1>14, <1>15, <1>16, <2>2 DEF Emitted
  <2>3. CASE i \notin DOMAIN calls /\ k \in DOMAIN calls
    BY <1>13, <1>14, <1>15, <1>16, <2>3 DEF Emitted
  <2>4. CASE i \notin DOMAIN calls /\ k \notin DOMAIN calls
    <3> DEFINE x == i - Len(calls)
               y == k - Len(calls)
    <3>1. x \in DOMAIN added /\ y \in DOMAIN added /\ i = Len(calls) + x /\ k = Len(calls) + y
      BY <1>14, <2>4
    <3> HIDE DEF x, y
    <3>2. added[x].id = added[y].id
      BY <1>13, <1>16, <3>1
    <3> QED
      BY <1>5, <3>1, <3>2 DEF Lates
  <2> QED
    BY <2>1, <2>2, <2>3, <2>4
<1>17. ASSUME NEW i \in DOMAIN items, items[i].type = "function_call"
       PROVE  \E k \in DOMAIN cs : cs[k].id = items[i].id
  <2>1. CASE Emitted(items[i].id)
    BY <1>13, <2>1 DEF Emitted
  <2>2. CASE ~Emitted(items[i].id)
    <3>1. PICK k \in DOMAIN added : added[k] = items[i]
      BY <1>2, <1>5, <1>17, <2>2 DEF Lates, IsLate
    <3> QED
      BY <1>13, <3>1
  <2> QED
    BY <2>1, <2>2
<1>18. ASSUME NEW k \in DOMAIN cs
       PROVE  \E i \in DOMAIN items : items[i].type = "function_call" /\ items[i].id = cs[k].id
  <2>1. CASE k \in DOMAIN calls
    <3>1. PICK i \in DOMAIN streamed :
             streamed[i].item.type = "function_call" /\ streamed[i].item.id = calls[k].id
      BY <2>1 DEF CallsStreamed
    <3>2. PICK j \in DOMAIN items :
             items[j] = streamed[i].item \/ SameItem(items[j], streamed[i].item)
      BY <1>1
    <3>3. items[j].type = streamed[i].item.type /\ items[j].id = streamed[i].item.id
      BY <3>2, SameIs
    <3> QED
      BY <1>13, <2>1, <3>1, <3>3
  <2>2. CASE k \notin DOMAIN calls
    <3>1. k - Len(calls) \in DOMAIN added /\ cs[k] = added[k - Len(calls)]
      BY <1>13, <1>14, <2>2
    <3> QED
      BY <1>7, <3>1 DEF IsLate
  <2> QED
    BY <2>1, <2>2
<1>19. Paired(items \o [i \in DOMAIN cs |-> Item("function_call_output", cs[i].id, "result")])
  BY <1>1, <1>3, <1>4, <1>11, <1>16, <1>17, <1>18, MatchedIsPaired
<1> QED
  BY <1>11, <1>19 DEF cs, added

-----------------------------------------------------------------------------
(* The proof of a web search.                                               *)

ToldBy(output) == {<<output[i].id, output[i].body>> : i \in {j \in DOMAIN output : output[j] \in Searches}}

\* What is invalidated covers every failure, streamed or terminal.
LEMMA FailuresInvalidate ==
    ASSUME StreamedOK, SearchesTold, NEW output \in Seq(Items), CallsDiffer(output),
           NEW items, items = mergeResponseOutputItems(output)
    PROVE  /\ \A t \in told \cup ToldBy(output) :
                 t[1] \in SearchIds \cup {None} /\ (t[2] = "failed" => t[1] \in Invalidated(items))
           /\ \A i \in OfSearch(items, "completed") :
                 /\ items[i].id \in SearchIds \cup {None}
                 /\ <<items[i].id, "completed">> \in told \cup ToldBy(output)
<1>1. /\ items \in Seq(Items)
      /\ \A k \in DOMAIN items : \/ \E j \in DOMAIN output : items[k] = output[j]
                                 \/ \E i \in DOMAIN streamed : items[k] = streamed[i].item
      /\ \A j \in DOMAIN output : \E k \in DOMAIN items : items[k] = output[j]
  BY MergeLosesNothing
<1>2. /\ \A i \in DOMAIN items : items[i] \in Items
      /\ \A i \in DOMAIN output : output[i] \in Items
  BY <1>1, ElementOfSeq, LenProperties
<1>3. ASSUME NEW t \in told
      PROVE  t[1] \in SearchIds \cup {None} /\ (t[2] = "failed" => t[1] \in Invalidated(items))
  <2>1. t = <<t[1], t[2]>> /\ t[1] \in SearchIds \cup {None}
    BY DEF SearchesTold
  <2>2. t[2] = "failed" => t[1] \in failed
    BY <2>1 DEF SearchesTold
  <2> QED
    BY <2>1, <2>2 DEF Invalidated
<1>4. ASSUME NEW t \in ToldBy(output)
      PROVE  t[1] \in SearchIds \cup {None} /\ (t[2] = "failed" => t[1] \in Invalidated(items))
  <2>1. PICK j \in DOMAIN output : output[j] \in Searches /\ t = <<output[j].id, output[j].body>>
    BY DEF ToldBy
  <2>2. output[j].type = "web_search_call" /\ output[j].id \in SearchIds \cup {None}
    BY <1>2, <2>1, ItemIs
  <2>3. PICK k \in DOMAIN items : items[k] = output[j]
    BY <1>1
  <2>4. output[j].body = "failed" => k \in OfSearch(items, "failed")
    BY <2>2, <2>3 DEF OfSearch
  <2> QED
    BY <2>1, <2>2, <2>3, <2>4 DEF Invalidated
<1>5. ASSUME NEW i \in OfSearch(items, "completed")
      PROVE  /\ items[i].id \in SearchIds \cup {None}
             /\ <<items[i].id, "completed">> \in told \cup ToldBy(output)
  <2>1. i \in DOMAIN items /\ items[i].type = "web_search_call" /\ items[i].body = "completed"
    BY DEF OfSearch
  <2>2. items[i] \in Searches /\ items[i].id \in SearchIds \cup {None}
    BY <1>2, <2>1, ItemIs
  <2>3. CASE \E j \in DOMAIN output : items[i] = output[j]
    BY <2>1, <2>2, <2>3 DEF ToldBy
  <2>4. CASE \E k \in DOMAIN streamed : items[i] = streamed[k].item
    BY <2>1, <2>2, <2>4 DEF SearchesTold
  <2> QED
    BY <1>1, <2>1, <2>2, <2>3, <2>4
<1> QED
  BY <1>3, <1>4, <1>5

\* A search is counted only when one is left that nothing invalidates.
LEMMA CompletionsProve ==
    ASSUME NEW items, Completions(items) > 0
    PROVE  \/ completed \ Invalidated(items) # {}
           \/ \E i \in OfSearch(items, "completed") : items[i].id \notin Invalidated(items)
<1> SUFFICES ASSUME completed \ Invalidated(items) = {},
                    {i \in OfSearch(items, "completed") : items[i].id \notin Invalidated(items)} = {}
             PROVE  FALSE
  OBVIOUS
<1> DEFINE terminal == {i \in OfSearch(items, "completed") : items[i].id \notin Invalidated(items)}
           named == {items[i].id : i \in terminal} \ {None}
           anonymous == {i \in terminal : items[i].id = None}
<1>1. named = {} /\ anonymous = {}
  OBVIOUS
<1>2. Completions(items) = Min({9, Max({Cardinality(completed \ Invalidated(items)),
                                         Cardinality(named) + Cardinality(anonymous)})})
  BY DEF Completions
<1> HIDE DEF named, anonymous
<1>3. Cardinality({}) = 0
  BY FS_EmptySet
<1>4. Completions(items) = Min({9, Max({0, 0})})
  BY <1>1, <1>2, <1>3
<1>5. Max({0, 0}) = 0
  BY DEF Max
<1>6. Min({9, 0}) = 0
  BY DEF Min
<1> QED
  BY <1>4, <1>5, <1>6

\* The sources and the searches of a completed response are proved.
LEMMA CompletedIsGenuine ==
    ASSUME StreamedOK, SearchesTold, NEW output \in Seq(Items), CallsDiffer(output),
           NEW items, items = mergeResponseOutputItems(output),
           NEW said, said = told \cup ToldBy(output),
           completedWebSearchCalls("completed", items) > 0
    PROVE  /\ \/ \E id \in SearchIds \cup {None} : <<id, "completed">> \in said /\ <<id, "failed">> \notin said
              \/ /\ forced /\ webSources(items) # {}
                 /\ \A t \in said : t[2] # "failed"
           /\ \A source \in webSources(items) \ {"page"} :
                 <<source, "completed">> \in said /\ <<source, "failed">> \notin said
           /\ "page" \in webSources(items) => \A t \in said : t[2] # "failed"
<1>1. /\ \A t \in said :
            t[1] \in SearchIds \cup {None} /\ (t[2] = "failed" => t[1] \in Invalidated(items))
      /\ \A i \in OfSearch(items, "completed") :
            items[i].id \in SearchIds \cup {None} /\ <<items[i].id, "completed">> \in said
  BY FailuresInvalidate
<1>2. \A id : id \notin Invalidated(items) => <<id, "failed">> \notin said
  BY <1>1
<1>3. Invalidated(items) = {} => \A t \in said : t[2] # "failed"
  BY <1>1
<1>4. \A id \in completed : id \in SearchIds \cup {None} /\ <<id, "completed">> \in said
  BY DEF SearchesTold
<1>5. \A id \in groups : id \in SearchIds \cup {None} /\ <<id, "completed">> \in said
  BY <1>4 DEF SearchesTold
<1>6. "page" \notin SearchIds \cup {None}
  BY StreamAssumption
<1>7. \/ \E id \in SearchIds \cup {None} : <<id, "completed">> \in said /\ <<id, "failed">> \notin said
      \/ /\ forced /\ webSources(items) # {}
         /\ \A t \in said : t[2] # "failed"
  <2>1. CASE Completions(items) > 0
    BY <1>1, <1>2, <1>4, <2>1, CompletionsProve
  <2>2. CASE ~(Completions(items) > 0)
    <3>1. forced /\ Invalidated(items) = {} /\ webSources(items) # {}
      BY <2>2 DEF completedWebSearchCalls
    <3> QED
      BY <1>3, <3>1
  <2> QED
    BY <2>1, <2>2
<1>8. ASSUME NEW source \in webSources(items), source # "page"
      PROVE  <<source, "completed">> \in said /\ <<source, "failed">> \notin said
  <2>1. /\ source \notin Invalidated(items)
        /\ source \in groups \/ \E i \in OfSearch(items, "completed") : source = items[i].id
    BY <1>8 DEF webSources
  <2> QED
    BY <1>1, <1>2, <1>5, <2>1
<1>9. ASSUME "page" \in webSources(items)
      PROVE  Invalidated(items) = {}
  <2>1. "page" \notin groups /\ \A i \in OfSearch(items, "completed") : items[i].id # "page"
    BY <1>1, <1>5, <1>6
  <2> QED
    BY <1>9, <2>1 DEF webSources
<1> QED
  BY <1>3, <1>7, <1>8, <1>9

-----------------------------------------------------------------------------
(* The inductive invariant.                                                 *)

LEMMA BoundedIs ==
    ASSUME NEW S, NEW p, NEW s \in BoundedSeq(S, p)
    PROVE  s \in Seq(S)
BY DEF BoundedSeq, SeqOf

LEMMA StreamStarts == StreamInit => StreamIInv
<1> SUFFICES ASSUME StreamInit PROVE StreamIInv
  OBVIOUS
<1>1. /\ phase = "streaming" /\ calls = <<>> /\ streamed = <<>> /\ finish = NoFinish /\ reports = 0
      /\ completed = {} /\ failed = {} /\ groups = {} /\ told = {}
  BY DEF StreamInit
<1>2. StreamedOK /\ calls \in Seq(FunctionCalls)
  BY <1>1 DEF StreamedOK
<1>3. CallsStreamed /\ SearchesTold
  BY <1>1 DEF CallsStreamed, SearchesTold
<1>4. NextRequestIsPaired /\ SearchProofIsGenuine
  BY <1>1 DEF NextRequestIsPaired, SearchProofIsGenuine, NoFinish
<1> QED
  BY <1>1, <1>2, <1>3, <1>4 DEF StreamIInv

\* A step that finishes nothing.
LEMMA NothingFinished ==
    ASSUME finish' = NoFinish
    PROVE  NextRequestIsPaired' /\ SearchProofIsGenuine'
BY DEF NextRequestIsPaired, SearchProofIsGenuine, NoFinish

LEMMA ItemDoneKeeps ==
    ASSUME StreamIInv, NEW index \in Indexes, NEW item \in Items, ItemDone(index, item)
    PROVE  StreamIInv'
<1>1. /\ phase = "streaming" /\ finish = NoFinish /\ phase' = phase /\ finish' = finish
      /\ StreamedOK /\ calls \in Seq(FunctionCalls) /\ CallsStreamed /\ SearchesTold
      /\ reports \in Nat /\ reports' = reports + 1
      /\ item \notin FunctionCalls \/ item.body # None
  BY DEF StreamIInv, ItemDone, Streaming
<1>2. Len(streamed) \in Nat /\ DOMAIN streamed = 1..Len(streamed) /\ streamed \in Seq(StreamedItem)
  BY <1>1, StreamedIs DEF StreamedOK
<1>3. [index |-> index, item |-> item] \in StreamedItem
  BY StreamAssumption DEF StreamedItem, Indexes
<1>4. streamed' = Remembered(index, item)
  BY DEF ItemDone
<1>5. /\ streamed' \in Seq(StreamedItem)
      /\ \A k \in DOMAIN streamed : k \in DOMAIN streamed' /\ streamed'[k] = streamed[k]
      /\ \A k \in DOMAIN streamed' : k \in DOMAIN streamed \/ streamed'[k].item = item
      /\ \E k \in DOMAIN streamed' : streamed'[k].item = item \/ SameItem(streamed'[k].item, item)
  <2>1. CASE \E k \in DOMAIN streamed : SameItem(streamed[k].item, item)
    BY <1>2, <1>4, <2>1 DEF Remembered
  <2>2. CASE ~\E k \in DOMAIN streamed : SameItem(streamed[k].item, item)
    <3>1. streamed' = Append(streamed, [index |-> index, item |-> item])
      BY <1>4, <2>2 DEF Remembered
    <3>2. /\ streamed' \in Seq(StreamedItem) /\ Len(streamed') = Len(streamed) + 1
          /\ \A k \in 1..Len(streamed) : streamed'[k] = streamed[k]
          /\ streamed'[Len(streamed) + 1] = [index |-> index, item |-> item]
      BY <1>2, <1>3, <3>1, AppendProperties
    <3>3. DOMAIN streamed' = 1..Len(streamed) + 1
      BY <3>2, LenProperties
    <3> QED
      BY <1>2, <3>2, <3>3
  <2> QED
    BY <2>1, <2>2
<1>6. calls' \in Seq(FunctionCalls) /\ CallsStreamed'
  <2>1. \A i \in DOMAIN calls : \E k \in DOMAIN streamed' :
           streamed'[k].item.type = "function_call" /\ streamed'[k].item.id = calls[i].id
    BY <1>1, <1>5 DEF CallsStreamed
  <2>2. CASE ~(item \in FunctionCalls /\ ~Emitted(item.id))
    <3>1. calls' = calls
      BY <2>2 DEF ItemDone
    <3> QED
      BY <1>1, <2>1, <3>1 DEF CallsStreamed
  <2>3. CASE item \in FunctionCalls /\ ~Emitted(item.id)
    <3>1. calls' = Append(calls, item)
      BY <2>3 DEF ItemDone
    <3>2. Len(calls) \in Nat /\ DOMAIN calls = 1..Len(calls)
      BY <1>1, LenProperties
    <3>3. /\ calls' \in Seq(FunctionCalls) /\ Len(calls') = Len(calls) + 1
          /\ \A k \in 1..Len(calls) : calls'[k] = calls[k]
          /\ calls'[Len(calls) + 1] = item
      BY <1>1, <2>3, <3>1, AppendProperties
    <3>4. DOMAIN calls' = 1..Len(calls) + 1
      BY <3>3, LenProperties
    <3>5. \A i \in DOMAIN calls : calls[i].id # item.id
      BY <2>3 DEF Emitted
    <3>6. \A i, k \in DOMAIN calls : calls[i].id = calls[k].id => i = k
      BY <1>1 DEF CallsStreamed
    <3>7. \A i, k \in DOMAIN calls' : calls'[i].id = calls'[k].id => i = k
      BY <3>2, <3>3, <3>4, <3>5, <3>6
    <3>8. PICK k \in DOMAIN streamed' : streamed'[k].item = item \/ SameItem(streamed'[k].item, item)
      BY <1>5
    <3>9. streamed'[k].item.type = "function_call" /\ streamed'[k].item.id = item.id
      BY <2>3, <3>8, ItemIs, SameIs
    <3>10. \A i \in DOMAIN calls' : \E l \in DOMAIN streamed' :
              streamed'[l].item.type = "function_call" /\ streamed'[l].item.id = calls'[i].id
      BY <2>1, <3>2, <3>3, <3>4, <3>8, <3>9
    <3> QED
      BY <3>3, <3>7, <3>10 DEF CallsStreamed
  <2> QED
    BY <2>2, <2>3
<1>7. SearchesTold'
  <2>1. CASE item \in Searches
    <3>1. item.id \in SearchIds \cup {None} /\ item.body \in {"completed", "failed"}
      BY <2>1, ItemIs
    <3>2. /\ completed' = completed \cup (IF item.body = "completed" THEN {item.id} ELSE {})
          /\ failed' = failed \cup (IF item.body = "failed" THEN {item.id} ELSE {})
          /\ told' = told \cup {<<item.id, item.body>>}
          /\ groups' = groups \cup (IF item.body = "completed" THEN {item.id} ELSE {})
      BY <2>1 DEF ItemDone, Reported
    <3>3. /\ completed' \cup failed' \cup groups' \subseteq SearchIds \cup {None}
          /\ told' \subseteq (SearchIds \cup {None}) \X {"completed", "failed"}
          /\ groups' \subseteq completed'
      BY <1>1, <3>1, <3>2 DEF SearchesTold
    <3>4. \A id \in SearchIds \cup {None} : id \in completed' <=> <<id, "completed">> \in told'
      BY <1>1, <3>1, <3>2 DEF SearchesTold
    <3>5. \A id \in SearchIds \cup {None} : id \in failed' <=> <<id, "failed">> \in told'
      BY <1>1, <3>1, <3>2 DEF SearchesTold
    <3>6. \A k \in DOMAIN streamed' : streamed'[k].item.type = "web_search_call" =>
             <<streamed'[k].item.id, streamed'[k].item.body>> \in told'
      BY <1>1, <1>5, <3>2 DEF SearchesTold
    <3> QED
      BY <3>3, <3>4, <3>5, <3>6 DEF SearchesTold
  <2>2. CASE item \notin Searches
    <3>1. completed' = completed /\ failed' = failed /\ groups' = groups /\ told' = told
      BY <2>2 DEF ItemDone, searchVars
    <3>2. item.type # "web_search_call"
      BY <2>2, ItemIs
    <3>3. \A k \in DOMAIN streamed' : streamed'[k].item.type = "web_search_call" =>
             <<streamed'[k].item.id, streamed'[k].item.body>> \in told'
      BY <1>1, <1>5, <3>1, <3>2 DEF SearchesTold
    <3> QED
      BY <1>1, <3>1, <3>3 DEF SearchesTold
  <2> QED
    BY <2>1, <2>2
<1>8. NextRequestIsPaired' /\ SearchProofIsGenuine'
  BY <1>1, NothingFinished
<1> QED
  BY <1>1, <1>5, <1>6, <1>7, <1>8 DEF StreamIInv, StreamedOK

LEMMA SearchEventKeeps ==
    ASSUME StreamIInv, NEW id \in SearchIds \cup {None}, NEW status \in {"completed", "failed"},
           SearchEvent(id, status)
    PROVE  StreamIInv'
<1>1. /\ phase = "streaming" /\ finish = NoFinish /\ phase' = phase /\ finish' = finish
      /\ StreamedOK /\ calls \in Seq(FunctionCalls) /\ CallsStreamed /\ SearchesTold
      /\ reports \in Nat /\ reports' = reports + 1 /\ calls' = calls /\ streamed' = streamed
  BY DEF StreamIInv, SearchEvent, Streaming
<1>2. /\ completed' = completed \cup (IF status = "completed" THEN {id} ELSE {})
      /\ failed' = failed \cup (IF status = "failed" THEN {id} ELSE {})
      /\ told' = told \cup {<<id, status>>} /\ groups' = groups
  BY DEF SearchEvent, Reported
<1>3. /\ completed' \cup failed' \cup groups' \subseteq SearchIds \cup {None}
      /\ told' \subseteq (SearchIds \cup {None}) \X {"completed", "failed"}
      /\ groups' \subseteq completed'
  BY <1>1, <1>2 DEF SearchesTold
<1>4. \A i \in SearchIds \cup {None} : i \in completed' <=> <<i, "completed">> \in told'
  BY <1>1, <1>2 DEF SearchesTold
<1>5. \A i \in SearchIds \cup {None} : i \in failed' <=> <<i, "failed">> \in told'
  BY <1>1, <1>2 DEF SearchesTold
<1>6. \A k \in DOMAIN streamed' : streamed'[k].item.type = "web_search_call" =>
         <<streamed'[k].item.id, streamed'[k].item.body>> \in told'
  BY <1>1, <1>2 DEF SearchesTold
<1>7. SearchesTold'
  BY <1>3, <1>4, <1>5, <1>6 DEF SearchesTold
<1>8. CallsStreamed' /\ StreamedOK'
  BY <1>1 DEF CallsStreamed, StreamedOK
<1>9. NextRequestIsPaired' /\ SearchProofIsGenuine'
  BY <1>1, NothingFinished
<1> QED
  BY <1>1, <1>7, <1>8, <1>9 DEF StreamIInv

LEMMA TerminalKeeps ==
    ASSUME StreamIInv, NEW status \in {"completed", "incomplete", "failed"},
           NEW output \in BoundedSeq(Items, MaxReports - reports), Terminal(status, output)
    PROVE  StreamIInv'
<1> DEFINE items == mergeResponseOutputItems(output)
           added == TerminalCalls(items)
           searches == completedWebSearchCalls(status, items)
<1>1. /\ phase = "streaming" /\ StreamedOK /\ calls \in Seq(FunctionCalls)
      /\ CallsStreamed /\ SearchesTold /\ reports \in Nat
  BY DEF StreamIInv, Terminal, Streaming
<1>2. output \in Seq(Items) /\ Len(output) \in Nat
  BY BoundedIs, LenProperties
<1>3. /\ phase' = "finished" /\ streamed' = streamed /\ reports' = reports + Len(output) /\ forced' = forced
      /\ calls' = IF status = "completed" THEN calls \o added ELSE calls
      /\ told' = told \cup ToldBy(output)
      /\ finish' = [status |-> status, items |-> items, searches |-> searches,
                    sources |-> IF status = "completed" /\ searches > 0 THEN webSources(items) ELSE {}]
      /\ status = "completed" => ~\E i \in DOMAIN items :
            items[i].type = "function_call" /\ items[i].body = None
  BY DEF Terminal, ToldBy
<1>4. CallsDiffer(output)
  <2>1. ~\E i, j \in DOMAIN output :
           i # j /\ output[i].type = "function_call" /\ SameItem(output[i], output[j])
    BY DEF Terminal, Mergeable
  <2> QED
    BY <2>1 DEF CallsDiffer
<1> HIDE DEF items
<1>5. items = mergeResponseOutputItems(output)
  BY DEF items
<1>6. CASE status = "completed"
  <2>1. /\ calls' = calls \o added /\ finish'.status = "completed" /\ finish'.items = items
        /\ finish'.searches = searches
        /\ searches > 0 => finish'.sources = webSources(items)
    BY <1>3, <1>6
  <2>2. /\ calls \o added \in Seq(FunctionCalls)
        /\ LET cs == calls \o added
           IN  Paired(items \o [i \in DOMAIN cs |-> Item("function_call_output", cs[i].id, "result")])
    BY <1>1, <1>2, <1>3, <1>4, <1>5, <1>6, CompletedIsPaired
  <2> HIDE DEF added
  <2>3. NextRequestIsPaired'
    BY <2>1, <2>2 DEF NextRequestIsPaired, Continued
  <2>4. SearchProofIsGenuine'
    <3> SUFFICES ASSUME searches > 0
                 PROVE  /\ \/ \E id \in SearchIds \cup {None} : Genuine(id)'
                           \/ /\ forced' /\ finish'.sources # {}
                              /\ \A t \in told' : t[2] # "failed"
                        /\ \A source \in finish'.sources \ {"page"} : Genuine(source)'
                        /\ "page" \in finish'.sources => \A t \in told' : t[2] # "failed"
      BY <2>1 DEF SearchProofIsGenuine
    <3>1. completedWebSearchCalls("completed", items) > 0
      BY <1>6
    <3>2. /\ \/ \E id \in SearchIds \cup {None} : <<id, "completed">> \in told' /\ <<id, "failed">> \notin told'
             \/ /\ forced /\ webSources(items) # {}
                /\ \A t \in told' : t[2] # "failed"
          /\ \A source \in webSources(items) \ {"page"} :
                <<source, "completed">> \in told' /\ <<source, "failed">> \notin told'
          /\ "page" \in webSources(items) => \A t \in told' : t[2] # "failed"
      BY <1>1, <1>2, <1>3, <1>4, <1>5, <3>1, CompletedIsGenuine
    <3>3. finish'.sources = webSources(items)
      BY <2>1
    <3>4. forced' = forced
      BY <1>3
    <3> QED
      BY <3>2, <3>3, <3>4 DEF Genuine
  <2> QED
    BY <1>1, <1>2, <1>3, <2>1, <2>2, <2>3, <2>4 DEF StreamIInv, StreamedOK
<1>7. CASE status # "completed"
  <2>1. finish'.status # "completed" /\ calls' = calls
    BY <1>3, <1>7
  <2>2. NextRequestIsPaired' /\ SearchProofIsGenuine'
    BY <2>1 DEF NextRequestIsPaired, SearchProofIsGenuine
  <2> QED
    BY <1>1, <1>2, <1>3, <2>1, <2>2 DEF StreamIInv, StreamedOK
<1> QED
  BY <1>6, <1>7

\* A repair returns the one call it asked for, or none.
LEMMA CompletesKeeps ==
    ASSUME StreamIInv, NEW path, NEW status, NEW items \in Seq(FunctionCalls),
           Len(items) <= 1, \A i \in DOMAIN items : items[i].body # None,
           Completes(path, status, items)
    PROVE  StreamIInv'
<1>1. /\ StreamedOK /\ reports \in Nat
      /\ phase' = "finished" /\ streamed' = streamed /\ reports' = reports /\ calls' = items
      /\ finish' = [NoFinish EXCEPT !.status = status, !.items = items]
  BY DEF StreamIInv, Completes
<1>2. finish'.items = items /\ finish'.searches = 0
  BY <1>1 DEF NoFinish
<1>3. SearchProofIsGenuine'
  BY <1>2 DEF SearchProofIsGenuine
<1>4. Len(items) \in Nat /\ DOMAIN items = 1..Len(items) /\ \A i \in DOMAIN items : items[i] \in FunctionCalls
  BY LenProperties, ElementOfSeq
<1>5. items \in Seq(Items)
  <2>1. \A i \in 1..Len(items) : items[i] \in Items
    BY <1>4 DEF Items
  <2>2. items \in [1..Len(items) -> FunctionCalls]
    BY LenProperties
  <2>3. items \in [1..Len(items) -> Items]
    BY <2>1, <2>2
  <2> QED
    BY <1>4, <2>3
<1>6. \A i \in DOMAIN items : items[i].type = "function_call"
  BY <1>4, <1>5, ItemIs, ElementOfSeq
<1>7. \A i, k \in DOMAIN items : i = k
  BY <1>4
<1>8. IdsDiffer(items)
  BY <1>7 DEF IdsDiffer
<1>9. Paired(items \o [i \in DOMAIN items |-> Item("function_call_output", items[i].id, "result")])
  BY <1>5, <1>6, <1>7, <1>8, MatchedIsPaired
<1>10. NextRequestIsPaired'
  BY <1>1, <1>2, <1>9 DEF NextRequestIsPaired, Continued
<1> QED
  BY <1>1, <1>3, <1>10 DEF StreamIInv, StreamedOK

LEMMA StreamStays ==
    ASSUME StreamIInv, UNCHANGED streamVars
    PROVE  StreamIInv'
BY DEF StreamIInv, streamVars, StreamedOK, CallsStreamed, SearchesTold, NextRequestIsPaired,
       Continued, SearchProofIsGenuine, Genuine

LEMMA StreamGoesOn == StreamIInv /\ [StreamNext]_streamVars => StreamIInv'
<1> SUFFICES ASSUME StreamIInv, [StreamNext]_streamVars PROVE StreamIInv'
  OBVIOUS
<1>1. CASE Created
  <2>1. /\ phase' = phase /\ calls' = calls /\ streamed' = streamed /\ finish' = finish /\ reports' = reports
        /\ completed' = completed /\ failed' = failed /\ groups' = groups /\ told' = told
        /\ phase = "streaming"
    BY <1>1 DEF Created, searchVars, Streaming
  <2>2. NextRequestIsPaired' /\ SearchProofIsGenuine'
    BY <2>1, NothingFinished DEF StreamIInv
  <2> QED
    BY <2>1, <2>2 DEF StreamIInv, StreamedOK, CallsStreamed, SearchesTold
<1>2. CASE Throws
  <2>1. /\ phase' = "threw" /\ calls' = calls /\ streamed' = streamed /\ finish' = finish
        /\ reports' = reports /\ phase = "streaming"
    BY <1>2 DEF Throws
  <2>2. NextRequestIsPaired' /\ SearchProofIsGenuine'
    BY <2>1, NothingFinished DEF StreamIInv
  <2> QED
    BY <2>1, <2>2 DEF StreamIInv, StreamedOK
<1>3. CASE \E index \in Indexes, item \in Items : ItemDone(index, item)
  BY <1>3, ItemDoneKeeps
<1>4. CASE \E id \in SearchIds \cup {None}, status \in {"completed", "failed"} : SearchEvent(id, status)
  BY <1>4, SearchEventKeeps
<1>5. CASE \E status \in {"completed", "incomplete", "failed"},
              output \in BoundedSeq(Items, MaxReports - reports) : Terminal(status, output)
  BY <1>5, TerminalKeeps
<1>6. CASE \E toolCalls \in BoundedSeq(FunctionCalls, 2) :
              streamStrictArtifactRepair(toolCalls) \/ streamFreshAnswerJsonRepair(toolCalls)
  <2>1. PICK toolCalls \in BoundedSeq(FunctionCalls, 2) :
           streamStrictArtifactRepair(toolCalls) \/ streamFreshAnswerJsonRepair(toolCalls)
    BY <1>6
  <2>2. toolCalls \in Seq(FunctionCalls) /\ DOMAIN toolCalls = 1..Len(toolCalls)
    BY BoundedIs, LenProperties
  <2>3. <<>> \in Seq(FunctionCalls) /\ Len(<<>>) <= 1 /\ DOMAIN <<>> = {}
    OBVIOUS
  <2>4. CASE \E path, status : Completes(path, status, <<>>)
    BY <2>3, <2>4, CompletesKeeps
  <2>5. CASE /\ Len(toolCalls) = 1 /\ toolCalls[1].body # None
             /\ Completes("artifact_repair", "completed", toolCalls)
    <3>1. Len(toolCalls) <= 1 /\ \A i \in DOMAIN toolCalls : toolCalls[i].body # None
      BY <2>2, <2>5
    <3> QED
      BY <2>2, <2>5, <3>1, CompletesKeeps
  <2> QED
    BY <2>1, <2>4, <2>5, Zenon DEF streamStrictArtifactRepair, streamFreshAnswerJsonRepair
<1>7. CASE UNCHANGED streamVars
  BY <1>7, StreamStays
<1> QED
  BY <1>1, <1>2, <1>3, <1>4, <1>5, <1>6, <1>7 DEF StreamNext

LEMMA StreamAlways == StreamSpec => []StreamIInv
<1> QED
  BY StreamStarts, StreamGoesOn, PTL DEF StreamSpec

\* Whichever way a completed response reports its calls, whatever their number
\* and however the service splits and repeats them, the check that the provider
\* makes of the next request (assertFunctionCallPairing) does not refuse it.
THEOREM StreamPairsTheNextRequest == StreamSpec => []NextRequestIsPaired
<1>1. StreamIInv => NextRequestIsPaired
  BY DEF StreamIInv
<1> QED
  BY <1>1, StreamAlways, PTL

\* What counts as the proof of a web search was never reported to have failed,
\* neither by the stream nor by the terminal event that was merged with it.
THEOREM StreamProvesSearches == StreamSpec => []SearchProofIsGenuine
<1>1. StreamIInv => SearchProofIsGenuine
  BY DEF StreamIInv
<1> QED
  BY <1>1, StreamAlways, PTL

===============================================================================
