---------------------------- MODULE ChatWorkspace ----------------------------
(***************************************************************************)
(* The chat page of a browser: the conversation that is selected, the        *)
(* messages that are shown, the one request for an answer that may be under   *)
(* way, and the files of the composer, each with promises that resume after   *)
(* the user has moved on.  Of the server: which conversations exist, and what *)
(* became of each question and of its quota (AgentRun has the settlement in   *)
(* full).  A callback runs to its next await, so it is one action; an abort   *)
(* rejects before the next event.                                            *)
(***************************************************************************)
EXTENDS Naturals, FiniteSets

CONSTANTS
    Conversations, Files, None,
    MaxQuestions  \* bound: questions and answer actions that are posted

ASSUME ChatWorkspaceAssumption ==
    /\ MaxQuestions \in Nat \ {0}
    /\ None \notin Conversations /\ None \notin 1..MaxQuestions

Questions == 1..MaxQuestions

VARIABLES
    exists,        \* server: conversations that exist,
    used,          \* ... and those that ever did
    answer,        \* server: what became of each question; "stopped" cannot complete any more,
    home,          \* ... the conversation that holds it
    charge,        \* ... and its quota
    conversationId,
    messages,      \* what the page shows of each question
    task,          \* the send or action that posted it: its phase, and what it is about
    stage,         \* the page is busy
    activeRunId,
    abortRef,      \* the request that an abort would reach
    cancelCall,    \* the run a cancel request is under way for
    detail,        \* the conversation whose messages are being fetched
    deletion,      \* the conversation of a DELETE under way that was the selected one
    creation,      \* conversationCreationRef
    attachment,    \* the files of the composer; "none" also for one that is cancelled or deleted
    turned         \* ghost: the conversation the user last turned to

serverVars == <<exists, used, answer, home, charge>>
runVars == <<task, stage, activeRunId, abortRef, cancelCall>>
pageVars == <<conversationId, messages, detail, deletion, turned>>
fileVars == <<creation, attachment>>
vars == <<serverVars, runVars, pageVars, fileVars>>

-----------------------------------------------------------------------------
Hidden == [status |-> "none", copy |-> "none"]
Message(status, copy) == [status |-> status, copy |-> copy]
NoTask == [kind |-> "none", phase |-> "none", about |-> None]
NoMessages == [q \in Questions |-> Hidden]
NoFiles == [f \in Files |-> "none"]

Init ==
    /\ exists \in SUBSET Conversations /\ used = exists
    /\ answer = [q \in Questions |-> "none"]
    /\ home = [q \in Questions |-> None]
    /\ charge = [q \in Questions |-> "none"]
    /\ conversationId = None /\ messages = NoMessages
    /\ task = [q \in Questions |-> NoTask]
    /\ stage = FALSE /\ activeRunId = None /\ abortRef = None /\ cancelCall = None
    /\ detail = None /\ turned = None /\ deletion = None
    /\ creation = "none" /\ attachment = NoFiles

Underway(q) == task[q].phase \in {"posting", "streaming", "refreshing"}

\* The response is not yet read to its end: the request can break off.
Unfinished(q) == task[q].phase \in {"posting", "streaming"}

\* An answer version belongs to the turn of its first question.
Turn(q) == IF task[q].kind = "send" THEN q ELSE task[q].about

-----------------------------------------------------------------------------
(* The composer is keyed by the conversation: when the key changes it is       *)
(* mounted anew, and the old one aborts its uploads.                          *)

\* One that waits for its conversation learns of that abort when it has it.
Aborted(status) ==
    CASE status = "waiting" -> "aborted"
      [] status = "uploading" -> "none"
      [] OTHER -> status

Remounted(id) ==
    IF id = conversationId THEN attachment ELSE [f \in Files |-> Aborted(attachment[f])]

\* conversationId changes and the composer keeps its list.
Show(id) == conversationId' = id /\ attachment' = Remounted(id)

MutSuperseded == detail

\* A detail request that the user has moved on from is aborted, and its number is old.
Superseded == None

\* The page turns to a conversation, or to none, with nothing in it yet.
TurnTo(id) ==
    /\ conversationId' = id /\ messages' = NoMessages /\ attachment' = NoFiles
    /\ turned' = id /\ detail' = IF id = None THEN Superseded ELSE id

-----------------------------------------------------------------------------
(* A question or an answer version, from the click to its end.               *)

Posted(q, kind, about) ==
    /\ ~stage /\ q \in Questions
    /\ task[q] = NoTask /\ \A p \in Questions : p < q => task[p] # NoTask
    /\ task' = [task EXCEPT ![q] = [kind |-> kind, phase |-> "posting", about |-> about]]
    /\ messages' = [messages EXCEPT ![q] = Message("streaming", "local")]
    /\ stage' = TRUE /\ abortRef' = q /\ activeRunId' = IF kind = "send" THEN None ELSE activeRunId
    /\ UNCHANGED <<serverVars, cancelCall, conversationId, detail, deletion, turned, creation>>

send(q) ==
    /\ \A f \in Files : attachment[f] \in {"none", "ready", "removing"}
    /\ Posted(q, "send", conversationId) /\ attachment' = NoFiles

\* The button that an answer offers.
ActionOf(status) ==
    CASE status = "completed" -> "regenerate"
      [] status = "incomplete" -> "continue"
      [] OTHER -> "retry"

\* An action on a finished answer is addressed to its turn, whatever is selected.
runAnswerAction(q, source) ==
    /\ messages[source].status \notin {"none", "streaming"} /\ answer[source] # "none"
    /\ Posted(q, ActionOf(messages[source].status), Turn(source))
    /\ UNCHANGED attachment

MutEnded(q) ==
    /\ task' = [task EXCEPT ![q].phase = "ended"]
    /\ stage' = FALSE /\ abortRef' = None /\ UNCHANGED activeRunId

\* The finally block.
Ended(q) ==
    /\ task' = [task EXCEPT ![q].phase = "ended"]
    /\ stage' = FALSE /\ activeRunId' = None /\ abortRef' = None

\* The updates of a send find its own message only, those of an action also the
\* copy a reload brought.
Shows(q) ==
    \/ messages[q].copy = "local"
    \/ task[q].kind # "send" /\ messages[q].copy = "server" /\ activeRunId = q

Marked(q, status) ==
    IF Shows(q) THEN [messages EXCEPT ![q].status = status] ELSE messages

\* What the message says of the quota.
RefundClaim(settlement) == IF settlement = "released" THEN "refunded" ELSE "unconfirmed"

\* The catch block.
Failed(q, settlement) ==
    /\ messages' = Marked(q, RefundClaim(settlement))
    /\ Ended(q)

-----------------------------------------------------------------------------
(* The server.                                                             *)

\* What an action asks of the version before it.
Allows(kind, status) ==
    \/ kind = "retry" /\ status = "failed"
    \/ kind = "continue" /\ status = "incomplete"
    \/ kind = "regenerate" /\ status = "completed"

\* It takes the question, in a conversation of its own if it names none, else in one
\* where no answer is under way (the code asks the latest version only).
Accepts(q, c) ==
    /\ task[q].phase # "none" /\ answer[q] = "none"
    /\ \/ task[q].kind = "send" /\ task[q].about = None /\ c \notin used
       \/ /\ c \in exists
          /\ \A p \in Questions : home[p] = c => answer[p] \notin {"running", "stopped"}
          /\ \/ task[q].kind = "send" /\ c = task[q].about
             \/ \E p \in Questions : /\ p # q /\ Turn(p) = Turn(q) /\ home[p] = c
                                     /\ Allows(task[q].kind, answer[p])
    /\ exists' = exists \cup {c} /\ used' = used \cup {c}
    /\ answer' = [answer EXCEPT ![q] = "running"]
    /\ home' = [home EXCEPT ![q] = c]
    /\ charge' = [charge EXCEPT ![q] = "reserved"]
    /\ UNCHANGED <<runVars, pageVars, fileVars>>

\* A stop has reached it, or its failure could not be settled and waits for recovery.
Stops(q) ==
    /\ answer[q] = "running" /\ answer' = [answer EXCEPT ![q] = "stopped"]
    /\ UNCHANGED <<exists, used, home, charge, runVars, pageVars, fileVars>>

\* An answer and its quota are settled in one transaction: complete, incomplete or,
\* by its process or by recovery, failed or cancelled.
Ends(q) ==
    /\ \/ answer[q] = "running"
          /\ \/ answer' = [answer EXCEPT ![q] = "completed"]
                /\ charge' = [charge EXCEPT ![q] = "charged"]
             \/ answer' = [answer EXCEPT ![q] = "incomplete"]
                /\ charge' = [charge EXCEPT ![q] = "released"]
       \/ answer[q] \in {"running", "stopped"}
          /\ answer' = [answer EXCEPT ![q] = "failed"]
          /\ charge' = [charge EXCEPT ![q] = "released"]
    /\ UNCHANGED <<exists, used, home, runVars, pageVars, fileVars>>

\* What run.failed and run.cancelled say of the quota: a settlement that did not
\* succeed, or was not acknowledged, is pending.
Told(q) ==
    CASE answer[q] = "failed" -> {"released", "pending"}
      [] answer[q] \in {"stopped", "completed", "incomplete"} -> {"pending"}
      [] OTHER -> {}

-----------------------------------------------------------------------------
(* What reaches the page of it.                                              *)

\* run.accepted
RunAccepted(q) ==
    /\ task[q].phase = "posting" /\ answer[q] # "none"
    /\ task' = [task EXCEPT ![q].phase = "streaming"]
    /\ activeRunId' = q
    /\ UNCHANGED <<serverVars, stage, abortRef, cancelCall, pageVars, fileVars>>

MutFinalStatus(q) == "completed"

\* meta.incomplete
FinalStatus(q) == IF answer[q] = "incomplete" THEN "incomplete" ELSE "completed"

\* run.completed and the end of the stream.  A send shows its conversation, whatever
\* the user has turned to; then both reload the history.
RunCompleted(q) ==
    /\ task[q].phase = "streaming" /\ answer[q] \in {"completed", "incomplete"}
    /\ task' = [task EXCEPT ![q].phase = "refreshing"]
    /\ messages' = Marked(q, FinalStatus(q))
    /\ IF task[q].kind = "send" THEN Show(home[q]) ELSE UNCHANGED <<conversationId, attachment>>
    /\ UNCHANGED <<serverVars, stage, activeRunId, abortRef, cancelCall, detail, deletion, turned,
                   creation>>

HistoryLoaded(q) ==
    /\ task[q].phase = "refreshing" /\ Ended(q)
    /\ UNCHANGED <<serverVars, cancelCall, pageVars, fileVars>>

\* run.failed and run.cancelled; an action's catch block does not look at the quota.
RunFailed(q) ==
    /\ task[q].phase = "streaming"
    /\ \E s \in Told(q) : Failed(q, IF task[q].kind = "send" THEN s ELSE "none")
    /\ UNCHANGED <<serverVars, cancelCall, conversationId, detail, deletion, turned, fileVars>>

\* The request is refused, which says that the settlement is pending or nothing of it;
\* or the stream breaks off, or repeats or outlives its end.
Disconnected(q) ==
    /\ Unfinished(q) /\ Failed(q, "none")
    /\ UNCHANGED <<serverVars, cancelCall, conversationId, detail, deletion, turned, fileVars>>

-----------------------------------------------------------------------------
(* Cancellation.                                                           *)

\* abortRef.current?.abort(): the request is given up, what the server does with it
\* is its own affair; a reload of the history goes on.
Aborts ==
    IF abortRef # None /\ Unfinished(abortRef)
    THEN Failed(abortRef, "none")
    ELSE UNCHANGED <<task, stage, activeRunId, abortRef, messages>>

cancelActiveRun ==
    /\ stage
    /\ IF activeRunId = None
       THEN Aborts /\ UNCHANGED cancelCall
       ELSE /\ cancelCall = None /\ cancelCall' = activeRunId
            /\ UNCHANGED <<task, stage, activeRunId, abortRef, messages>>
    /\ UNCHANGED <<serverVars, conversationId, detail, deletion, turned, fileVars>>

\* The server has stopped the run, or answers 409 because it has ended.
CancelReturns ==
    /\ cancelCall # None /\ answer[cancelCall] # "running" /\ cancelCall' = None
    /\ UNCHANGED <<serverVars, task, stage, activeRunId, abortRef, pageVars, fileVars>>

\* It did not answer in two seconds: whatever request is then under way is aborted.
CancelFails ==
    /\ cancelCall # None /\ cancelCall' = None /\ Aborts
    /\ UNCHANGED <<serverVars, conversationId, detail, deletion, turned, fileVars>>

-----------------------------------------------------------------------------
(* Conversations.                                                          *)

selectConversation(c) ==
    /\ ~stage /\ c \in used
    /\ TurnTo(c) /\ activeRunId' = None
    /\ UNCHANGED <<serverVars, task, stage, abortRef, cancelCall, deletion, creation>>

\* What a stored message says; of the texts of a failed one, the one that says most.
Restored(q) ==
    CASE answer[q] \in {"running", "stopped"} -> "streaming"
      [] answer[q] = "failed" -> "refunded"
      [] OTHER -> answer[q]

\* What the server has of the conversation replaces what is shown.
DetailArrives ==
    /\ detail # None /\ detail' = None
    /\ messages' = IF detail \in exists
                   THEN [q \in Questions |-> IF home[q] # detail THEN Hidden
                                            ELSE Message(Restored(q), "server")]
                   ELSE messages
    /\ UNCHANGED <<serverVars, runVars, conversationId, deletion, turned, fileVars>>

\* Allowed while an answer is under way.
onNew ==
    /\ TurnTo(None) /\ UNCHANGED <<serverVars, runVars, deletion, creation>>

\* Whether it was selected is remembered from the click: what it shows by then goes.
BeginDelete ==
    /\ deletion = None /\ conversationId \in exists /\ deletion' = conversationId
    /\ UNCHANGED <<serverVars, runVars, conversationId, messages, detail, turned, fileVars>>

deleteConversation ==
    /\ deletion # None /\ deletion' = None
    /\ \/ exists' = exists \ {deletion} /\ TurnTo(None)
       \/ UNCHANGED <<exists, conversationId, messages, attachment, detail, turned>>
    /\ UNCHANGED <<used, answer, home, charge, runVars, creation>>

\* It was not selected at the click, or the click was in another window.
DeletesOther(c) ==
    /\ c \in exists /\ exists' = exists \ {c}
    /\ UNCHANGED <<used, answer, home, charge, runVars, pageVars, fileVars>>

\* All conversations are gone; the request under way is aborted, and says so or not.
clearConversationState ==
    /\ exists' = {} /\ TurnTo(None)
    /\ task' = [q \in Questions |-> IF Underway(q) THEN [task[q] EXCEPT !.phase = "ended"]
                                    ELSE task[q]]
    /\ stage' = FALSE /\ activeRunId' = None /\ abortRef' = None
    /\ UNCHANGED <<used, answer, home, charge, cancelCall, deletion, creation>>

-----------------------------------------------------------------------------
(* Files.                                                                   *)

\* A file needs a conversation: the selected one, or one that is created, once for
\* all files that wait.
startUpload(f) ==
    /\ IF conversationId = None
       THEN /\ attachment' = [attachment EXCEPT ![f] = "waiting"]
            /\ creation' = IF creation = "none" THEN "posting" ELSE creation
       ELSE attachment' = [attachment EXCEPT ![f] = "uploading"] /\ UNCHANGED creation
    /\ UNCHANGED <<serverVars, runVars, pageVars>>

addFiles(f) == ~stage /\ attachment[f] = "none" /\ startUpload(f)

\* Those that wait learn of the conversation, or of their abort.
Resumed(status) ==
    attachment' = [f \in Files |-> CASE attachment[f] = "waiting" -> status
                                     [] attachment[f] = "aborted" -> "none"
                                     [] OTHER -> attachment[f]]

\* The new conversation is shown, whatever the user has turned to, ...
ensureConversation(c) ==
    /\ creation = "posting" /\ c \notin used
    /\ exists' = exists \cup {c} /\ used' = used \cup {c}
    /\ creation' = "created" /\ Show(c)
    /\ UNCHANGED <<answer, home, charge, runVars, messages, detail, deletion, turned>>

\* ... and after a reload of the history the files that wait get it.
ConversationEnsured ==
    /\ creation = "created" /\ creation' = "none" /\ Resumed("uploading")
    /\ UNCHANGED <<serverVars, runVars, pageVars>>

CreationFails ==
    /\ creation = "posting" /\ creation' = "none" /\ Resumed("failed")
    /\ UNCHANGED <<serverVars, runVars, pageVars>>

Becomes(f, statuses) ==
    /\ \E s \in statuses : attachment' = [attachment EXCEPT ![f] = s]
    /\ UNCHANGED <<serverVars, runVars, pageVars, creation>>

\* Hashed, registered, stored, scanned, parsed and polled to its end, or to a 404.
uploadChatAttachment(f) == attachment[f] = "uploading" /\ Becomes(f, {"ready", "failed", "none"})

\* One that is registered is also deleted at the server; one that waits is marked
\* as cancelled before its promise rejects.
RemoveAttachment(f) ==
    \/ attachment[f] \in {"waiting", "aborted"} /\ Becomes(f, {"none"})
    \/ attachment[f] \in {"uploading", "failed"} /\ Becomes(f, {"none", "removing"})
    \/ attachment[f] = "ready" /\ Becomes(f, {"removing"})

deleteRegisteredAttachment(f) == attachment[f] = "removing" /\ Becomes(f, {"none", "failed"})

RetryUpload(f) == attachment[f] = "failed" /\ startUpload(f)

-----------------------------------------------------------------------------
Next ==
    \/ \E q \in Questions : send(q)
    \/ \E q, source \in Questions : runAnswerAction(q, source)
    \/ \E q \in Questions, c \in Conversations : Accepts(q, c)
    \/ \E q \in Questions : Stops(q)
    \/ \E q \in Questions : Ends(q)
    \/ \E q \in Questions : RunAccepted(q)
    \/ \E q \in Questions : RunCompleted(q)
    \/ \E q \in Questions : HistoryLoaded(q)
    \/ \E q \in Questions : RunFailed(q)
    \/ \E q \in Questions : Disconnected(q)
    \/ cancelActiveRun \/ CancelReturns \/ CancelFails
    \/ \E c \in Conversations : selectConversation(c)
    \/ DetailArrives \/ onNew
    \/ BeginDelete \/ deleteConversation
    \/ \E c \in Conversations : DeletesOther(c)
    \/ clearConversationState
    \/ \E f \in Files : addFiles(f)
    \/ \E c \in Conversations : ensureConversation(c)
    \/ ConversationEnsured \/ CreationFails
    \/ \E f \in Files : uploadChatAttachment(f)
    \/ \E f \in Files : RemoveAttachment(f)
    \/ \E f \in Files : deleteRegisteredAttachment(f)
    \/ \E f \in Files : RetryUpload(f)

Spec == Init /\ [][Next]_vars

-----------------------------------------------------------------------------
(* The page is busy exactly while one answer is under way, the abort reaches   *)
(* that one, and the run the stop button names is that one or not yet known:    *)
(* through questions, answer actions, disconnects, stops that come late, and     *)
(* new, deleted and cleared conversations (abortRef, setActiveRunId, setStage).   *)
OneAnswerUnderWay ==
    /\ {q \in Questions : Underway(q)} = IF stage THEN {abortRef} ELSE {}
    /\ activeRunId \in {None, abortRef} /\ (stage \/ abortRef = None)

(* What a message says is true: a completed answer is completed and paid for at *)
(* the server, one that is incomplete is so and not paid for, and quota is said   *)
(* to be returned only when it is (run.completed with meta.incomplete, the catch   *)
(* blocks of send and runAnswerAction, a restored conversation).                  *)
OutcomeIsTrue ==
    \A q \in Questions :
        /\ messages[q].status = "completed" => answer[q] = "completed" /\ charge[q] = "charged"
        /\ messages[q].status = "incomplete" => answer[q] = "incomplete" /\ charge[q] = "released"
        /\ messages[q].status = "refunded" => charge[q] = "released"

(* Restored messages are those of the conversation the user turned to last,    *)
(* whatever order the details arrive in and whatever was selected, begun,        *)
(* deleted or cleared meanwhile (conversationDetailAbortRef and its number).      *)
LatestSelectionShown ==
    \A q \in Questions : messages[q].copy = "server" => home[q] = turned
=============================================================================
