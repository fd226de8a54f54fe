-------------------------- MODULE ChatWorkspaceProofs --------------------------
(***************************************************************************)
(* Proofs about ChatWorkspace for any number of conversations, questions and *)
(* files: one answer is under way at a time, what a message says of its      *)
(* outcome is true, and what is restored is of the latest selection.         *)
(***************************************************************************)
EXTENDS ChatWorkspace, TLAPS

MaybeConversation == Conversations \cup {None}
Action == {"retry", "continue", "regenerate"}
Task == [kind : {"none", "send"} \cup Action,
         phase : {"none", "posting", "streaming", "refreshing", "ended"},
         about : MaybeConversation \cup Questions]
Status == {"streaming", "completed", "incomplete", "refunded", "unconfirmed"}
MessageRow == [status : {"none"} \cup Status,
               copy : {"none", "local", "server"}]

\* The request under way is the one an abort reaches.
BusyPart ==
    /\ task \in [Questions -> Task]
    /\ stage \in BOOLEAN
    /\ \A q \in Questions : Underway(q) <=> stage /\ q = abortRef
    /\ stage => abortRef \in Questions
    /\ ~stage => abortRef = None
    /\ activeRunId \in {None, abortRef}
    /\ cancelCall \in Questions \cup {None}

\* What the server has settled it does not settle again.
ServerPart ==
    /\ answer \in [Questions -> {"none", "running", "stopped", "completed", "incomplete", "failed"}]
    /\ charge \in [Questions -> {"none", "reserved", "charged", "released"}]
    /\ home \in [Questions -> MaybeConversation]
    /\ \A q \in Questions :
          /\ answer[q] = "none" => charge[q] = "none"
          /\ answer[q] \in {"running", "stopped"} => charge[q] = "reserved"
          /\ answer[q] = "completed" => charge[q] = "charged"
          /\ answer[q] \in {"incomplete", "failed"} => charge[q] = "released"
          /\ home[q] # None => answer[q] # "none"

MessageOK(q, m) ==
    /\ m.status = "completed" => answer[q] = "completed"
    /\ m.status = "incomplete" => answer[q] = "incomplete"
    /\ m.status = "refunded" => charge[q] = "released"
    /\ m.copy = "server" => home[q] = turned /\ answer[q] # "none"

MessagesPart ==
    /\ messages \in [Questions -> MessageRow]
    /\ \A q \in Questions : MessageOK(q, messages[q])

\* A detail request that still counts is for the latest selection.
PagePart == conversationId \in MaybeConversation /\ detail \in {None, turned}

IInv == BusyPart /\ ServerPart /\ MessagesPart /\ PagePart
-----------------------------------------------------------------------------
(* What the server has settled stays, so what messages say stays true.       *)

Settles ==
    \A q \in Questions :
        /\ answer[q] \in {"completed", "incomplete"} => answer'[q] = answer[q]
        /\ charge[q] = "released" => charge'[q] = "released"
        /\ answer[q] # "none" => answer'[q] # "none" /\ home'[q] = home[q]

LEMMA SameSettles == UNCHANGED <<answer, charge, home>> => Settles
BY DEF Settles

LEMMA Frames ==
    /\ BusyPart /\ UNCHANGED runVars => BusyPart'
    /\ ServerPart /\ UNCHANGED <<answer, charge, home>> => ServerPart'
    /\ MessagesPart /\ Settles /\ UNCHANGED <<messages, turned>> => MessagesPart'
    /\ PagePart /\ UNCHANGED <<conversationId, detail, turned>> => PagePart'
<1>1. BusyPart /\ UNCHANGED runVars => BusyPart'
  BY DEF BusyPart, runVars, Underway
<1>2. ServerPart /\ UNCHANGED <<answer, charge, home>> => ServerPart'
  BY DEF ServerPart
<1>3. MessagesPart /\ Settles /\ UNCHANGED <<messages, turned>> => MessagesPart'
  BY DEF MessagesPart, MessageOK, Settles
<1>4. PagePart /\ UNCHANGED <<conversationId, detail, turned>> => PagePart'
  BY DEF PagePart
<1> QED
  BY <1>1, <1>2, <1>3, <1>4

LEMMA MarkedIs ==
    ASSUME MessagesPart, Settles, UNCHANGED turned, NEW q \in Questions,
           NEW s \in Status, messages' = Marked(q, s),
           s \in {"completed", "incomplete"} => answer'[q] = s, s = "refunded" => charge'[q] = "released"
    PROVE  MessagesPart'
<1>1. messages' = messages \/ messages' = [messages EXCEPT ![q] = [@ EXCEPT !.status = s]]
  BY DEF Marked, MessagesPart
<1>2. CASE messages' = messages
  BY <1>2, Frames
<1>3. CASE messages' = [messages EXCEPT ![q] = [@ EXCEPT !.status = s]]
  <2>1. PICK m : m = [messages[q] EXCEPT !.status = s]
    OBVIOUS
  <2>2. m \in MessageRow /\ m.status = s /\ m.copy = messages[q].copy
    BY <2>1 DEF MessagesPart, MessageRow, Status
  <2>3. messages' \in [Questions -> MessageRow] /\ messages'[q] = m
        /\ \A p \in Questions : p # q => messages'[p] = messages[p]
    BY <1>3, <2>1, <2>2 DEF MessagesPart
  <2>4. \A p \in Questions : p # q => MessageOK(p, messages[p])'
    BY <2>3 DEF MessagesPart, MessageOK, Settles
  <2>5. MessageOK(q, messages[q])'
    BY <2>2, <2>3 DEF MessagesPart, MessageOK, Settles
  <2> QED
    BY <2>3, <2>4, <2>5 DEF MessagesPart
<1> QED
  BY <1>1, <1>2, <1>3

\* The task under way goes on ...
LEMMA PhaseIs ==
    ASSUME BusyPart, NEW q \in Questions, Underway(q), NEW s \in {"streaming", "refreshing"},
           task' = [task EXCEPT ![q].phase = s], UNCHANGED <<stage, abortRef, cancelCall>>,
           activeRunId' \in {activeRunId, q}
    PROVE  BusyPart'
<1>1. task' \in [Questions -> Task] /\ task'[q].phase = s /\ \A p \in Questions : p # q => task'[p] = task[p]
  BY DEF BusyPart, Task
<1>2. \A p \in Questions : Underway(p)' <=> Underway(p)
  BY <1>1 DEF Underway
<1>3. activeRunId' \in {None, abortRef'}
  BY DEF BusyPart
<1> QED
  BY <1>1, <1>2, <1>3 DEF BusyPart

\* ... or ends, and then nothing is.
LEMMA EndedIs ==
    ASSUME BusyPart, NEW q \in Questions, Underway(q), Ended(q), cancelCall' \in {cancelCall, None}
    PROVE  BusyPart'
<1>1. task' \in [Questions -> Task] /\ task'[q].phase = "ended" /\ \A p \in Questions : p # q => task'[p] = task[p]
  BY DEF BusyPart, Task, Ended
<1>2. \A p \in Questions : ~Underway(p)'
  BY <1>1 DEF BusyPart, Underway
<1> QED
  BY <1>1, <1>2 DEF BusyPart, Ended

LEMMA FailedIs ==
    ASSUME BusyPart, MessagesPart, Settles, UNCHANGED turned, NEW q \in Questions, Underway(q),
           NEW s \in {"none", "released", "pending"}, Failed(q, s), s = "released" => charge'[q] = "released", cancelCall' \in {cancelCall, None}
    PROVE  BusyPart' /\ MessagesPart'
<1>1. BusyPart'
  BY EndedIs DEF Failed
<1>2. PICK r : r = RefundClaim(s)
  OBVIOUS
<1>3. r \in Status /\ r \notin {"completed", "incomplete"} /\ (r = "refunded" => s = "released")
  BY <1>2 DEF RefundClaim, Status
<1>4. messages' = Marked(q, r)
  BY <1>2 DEF Failed
<1>5. MessagesPart'
  BY <1>3, <1>4, MarkedIs
<1> QED
  BY <1>1, <1>5

\* The page turns to a conversation with nothing in it yet.
LEMMA TurnToIs ==
    ASSUME NEW id \in MaybeConversation, TurnTo(id)
    PROVE  MessagesPart' /\ PagePart'
<1>1. messages' = NoMessages /\ conversationId' = id /\ turned' = id /\ detail' = IF id = None THEN None ELSE id
  BY DEF TurnTo, Superseded
<1>2. Hidden \in MessageRow /\ Hidden.status = "none" /\ Hidden.copy = "none"
  BY DEF Hidden, MessageRow
<1>3. \A q \in Questions : messages'[q] = Hidden
  BY <1>1 DEF NoMessages
<1>4. messages' \in [Questions -> MessageRow]
  BY <1>1, <1>2 DEF NoMessages
<1>5. \A q \in Questions : MessageOK(q, messages[q])'
  BY <1>2, <1>3 DEF MessageOK
<1> QED
  BY <1>1, <1>4, <1>5 DEF MessagesPart, PagePart
-----------------------------------------------------------------------------
(* One lemma for each kind of step.                                         *)

LEMMA PostedKeeps ==
    ASSUME IInv, NEW q \in Questions, NEW kind \in {"send"} \cup Action,
           NEW about \in MaybeConversation \cup Questions, Posted(q, kind, about)
    PROVE  IInv'
<1> USE DEF Posted
<1>1. BusyPart'
  <2>1. PICK t : t = [kind |-> kind, phase |-> "posting", about |-> about]
    OBVIOUS
  <2>2. t \in Task /\ t.phase = "posting"
    BY <2>1 DEF Task
  <2>3. task' \in [Questions -> Task] /\ task'[q] = t /\ \A p \in Questions : p # q => task'[p] = task[p]
    BY <2>1, <2>2 DEF IInv, BusyPart
  <2>4. \A p \in Questions : Underway(p)' <=> p = q
    BY <2>2, <2>3 DEF IInv, BusyPart, Underway
  <2>5. activeRunId' = None /\ stage' = TRUE /\ abortRef' = q /\ cancelCall' = cancelCall
    BY DEF IInv, BusyPart
  <2> QED
    BY <2>3, <2>4, <2>5 DEF IInv, BusyPart
<1>2. ServerPart' /\ PagePart'
  BY Frames DEF IInv, serverVars
<1>3. MessagesPart'
  <2>1. PICK m : m = Message("streaming", "local")
    OBVIOUS
  <2>2. m \in MessageRow /\ m.status = "streaming" /\ m.copy = "local"
    BY <2>1 DEF Message, MessageRow, Status
  <2>3. messages' \in [Questions -> MessageRow] /\ messages'[q] = m
        /\ \A p \in Questions : p # q => messages'[p] = messages[p]
    BY <2>1, <2>2 DEF IInv, MessagesPart
  <2> QED
    BY <2>2, <2>3 DEF IInv, MessagesPart, MessageOK, serverVars
<1> QED
  BY <1>1, <1>2, <1>3 DEF IInv

\* What the server does of its own.
LEMMA ServerKeeps ==
    ASSUME IInv, UNCHANGED <<runVars, pageVars>>, ServerPart', Settles
    PROVE  IInv'
BY Frames DEF IInv, pageVars

LEMMA AcceptsKeeps ==
    ASSUME IInv, NEW q \in Questions, NEW c \in Conversations, Accepts(q, c)
    PROVE  IInv'
<1>1. answer' = [answer EXCEPT ![q] = "running"] /\ home' = [home EXCEPT ![q] = c]
      /\ charge' = [charge EXCEPT ![q] = "reserved"] /\ answer[q] = "none" /\ charge[q] = "none"
  BY DEF Accepts, IInv, ServerPart
<1>2. ServerPart'
  BY <1>1 DEF IInv, ServerPart, MaybeConversation
<1>3. Settles
  BY <1>1 DEF IInv, ServerPart, Settles
<1> QED
  BY <1>2, <1>3, ServerKeeps DEF Accepts

LEMMA StopsKeeps ==
    ASSUME IInv, NEW q \in Questions, Stops(q)
    PROVE  IInv'
<1>1. ServerPart'
  BY DEF IInv, ServerPart, Stops
<1>2. Settles
  BY DEF IInv, ServerPart, Settles, Stops
<1> QED
  BY <1>1, <1>2, ServerKeeps DEF Stops

\* An answer ends, and its quota is settled with it.
LEMMA EndsKeeps ==
    ASSUME IInv, NEW q \in Questions, Ends(q)
    PROVE  IInv'
<1>1. PICK a, s : /\ \/ answer[q] = "running" /\ a = "completed" /\ s = "charged"
                     \/ answer[q] = "running" /\ a = "incomplete" /\ s = "released"
                     \/ answer[q] \in {"running", "stopped"} /\ a = "failed" /\ s = "released"
                  /\ answer' = [answer EXCEPT ![q] = a] /\ charge' = [charge EXCEPT ![q] = s]
  BY DEF Ends
<1>2. UNCHANGED home /\ ServerPart
  BY DEF Ends, IInv
<1>3. ServerPart'
  BY <1>1, <1>2 DEF ServerPart
<1>4. Settles
  BY <1>1, <1>2 DEF ServerPart, Settles
<1> QED
  BY <1>3, <1>4, ServerKeeps DEF Ends

LEMMA CancelReturnsKeeps ==
    ASSUME IInv, CancelReturns
    PROVE  IInv'
<1>1. BusyPart'
  BY DEF IInv, BusyPart, CancelReturns, Underway
<1> QED
  BY <1>1, Frames, SameSettles DEF IInv, CancelReturns, serverVars, pageVars

LEMMA RunAcceptedKeeps ==
    ASSUME IInv, NEW q \in Questions, RunAccepted(q)
    PROVE  IInv'
<1>1. PICK s \in {"streaming", "refreshing"} : s = "streaming" /\ task' = [task EXCEPT ![q].phase = s]
  BY DEF RunAccepted
<1>2. BusyPart'
  BY <1>1, PhaseIs DEF IInv, RunAccepted, Underway
<1> QED
  BY <1>2, Frames, SameSettles DEF IInv, RunAccepted, serverVars, pageVars

LEMMA RunCompletedKeeps ==
    ASSUME IInv, NEW q \in Questions, RunCompleted(q)
    PROVE  IInv'
<1>1. PICK s \in {"streaming", "refreshing"} : s = "refreshing" /\ task' = [task EXCEPT ![q].phase = s]
  BY DEF RunCompleted
<1>2. BusyPart'
  BY <1>1, PhaseIs DEF IInv, RunCompleted, Underway
<1>3. ServerPart' /\ Settles /\ UNCHANGED turned
  BY Frames, SameSettles DEF IInv, RunCompleted, serverVars
<1>4. MessagesPart'
  <2>1. PICK r : r = FinalStatus(q)
    OBVIOUS
  <2>2. r \in Status /\ r # "refunded" /\ messages' = Marked(q, r) /\ answer'[q] = r
    BY <2>1 DEF RunCompleted, serverVars, FinalStatus, Status
  <2> QED
    BY <1>3, <2>1, <2>2, MarkedIs DEF IInv
<1>5. PagePart'
  BY DEF IInv, PagePart, ServerPart, RunCompleted, Show
<1> QED
  BY <1>2, <1>3, <1>4, <1>5 DEF IInv

LEMMA HistoryLoadedKeeps ==
    ASSUME IInv, NEW q \in Questions, HistoryLoaded(q)
    PROVE  IInv'
<1>1. BusyPart'
  BY EndedIs DEF IInv, HistoryLoaded, Underway
<1> QED
  BY <1>1, Frames, SameSettles DEF IInv, HistoryLoaded, serverVars, pageVars

LEMMA RunFailedKeeps ==
    ASSUME IInv, NEW q \in Questions, RunFailed(q)
    PROVE  IInv'
<1>1. PICK t \in Told(q) : Failed(q, IF task[q].kind = "send" THEN t ELSE "none")
  BY DEF RunFailed
<1> PICK s : s = IF task[q].kind = "send" THEN t ELSE "none"
  OBVIOUS
<1>2. Failed(q, s) /\ Underway(q) /\ Settles /\ UNCHANGED <<turned, cancelCall, charge, answer, home>>
  BY <1>1, SameSettles DEF RunFailed, Underway, serverVars
<1>3. s \in {"none", "released", "pending"} /\ (s = "released" => charge'[q] = "released")
  BY <1>2 DEF Told, IInv, ServerPart
<1>4. BusyPart' /\ MessagesPart'
  BY <1>2, <1>3, FailedIs DEF IInv
<1> QED
  BY <1>2, <1>4, Frames DEF IInv, RunFailed

LEMMA DisconnectedKeeps ==
    ASSUME IInv, NEW q \in Questions, Disconnected(q)
    PROVE  IInv'
<1>1. PICK s \in {"none", "released", "pending"} : s = "none"
  OBVIOUS
<1>2. Failed(q, s) /\ Underway(q) /\ Settles /\ UNCHANGED <<turned, cancelCall, charge, answer, home>>
  BY <1>1, SameSettles DEF Disconnected, Unfinished, Underway, serverVars
<1>3. BusyPart' /\ MessagesPart'
  BY <1>1, <1>2, FailedIs DEF IInv
<1> QED
  BY <1>2, <1>3, Frames DEF IInv, Disconnected

LEMMA AbortsIs ==
    ASSUME IInv, Aborts, UNCHANGED <<serverVars, turned>>, cancelCall' \in {cancelCall, None}
    PROVE  BusyPart' /\ MessagesPart'
<1>1. Settles /\ UNCHANGED <<answer, charge, home>>
  BY SameSettles DEF serverVars
<1>2. CASE abortRef # None /\ Unfinished(abortRef)
  <2>1. PICK q \in Questions : q = abortRef
    BY <1>2 DEF IInv, BusyPart
  <2>2. PICK s \in {"none", "released", "pending"} : s = "none"
    OBVIOUS
  <2>3. Failed(q, s) /\ Underway(q)
    BY <1>2, <2>1, <2>2 DEF Aborts, Unfinished, Underway
  <2> QED
    BY <1>1, <2>2, <2>3, FailedIs DEF IInv
<1>3. CASE UNCHANGED <<task, stage, activeRunId, abortRef, messages>>
  <2>1. BusyPart'
    BY <1>3 DEF IInv, BusyPart, Underway
  <2> QED
    BY <1>1, <1>3, <2>1, Frames DEF IInv
<1> QED
  BY <1>2, <1>3 DEF Aborts

LEMMA cancelActiveRunKeeps == ASSUME IInv, cancelActiveRun PROVE IInv'
<1>1. BusyPart' /\ MessagesPart'
  <2>1. CASE activeRunId = None
    BY <2>1, AbortsIs DEF cancelActiveRun
  <2>2. CASE activeRunId # None
    <3>1. BusyPart'
      BY <2>2 DEF IInv, BusyPart, Underway, cancelActiveRun
    <3>2. MessagesPart'
      BY <2>2, Frames, SameSettles DEF IInv, cancelActiveRun, serverVars
    <3> QED
      BY <3>1, <3>2
  <2> QED
    BY <2>1, <2>2
<1> QED
  BY <1>1, Frames DEF IInv, cancelActiveRun, serverVars

LEMMA CancelFailsKeeps == ASSUME IInv, CancelFails PROVE IInv'
<1>1. BusyPart' /\ MessagesPart'
  BY AbortsIs DEF CancelFails
<1> QED
  BY <1>1, Frames DEF IInv, CancelFails, serverVars

LEMMA selectConversationKeeps ==
    ASSUME IInv, NEW c \in Conversations, selectConversation(c)
    PROVE  IInv'
<1>1. MessagesPart' /\ PagePart'
  BY TurnToIs DEF selectConversation, MaybeConversation
<1>2. BusyPart'
  BY DEF IInv, BusyPart, Underway, selectConversation
<1> QED
  BY <1>1, <1>2, Frames DEF IInv, selectConversation, serverVars

\* What arrives is of the conversation the page has turned to.
LEMMA DetailArrivesKeeps == ASSUME IInv, DetailArrives PROVE IInv'
<1>1. BusyPart' /\ ServerPart' /\ Settles /\ UNCHANGED <<answer, charge, home, turned>> /\ PagePart'
  BY Frames, SameSettles DEF IInv, DetailArrives, serverVars, PagePart
<1>2. detail = turned /\ detail # None
  BY DEF IInv, PagePart, DetailArrives
<1>3. MessagesPart'
  <2>1. CASE messages' = messages
    BY <1>1, <2>1, Frames DEF IInv
  <2>2. CASE messages' = [q \in Questions |-> IF home[q] # detail THEN Hidden
                                             ELSE Message(Restored(q), "server")]
    <3>1. ASSUME NEW q \in Questions
          PROVE  messages'[q] \in MessageRow /\ MessageOK(q, messages[q])'
      <4>1. CASE home[q] # detail
        <5>1. messages'[q] = Hidden
          BY <2>2, <4>1
        <5> QED
          BY <5>1 DEF Hidden, MessageRow, MessageOK
      <4>2. CASE home[q] = detail
        <5>1. PICK s : s = Restored(q)
          OBVIOUS
        <5>2. answer[q] # "none"
          BY <1>2, <4>2 DEF IInv, ServerPart
        <5>3. /\ s \in Status
              /\ s \in {"completed", "incomplete"} => answer[q] = s
              /\ s = "refunded" => charge[q] = "released"
          BY <5>1, <5>2 DEF Restored, Status, IInv, ServerPart
        <5>4. messages'[q] = Message(s, "server")
          BY <2>2, <4>2, <5>1
        <5> QED
          BY <1>1, <1>2, <4>2, <5>2, <5>3, <5>4 DEF Message, MessageRow, MessageOK
      <4> QED
        BY <4>1, <4>2
    <3>2. messages' \in [Questions -> MessageRow]
      BY <2>2, <3>1
    <3> QED
      BY <3>1, <3>2 DEF MessagesPart
  <2> QED
    BY <2>1, <2>2 DEF DetailArrives
<1> QED
  BY <1>1, <1>3 DEF IInv

LEMMA onNewKeeps == ASSUME IInv, onNew PROVE IInv'
<1>1. MessagesPart' /\ PagePart'
  BY TurnToIs DEF onNew, MaybeConversation
<1> QED
  BY <1>1, Frames DEF IInv, onNew, serverVars

LEMMA deleteConversationKeeps == ASSUME IInv, deleteConversation PROVE IInv'
<1>1. BusyPart' /\ ServerPart' /\ Settles
  BY Frames, SameSettles DEF IInv, deleteConversation
<1>2. CASE TurnTo(None)
  BY <1>1, <1>2, TurnToIs DEF IInv, MaybeConversation
<1>3. CASE UNCHANGED <<exists, conversationId, messages, attachment, detail, turned>>
  BY <1>1, <1>3, Frames DEF IInv
<1> QED
  BY <1>2, <1>3 DEF deleteConversation

\* Whatever was under way is over.
LEMMA clearConversationStateKeeps == ASSUME IInv, clearConversationState PROVE IInv'
<1>1. MessagesPart' /\ PagePart'
  BY TurnToIs DEF clearConversationState, MaybeConversation
<1>2. BusyPart'
  <2>1. \A q \in Questions : task'[q] \in Task /\ ~Underway(q)'
    <3> TAKE q \in Questions
    <3>1. task'[q] = IF Underway(q) THEN [task[q] EXCEPT !.phase = "ended"] ELSE task[q]
      BY DEF clearConversationState
    <3>2. task[q] \in Task
      BY DEF IInv, BusyPart
    <3> QED
      BY <3>1, <3>2 DEF Task, Underway
  <2>2. task' \in [Questions -> Task]
    BY <2>1 DEF clearConversationState
  <2> QED
    BY <2>1, <2>2 DEF IInv, BusyPart, clearConversationState
<1> QED
  BY <1>1, <1>2, Frames DEF IInv, clearConversationState

LEMMA ensureConversationKeeps ==
    ASSUME IInv, NEW c \in Conversations, ensureConversation(c)
    PROVE  IInv'
<1>1. PagePart'
  BY DEF IInv, PagePart, ensureConversation, Show, MaybeConversation
<1> QED
  BY <1>1, Frames, SameSettles DEF IInv, ensureConversation

\* What touches none of what the invariant is about.
LEMMA OthersKeep ==
    ASSUME IInv, UNCHANGED <<answer, charge, home, runVars, conversationId, messages, detail, turned>>
    PROVE  IInv'
BY Frames, SameSettles DEF IInv
-----------------------------------------------------------------------------
LEMMA InitHolds == Init => IInv
<1> SUFFICES ASSUME Init PROVE IInv
  OBVIOUS
<1>1. Hidden \in MessageRow /\ Hidden.status = "none" /\ Hidden.copy = "none"
      /\ NoTask \in Task /\ NoTask.phase = "none"
  BY DEF Hidden, MessageRow, NoTask, Task, MaybeConversation
<1>2. BusyPart
  BY <1>1 DEF Init, BusyPart, Underway
<1>3. ServerPart
  BY DEF Init, ServerPart, MaybeConversation
<1>4. MessagesPart
  BY <1>1 DEF Init, MessagesPart, MessageOK, NoMessages
<1>5. PagePart
  BY DEF Init, PagePart, MaybeConversation
<1> QED
  BY <1>2, <1>3, <1>4, <1>5 DEF IInv

LEMMA Step == IInv /\ [Next]_vars => IInv'
<1> SUFFICES ASSUME IInv, [Next]_vars PROVE IInv'
  OBVIOUS
<1>1. ASSUME NEW q \in Questions, send(q) PROVE IInv'
  <2>1. PICK kind \in {"send"} \cup Action : kind = "send"
    OBVIOUS
  <2>2. conversationId \in MaybeConversation \cup Questions
    BY DEF IInv, PagePart
  <2> QED
    BY <1>1, <2>1, <2>2, PostedKeeps DEF send
<1>2. ASSUME NEW q \in Questions, NEW source \in Questions, runAnswerAction(q, source) PROVE IInv'
  <2>1. PICK kind \in {"send"} \cup Action : kind = ActionOf(messages[source].status)
    BY DEF ActionOf, Action
  <2>2. Turn(source) \in MaybeConversation \cup Questions
    BY DEF Turn, IInv, BusyPart, Task
  <2> QED
    BY <1>2, <2>1, <2>2, PostedKeeps DEF runAnswerAction
<1>3. ASSUME NEW q \in Questions, \/ \E c \in Conversations : Accepts(q, c)
                                  \/ Stops(q) \/ Ends(q) \/ RunAccepted(q) \/ RunCompleted(q)
                                  \/ HistoryLoaded(q) \/ RunFailed(q) \/ Disconnected(q)
      PROVE  IInv'
  BY <1>3, AcceptsKeeps, StopsKeeps, EndsKeeps, RunAcceptedKeeps, RunCompletedKeeps,
     HistoryLoadedKeeps, RunFailedKeeps, DisconnectedKeeps
<1>4. CASE cancelActiveRun \/ CancelReturns \/ CancelFails
  BY <1>4, cancelActiveRunKeeps, CancelReturnsKeeps, CancelFailsKeeps
<1>5. ASSUME NEW c \in Conversations, selectConversation(c) \/ ensureConversation(c) PROVE IInv'
  BY <1>5, selectConversationKeeps, ensureConversationKeeps
<1>6. CASE DetailArrives \/ onNew \/ deleteConversation \/ clearConversationState
  BY <1>6, DetailArrivesKeeps, onNewKeeps, deleteConversationKeeps, clearConversationStateKeeps
<1>7. CASE BeginDelete \/ ConversationEnsured \/ CreationFails
  BY <1>7, OthersKeep DEF BeginDelete, ConversationEnsured, CreationFails, serverVars, pageVars
<1>8. ASSUME NEW c \in Conversations, DeletesOther(c) PROVE IInv'
  BY <1>8, OthersKeep DEF DeletesOther, pageVars
<1>9. ASSUME NEW f \in Files, \/ addFiles(f) \/ uploadChatAttachment(f) \/ RemoveAttachment(f)
                              \/ deleteRegisteredAttachment(f) \/ RetryUpload(f)
      PROVE  IInv'
  BY <1>9, OthersKeep DEF addFiles, uploadChatAttachment, RemoveAttachment, deleteRegisteredAttachment,
     RetryUpload, startUpload, Becomes, serverVars, pageVars
<1>10. CASE UNCHANGED vars
  BY <1>10, OthersKeep DEF vars, serverVars, pageVars
<1> QED
  BY <1>1, <1>2, <1>3, <1>4, <1>5, <1>6, <1>7, <1>8, <1>9, <1>10 DEF Next

\* The page, the request it has posted and what the server has settled agree.
THEOREM Inductive == Spec => []IInv
BY InitHolds, Step, PTL DEF Spec

\* The page is busy exactly while one answer is under way, an abort reaches that
\* one, and the stop button names it or no run yet (abortRef, setActiveRunId).
THEOREM OneUnderWay == Spec => []OneAnswerUnderWay
<1>1. IInv => OneAnswerUnderWay
  <2> SUFFICES ASSUME IInv PROVE OneAnswerUnderWay
    OBVIOUS
  <2>1. {q \in Questions : Underway(q)} = IF stage THEN {abortRef} ELSE {}
    <3>1. CASE stage
      BY <3>1 DEF IInv, BusyPart
    <3>2. CASE ~stage
      BY <3>2 DEF IInv, BusyPart
    <3> QED
      BY <3>1, <3>2
  <2> QED
    BY <2>1 DEF OneAnswerUnderWay, IInv, BusyPart
<1> QED
  BY <1>1, Inductive, PTL

\* A message that says the answer is complete, incomplete or its quota returned is right:
\* a run that ends incomplete, and is not paid for, arrives by the event of a completed
\* one; stops come late, streams are lost, conversations restored.
THEOREM OutcomesAreTrue == Spec => []OutcomeIsTrue
<1>1. IInv => OutcomeIsTrue
  BY DEF IInv, OutcomeIsTrue, MessagesPart, MessageOK, ServerPart
<1> QED
  BY <1>1, Inductive, PTL

\* What a reload brings is of the conversation the user turned to last.
THEOREM LatestIsShown == Spec => []LatestSelectionShown
<1>1. IInv => LatestSelectionShown
  BY DEF IInv, LatestSelectionShown, MessagesPart, MessageOK
<1> QED
  BY <1>1, Inductive, PTL
=============================================================================
