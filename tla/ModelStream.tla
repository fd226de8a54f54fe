----------------------------- MODULE ModelStream -----------------------------
(***************************************************************************)
(* One request to the model through DeepSeekResponsesProvider: the events   *)
(* of a semantic stream, in whatever way the service splits, repeats or     *)
(* contradicts them, up to the one finish event that the orchestrator goes  *)
(* on with; and the two repairs that use a completion in one piece.  An     *)
(* event repeated with its sequence number is skipped and leaves no trace;  *)
(* a number that goes backwards throws.                                     *)
(***************************************************************************)
EXTENDS Naturals, SequencesExt

CONSTANTS
    CallIds, SearchIds,      \* ids of function calls and of web searches
    None,                    \* an id that is left out
    Arguments,               \* arguments of a call
    MAX_CONTINUATION_ITEMS,
    MaxReports               \* bound: items and search events that are reported

ASSUME StreamAssumption ==
    /\ None \notin CallIds \cup SearchIds
    /\ "page" \notin SearchIds \cup {None}
    /\ MAX_CONTINUATION_ITEMS \in Nat /\ MaxReports \in Nat

VARIABLES
    mode,      \* which of the three paths the request takes; never changes
    forced,    \* the request forces a web search; never changes
    phase,     \* "streaming", "finished", "threw"
    responseId,\* the service has named its response
    calls,     \* the function-call events that were yielded
    streamed,  \* streamedContinuationItems
    completed, \* searches that completed; None for those without an id
    failed,    \* searches that were reported to have ended otherwise
    groups,    \* searches whose sources were streamed
    finish,    \* the finish event and the sources yielded before it
    told,      \* history: what was said of each search
    reports    \* items and search events so far, for the bound

streamVars == <<mode, forced, phase, responseId, calls, streamed, completed, failed, groups,
          finish, told, reports>>
searchVars == <<completed, failed, groups, told>>

-----------------------------------------------------------------------------
(* Items of a response.  The body of a call is its arguments, None when a    *)
(* part of it is missing; the body of a search is its status; a message may  *)
(* carry annotations, which cite pages.  Reasoning is kept as messages are.  *)

Item(type, id, body) == [type |-> type, id |-> id, body |-> body]

Messages == {Item("message", "m", body) : body \in {"text", "annotated"}}
FunctionCalls == {Item("function_call", id, args) : id \in CallIds, args \in Arguments}
                 \cup {Item("function_call", None, None)}
Searches == {Item("web_search_call", id, status) :
                id \in SearchIds \cup {None}, status \in {"completed", "failed"}}
Items == Messages \cup FunctionCalls \cup Searches

\* output_index; the last one also stands for an index that is missing
Indexes == 0..MAX_CONTINUATION_ITEMS

continuationItemIdentity(item) == IF item.id = None THEN {} ELSE {<<item.type, item.id>>}
SameItem(i, j) == continuationItemIdentity(i) \cap continuationItemIdentity(j) # {}

\* assertCompatibleContinuationItems
Conflict(i, j) == SameItem(i, j) /\ i.type = "function_call" /\ i.body # j.body

NoFinish == [status |-> "none", items |-> <<>>, searches |-> 0, sources |-> {}]

StreamInit ==
    /\ mode \in {"responses", "artifact_repair", "json_repair"}
    /\ forced \in BOOLEAN /\ (forced => mode = "responses")
    /\ phase = "streaming" /\ responseId = FALSE
    /\ calls = <<>> /\ streamed = <<>>
    /\ completed = {} /\ failed = {} /\ groups = {} /\ told = {}
    /\ finish = NoFinish /\ reports = 0

Streaming == mode = "responses" /\ phase = "streaming"
Room(k) == reports + k <= MaxReports

\* What the generator throws reaches the orchestrator, which drops the request:
\* an event that makes no sense, a refused request, the deadline, an abort, a
\* stream that ends without a terminal event.
Throws ==
    /\ phase = "streaming"
    /\ phase' = "threw"
    /\ UNCHANGED <<mode, forced, responseId, calls, streamed, searchVars, finish, reports>>

Created ==
    /\ Streaming /\ ~responseId
    /\ responseId' = TRUE
    /\ UNCHANGED <<mode, forced, phase, calls, streamed, searchVars, finish, reports>>

-----------------------------------------------------------------------------
(* Streamed items and search events.                                       *)

Emitted(id) == \E i \in DOMAIN calls : calls[i].id = id

\* rememberContinuationItem, when it does not throw: the first report stays
Remembered(index, item) ==
    IF \E i \in DOMAIN streamed : SameItem(streamed[i].item, item)
    THEN streamed
    ELSE Append(streamed, [index |-> index, item |-> item])
Rememberable(item) ==
    /\ ~\E i \in DOMAIN streamed : Conflict(streamed[i].item, item)
    /\ \/ \E i \in DOMAIN streamed : SameItem(streamed[i].item, item)
       \/ Len(streamed) < MAX_CONTINUATION_ITEMS

\* What is said of one search.
Reported(id, status) ==
    /\ completed' = completed \cup (IF status = "completed" THEN {id} ELSE {})
    /\ failed' = failed \cup (IF status = "failed" THEN {id} ELSE {})
    /\ told' = told \cup {<<id, status>>}

\* response.output_item.done
ItemDone(index, item) ==
    /\ Streaming /\ Room(1) /\ Rememberable(item)
    /\ item \notin FunctionCalls \/ item.body # None
    /\ streamed' = Remembered(index, item)
    /\ calls' = IF item \in FunctionCalls /\ ~Emitted(item.id) THEN Append(calls, item) ELSE calls
    /\ IF item \in Searches
       THEN /\ Reported(item.id, item.body)
            /\ groups' = groups \cup (IF item.body = "completed" THEN {item.id} ELSE {})
       ELSE UNCHANGED searchVars
    /\ reports' = reports + 1
    /\ UNCHANGED <<mode, forced, phase, responseId, finish>>

\* response.web_search_call.completed, .failed, .incomplete or .cancelled
SearchEvent(id, status) ==
    /\ Streaming /\ Room(1)
    /\ Reported(id, status)
    /\ reports' = reports + 1
    /\ UNCHANGED <<mode, forced, phase, responseId, calls, streamed, groups, finish>>

-----------------------------------------------------------------------------
(* The terminal event.                                                     *)

Seen(items, item) == \E i \in DOMAIN items : SameItem(items[i], item)

\* streamedItems.toSorted: by index, and as they came for equal ones
Before(i, j) ==
    \/ streamed[i].index < streamed[j].index
    \/ streamed[i].index = streamed[j].index /\ i < j
Earlier(i) == {j \in DOMAIN streamed : Before(j, i)}
Sorted(n) == CHOOSE i \in DOMAIN streamed : Cardinality(Earlier(i)) = n - 1

Placed(merged, i) ==
    LET index == streamed[i].index  item == streamed[i].item
        at == IF index < Len(merged) THEN index ELSE Len(merged)
    IN IF Seen(merged, item) THEN merged ELSE InsertAt(merged, at + 1, item)

mergeResponseOutputItems(output) ==
    LET merge[n \in 0..Len(streamed)] ==
            IF n = 0 THEN output ELSE Placed(merge[n - 1], Sorted(n))
    IN merge[Len(streamed)]

\* What makes mergeResponseOutputItems throw.
Mergeable(output) ==
    /\ ~\E i, j \in DOMAIN output :
          i # j /\ output[i].type = "function_call" /\ SameItem(output[i], output[j])
    /\ ~\E i \in DOMAIN output, j \in DOMAIN streamed : Conflict(output[i], streamed[j].item)
    /\ Len(mergeResponseOutputItems(output)) <= MAX_CONTINUATION_ITEMS

\* the calls of the continuation that were not streamed
MutTerminalCalls(items) == <<>>
TerminalCalls(items) ==
    LET late[n \in 0..Len(items)] ==
            IF n = 0 THEN <<>>
            ELSE IF items[n].type = "function_call" /\ ~Emitted(items[n].id)
            THEN Append(late[n - 1], items[n]) ELSE late[n - 1]
    IN late[Len(items)]

OfSearch(items, status) ==
    {i \in DOMAIN items : items[i].type = "web_search_call" /\ items[i].body = status}

\* invalidatedWebSearchIds, and None when an anonymous search failed
MutInvalidated(items) == {items[i].id : i \in OfSearch(items, "failed")}
Invalidated(items) == failed \cup {items[i].id : i \in OfSearch(items, "failed")}

\* explicitCompletedWebSearchCalls
Completions(items) ==
    LET terminal == {i \in OfSearch(items, "completed") : items[i].id \notin Invalidated(items)}
        named == {items[i].id : i \in terminal} \ {None}
        anonymous == {i \in terminal : items[i].id = None}
    IN Min({9, Max({Cardinality(completed \ Invalidated(items)),
                    Cardinality(named) + Cardinality(anonymous)})})

\* webSources, by the search that found them; "page" for annotations
webSources(items) ==
    ((groups \cup {items[i].id : i \in OfSearch(items, "completed")}) \ Invalidated(items))
    \cup {"page" : i \in {j \in DOMAIN items :
             items[j] = Item("message", "m", "annotated") /\ Invalidated(items) = {}}}

completedWebSearchCalls(status, items) ==
    IF Completions(items) > 0 THEN Completions(items)
    ELSE IF /\ status = "completed" /\ forced
            /\ Invalidated(items) = {} /\ webSources(items) # {}
    THEN 1 ELSE 0

\* response.completed, .incomplete or .failed
Terminal(status, output) ==
    LET items == mergeResponseOutputItems(output)
        late == TerminalCalls(items)
        searches == completedWebSearchCalls(status, items)
    IN /\ Streaming /\ responseId /\ Mergeable(output)
       /\ status = "completed" => ~\E i \in DOMAIN items :
             items[i].type = "function_call" /\ items[i].body = None
       /\ calls' = IF status = "completed" THEN calls \o late ELSE calls
       /\ finish' = [status |-> status, items |-> items, searches |-> searches,
                     sources |-> IF status = "completed" /\ searches > 0
                                 THEN webSources(items) ELSE {}]
       /\ told' = told \cup {<<output[i].id, output[i].body>> :
                             i \in {j \in DOMAIN output : output[j] \in Searches}}
       /\ reports' = reports + Len(output)
       /\ phase' = "finished"
       /\ UNCHANGED <<mode, forced, responseId, streamed, completed, failed, groups>>

-----------------------------------------------------------------------------
(* The repairs ask for one completion; one that is neither cut off nor of    *)
(* the form that is asked for throws.                                        *)

Completes(path, status, items) ==
    /\ mode = path /\ phase = "streaming"
    /\ finish' = [NoFinish EXCEPT !.status = status, !.items = items]
    /\ calls' = items
    /\ phase' = "finished" /\ responseId' = TRUE
    /\ UNCHANGED <<mode, forced, streamed, searchVars, reports>>

\* one call of the tool that was asked for, or nothing when it was cut off
streamStrictArtifactRepair(toolCalls) ==
    \/ Completes("artifact_repair", "incomplete", <<>>)
    \/ /\ Len(toolCalls) = 1 /\ toolCalls[1].body # None
       /\ Completes("artifact_repair", "completed", toolCalls)

\* text, whole or cut off, and no call
streamFreshAnswerJsonRepair(toolCalls) ==
    /\ toolCalls = <<>>
    /\ \E status \in {"incomplete", "completed"} : Completes("json_repair", status, <<>>)

StreamNext ==
    \/ Created \/ Throws
    \/ \E index \in Indexes, item \in Items : ItemDone(index, item)
    \/ \E id \in SearchIds \cup {None}, status \in {"completed", "failed"} : SearchEvent(id, status)
    \/ \E status \in {"completed", "incomplete", "failed"}, output \in BoundedSeq(Items, MaxReports - reports) :
          Terminal(status, output)
    \/ \E toolCalls \in BoundedSeq(FunctionCalls, 2) :
          streamStrictArtifactRepair(toolCalls) \/ streamFreshAnswerJsonRepair(toolCalls)

StreamSpec == StreamInit /\ [][StreamNext]_streamVars

-----------------------------------------------------------------------------
(* Properties.                                                             *)

\* assertFunctionCallPairing: what the next request is refused for
Paired(input) ==
    LET Of(type) == {i \in DOMAIN input : input[i].type = type}
        Distinct(S) == \A i, j \in S : input[i].id = input[j].id => i = j
    IN /\ \A i \in Of("function_call") : input[i].body # None
       /\ Distinct(Of("function_call")) /\ Distinct(Of("function_call_output"))
       /\ \A i \in Of("function_call") : \E j \in Of("function_call_output") :
             j > i /\ input[j].id = input[i].id
       /\ \A j \in Of("function_call_output") : \E i \in Of("function_call") :
             input[i].id = input[j].id

\* What the orchestrator appends to its input for the next request: the
\* continuation, then an output for each call that it was given.
Continued == finish.items \o [i \in DOMAIN calls |->
                                 Item("function_call_output", calls[i].id, "result")]

\* Whichever way a completed response reports its calls - streamed, in the
\* terminal event, in both or twice -, the provider's own check of the next
\* request (assertFunctionCallPairing) does not refuse what it returned: the
\* orchestrator executes every call of the continuation exactly once.  After a
\* response that is not completed it executes none and sends no next request.
NextRequestIsPaired == finish.status = "completed" => Paired(Continued)

\* A web search proves what it found only as long as nothing, streamed or
\* terminal, earlier or later, says that it failed.  The discovery of web
\* evidence goes on with such a proof only, or with the pages that a forced
\* search cites when none is reported to have failed, and no source of a failed
\* search is among its candidates.
Genuine(id) == <<id, "completed">> \in told /\ <<id, "failed">> \notin told
SearchProofIsGenuine ==
    finish.status = "completed" /\ finish.searches > 0 =>
        /\ \/ \E id \in SearchIds \cup {None} : Genuine(id)
           \/ /\ forced /\ finish.sources # {}
              /\ \A t \in told : t[2] # "failed"
        /\ \A source \in finish.sources \ {"page"} : Genuine(source)
        /\ "page" \in finish.sources => \A t \in told : t[2] # "failed"
=============================================================================
