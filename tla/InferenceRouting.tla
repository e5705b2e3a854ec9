--------------------------- MODULE InferenceRouting ---------------------------
(***************************************************************************)
(* One request of inference-service, from its route to its answer: the     *)
(* Orchestrator with BaseTaskService ("task"), and OpenAIProxyService for  *)
(* "chat", "stream" and audio "upload".  The requested service is called   *)
(* first and, when its model cannot be reached, the fallbacks the          *)
(* Application has for it, in order.                                       *)
(*                                                                         *)
(* Billing reads the spans a request exports: `spans` are the successful   *)
(* ai-inference spans, <<service, group>>, and `report` is the request     *)
(* span the usage row is written from.  A task payload is one or, in call  *)
(* mode per_item, several groups, each with a call and a span of its own.  *)
(* A span charges only what it counts: nothing when the unit is unknown    *)
(* (the catalogue does not answer, an answer comes without usage) or when  *)
(* the group has nothing to count.                                         *)
(***************************************************************************)
EXTENDS Integers, Sequences, SequencesExt

CONSTANTS Service, Requested, MaxGroups, MaxFallbacks

VARIABLES
    kind,     \* which route took the request
    groups,   \* calls the payload makes to the service that answers it
    empty,    \* the groups of a task in which nothing can be counted
    info,     \* what resolving each service gives
    chain,    \* the Application's fallbacks for Requested, as Redis has them
    at,       \* "start", "call", "streaming", "next" fallback, or "done"
    calls,    \* services run on the payload, in order
    unit,     \* the last of them knows what its answer is counted in
    answered, \* completed_groups of the current service
    todo,     \* fallbacks not looked at yet
    named,    \* the service id the request carries (request.state, span attrs)
    spans,
    charged,  \* groups whose span has a count, which billing charges
    report,
    status    \* HTTP status of the answer; 0 before it

request == <<kind, groups, empty, info, chain>>
run == <<calls, unit>>
billed == <<spans, charged>>
vars == <<request, at, run, answered, todo, named, billed, report, status>>

\* "unknown": not registered or not published; "down": the registry does not
\* answer; "gated": not in the caller's tier; "broken": no class_instance, name
\* or endpoint.
Resolution == {"open", "unknown", "down", "gated", "broken"}
NoReport == [service |-> "none", status |-> 0]

IsTask == kind = "task"

Chains == {c \in SeqOf(Service \ {Requested}, MaxFallbacks) : IsInjective(c)}

\* No call was made yet.
Fresh ==
    /\ at = "start" /\ calls = <<>> /\ unit = FALSE /\ answered = 0 /\ todo = <<>>
    /\ named = Requested /\ spans = <<>> /\ charged = {} /\ report = NoReport /\ status = 0

Init ==
    /\ kind \in {"task", "chat", "stream", "upload"}
    /\ groups \in IF kind = "task" THEN 1..MaxGroups ELSE {1}
    /\ empty \in IF kind = "task" THEN SUBSET (1..groups) ELSE {{}}
    /\ info \in [Service -> Resolution]
    /\ chain \in Chains
    /\ Fresh

Current == Last(calls)
OnFallback == Current # Requested

----------------------------------------------------------------------------
(* Answers.  An upload opens no request span.                              *)

\* The answer and the request span, which names `service` and has status `seen`.
Report(code, service, seen) ==
    /\ status' = code
    /\ report' = IF kind = "upload" THEN NoReport ELSE [service |-> service, status |-> seen]
    /\ at' = "done"

Fail(code) == Report(code, named, code) /\ UNCHANGED <<request, named>>

\* The unit of a task is read from the catalogue when the run starts; a chat's
\* answer or the last chunk of a stream carries its usage, or does not.
Call(s) ==
    /\ calls' = Append(calls, s)
    /\ unit' \in BOOLEAN
    /\ answered' = 0
    /\ at' = "call"
    /\ UNCHANGED <<request, named, billed, report, status>>

\* A service that does not resolve, and what the client gets for it; only the
\* proxy answers 503 for a registry that is down or a row without endpoint.
ResolveError(s) ==
    CASE info[s] = "unknown" -> 404
      [] info[s] = "gated" -> 403
      [] OTHER -> IF IsTask THEN 502 ELSE 503

Refuse ==
    /\ at = "start" /\ info[Requested] # "open"
    /\ Fail(ResolveError(Requested))
    /\ UNCHANGED <<run, answered, todo, billed>>

\* validate_request_tags, an unknown task type, a file over the limit.
Reject ==
    /\ at = "start"
    /\ Fail(400)
    /\ UNCHANGED <<run, answered, todo, billed>>

\* The PII policy of a chat cannot be evaluated or applied.
Block ==
    /\ at = "start" /\ info[Requested] = "open"
    /\ kind \in {"chat", "stream"}
    /\ Fail(503)
    /\ UNCHANGED <<run, answered, todo, billed>>

Send ==
    /\ at = "start" /\ info[Requested] = "open"
    /\ Call(Requested)
    /\ UNCHANGED todo

----------------------------------------------------------------------------
(* The call to the current service.                                        *)

\* Mistake: the request keeps the name it came with.
ServedNameless == UNCHANGED named

\* _apply_fallback_state, request.state.service_id = fb_id.
Served == named' = Current

\* The ai-inference span of group g ends well; billing charges what it counts.
Meter(g) ==
    /\ spans' = Append(spans, <<Current, g>>)
    /\ charged' = IF unit /\ g \notin empty THEN charged \union {g} ELSE charged

\* One group of a task is answered.  The last one is also the answer, unless
\* postprocess_output fails on it.
AnswerGroup ==
    /\ at = "call" /\ IsTask
    /\ Meter(answered + 1)
    /\ answered' = answered + 1
    /\ \/ answered' < groups /\ UNCHANGED <<at, named, report, status>>
       \/ answered' = groups /\ Served /\ Report(200, named', 200)
       \/ answered' = groups /\ Report(500, named, 500) /\ UNCHANGED named
    /\ UNCHANGED <<request, run, todo>>

\* The model answers a chat or an upload.  A chat's answer can still be withheld
\* when the PII policy fails on it; it was charged by then.
Answer ==
    /\ at = "call" /\ kind \in {"chat", "upload"}
    /\ IF kind = "chat" THEN Meter(1) ELSE UNCHANGED billed
    /\ Served
    /\ \/ Report(200, named', 200)
       \/ kind = "chat" /\ Report(500, named', 500)
    /\ UNCHANGED <<request, run, answered, todo>>

\* proxy_stream has the first line: the client is told 200.
StreamStarts ==
    /\ at = "call" /\ kind = "stream"
    /\ Served
    /\ at' = "streaming" /\ status' = 200
    /\ UNCHANGED <<request, run, answered, todo, billed, report>>

\* The model refuses the input, or its output cannot be converted.  The proxy
\* passes the status on as the answer of that service.
Refused ==
    /\ at = "call"
    /\ IF IsTask
       THEN (\E code \in {400, 404, 500, 502} : Report(code, named, code)) /\ UNCHANGED named
       ELSE Served /\ Report(400, named', 400)
    /\ UNCHANGED <<request, run, answered, todo, billed>>

\* get_fallbacks; without an Application or with Redis down there are none.
Fallbacks(found) == IF found THEN chain ELSE <<>>

\* Mistake: the fallbacks are tried whatever was answered already.
GoOnAlways(found) == todo' = IF OnFallback THEN todo ELSE Fallbacks(found)

\* Which fallbacks are left: none once a group was answered, since its span is
\* exported and the payload must not run twice.
GoOn(found) ==
    todo' = IF answered > 0 THEN <<>> ELSE IF OnFallback THEN todo ELSE Fallbacks(found)

\* Timeout, connection error or 5xx.  Without fallbacks the client gets the
\* failure of the requested service, else the next one's turn has come.
Unavailable ==
    /\ at = "call"
    /\ \E found \in BOOLEAN :
        /\ GoOn(found)
        /\ IF ~OnFallback /\ todo' = <<>>
           THEN Fail(502)
           ELSE at' = "next" /\ UNCHANGED <<request, named, report, status>>
    /\ UNCHANGED <<run, answered, billed>>

----------------------------------------------------------------------------
(* The next fallback.                                                      *)

\* Mistake: a fallback that cannot be used ends the search.
SkipRest == todo' = <<>>

SkipOne == todo' = Tail(todo)

\* A fallback that no longer resolves or is not in the caller's tier is skipped;
\* the Orchestrator finds a missing class_instance only after that.
Skip ==
    /\ at = "next" /\ todo # <<>>
    /\ info[Head(todo)] \in {"unknown", "down", "gated"} \/ (~IsTask /\ info[Head(todo)] = "broken")
    /\ SkipOne
    /\ UNCHANGED <<request, at, run, answered, named, billed, report, status>>

Misconfigured ==
    /\ at = "next" /\ todo # <<>>
    /\ IsTask /\ info[Head(todo)] = "broken"
    /\ Fail(502)
    /\ UNCHANGED <<run, answered, todo, billed>>

TryNext ==
    /\ at = "next" /\ todo # <<>>
    /\ info[Head(todo)] = "open"
    /\ Call(Head(todo))
    /\ todo' = Tail(todo)

\* AllServicesUnavailableError, _all_unavailable: under the requested name.
AllUnavailable ==
    /\ at = "next" /\ todo = <<>>
    /\ Fail(503)
    /\ UNCHANGED <<run, answered, todo, billed>>

----------------------------------------------------------------------------
(* A stream that has started is never switched to another service.         *)

\* The client has read the whole stream.
StreamEnds ==
    /\ at = "streaming"
    /\ Meter(1)
    /\ Report(200, named, 200)
    /\ UNCHANGED <<request, run, answered, todo, named>>

\* The upstream breaks off, or the buffered text cannot be masked: the tokens
\* are zeroed and the span says failure, the client has its 200.
StreamBreaks ==
    /\ at = "streaming"
    /\ Report(200, named, 500)
    /\ UNCHANGED <<request, run, answered, todo, named, billed>>

\* The client goes away: traced_span only catches Exception, so the spans are
\* exported without attributes.
ClientLeaves ==
    /\ at = "streaming"
    /\ at' = "done"
    /\ UNCHANGED <<request, run, answered, todo, named, billed, report, status>>

Next ==
    \/ Refuse \/ Reject \/ Block \/ Send
    \/ AnswerGroup \/ Answer \/ StreamStarts \/ Refused \/ Unavailable
    \/ Skip \/ Misconfigured \/ TryNext \/ AllUnavailable
    \/ StreamEnds \/ StreamBreaks \/ ClientLeaves

Spec == Init /\ [][Next]_vars

----------------------------------------------------------------------------

\* completed_groups and the `stop` of _run_fallback_service: however calls fail on
\* the way, the groups of a payload leave their spans in order, each at most once and
\* all of them at one service - a client never pays two services for one input.
BilledByOne ==
    \A i \in DOMAIN spans : spans[i] = <<Current, i>>

\* The usage row is written from the request span and the charge from the
\* ai-inference spans: a request reported as a success names the service that
\* answered it, that service has a span for every group, and the request is charged
\* as a whole or not at all: for every group that can be counted when the unit is
\* known, and for none when the catalogue or the usage of the answer is missing.
SuccessIsBilled ==
    report.status = 200 =>
        /\ status = 200
        /\ spans = [i \in 1..groups |-> <<report.service, i>>]
        /\ charged = IF unit THEN (1..groups) \ empty ELSE {}
        /\ report.service = Current

Usable(s) == info[s] = "open"
Plan == <<Requested>> \o chain

\* The calls made are the usable ones of the first n services of the plan, each
\* once and in its order.
CallsOf(n) ==
    \E pos \in [DOMAIN calls -> DOMAIN Plan] :
        /\ \A i, j \in DOMAIN calls : i < j => pos[i] < pos[j]
        /\ \A i \in DOMAIN calls : calls[i] = Plan[pos[i]]
        /\ {pos[i] : i \in DOMAIN calls} = {k \in 1..n : Usable(Plan[k])}

\* _run_with_fallbacks, _run_fallback_chain_llm: the payload goes to the services the
\* caller may use, in the Application's order and leaving none out, and a 503 after a
\* call says that all of them were tried - unless one had answered part of the payload.
ChainRespected ==
    \E n \in 0..Len(Plan) :
        /\ CallsOf(n)
        /\ status = 503 /\ calls # <<>> /\ spans = <<>> => n = Len(Plan)
=============================================================================
