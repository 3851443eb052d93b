------------------------------ MODULE LlmClient ------------------------------
(***************************************************************************)
(* One client of the LLM gateway (llm/openrouter.ts, llm/subllm.ts): the   *)
(* calls it makes one after the other, each with at most two requests of   *)
(* at most three attempts, and every clock that runs meanwhile: that of a  *)
(* request, of the back-off between attempts, of the model list that is    *)
(* fetched for an error message, of the resolution of the route, and the   *)
(* deadline of the pipeline, which may strike at any time.                 *)
(*                                                                         *)
(* Time passes in ticks; a timer that is due fires before the next tick.   *)
(* Of what a provider answers only its kind is kept.                       *)
(***************************************************************************)
EXTENDS Integers

CONSTANTS RequestTime, \* the effective timeout of a request
          ListTime,    \* the timeout of the model list
          RouteTime,   \* two subllm processes
          Calls        \* bound on the calls of the client

Max2(a, b) == IF a > b THEN a ELSE b

LlmAssumption ==
  /\ {RequestTime, ListTime, RouteTime, Calls} \subseteq Nat \ {0}
ASSUME LlmAssumption

VARIABLES calls,      \* calls begun
          kind,       \* what the call returns, and whether a schema is required
          label,      \* the provider the route leads to
          route,      \* resolvedSubllm
          phase,      \* where the call is
          request, attempt,
          requestLeft, waitLeft, listLeft, routeLeft,
          deadline,   \* whether the pipeline's signal is aborted
          outcome,    \* of the last call
          spent, late, sends \* ticks of the call, ticks past the deadline, fetches: history

llmVars == <<calls, kind, label, route, phase, request, attempt, requestLeft, waitLeft,
             listLeft, routeLeft, deadline, outcome, spent, late, sends>>

\* chatText, chatJson, and chatJson with requireStructuredOutput.
CallKind == {"text", "json", "schema"}
Answer == {"content", "malformed", "no choices", "busy", "refused", "invalid model",
           "not JSON", "network"}

LlmInit ==
  /\ calls = 0 /\ kind \in CallKind /\ label \in {"OpenRouter", "Z.AI"}
  /\ route = "unresolved" /\ phase = "idle" /\ request = 1 /\ attempt = 0
  /\ requestLeft = 0 /\ waitLeft = 0 /\ listLeft = 0 /\ routeLeft = 0
  /\ deadline = FALSE /\ outcome = "none" /\ spent = 0 /\ late = 0 /\ sends = 0

-----------------------------------------------------------------------------
End(what) ==
  /\ phase' = "idle" /\ outcome' = what
  /\ requestLeft' = 0 /\ waitLeft' = 0 /\ listLeft' = 0 /\ routeLeft' = 0
  /\ UNCHANGED <<calls, kind, label, route, request, attempt, deadline, spent, late, sends>>

Send(n) ==
  /\ phase' = "sending" /\ attempt' = n /\ sends' = sends + 1
  /\ waitLeft' = 0 /\ listLeft' = 0 /\ routeLeft' = 0
  /\ UNCHANGED <<calls, kind, label, deadline, outcome, late>>

\* A request with a timer of its own; the pipeline's deadline keeps it from
\* being sent.
StartRequest(n) ==
  IF deadline THEN End("aborted")
  ELSE Send(0) /\ request' = n /\ requestLeft' = RequestTime /\ UNCHANGED <<route, spent>>

\* chatText or chatJson on this client.
BeginCall ==
  /\ phase = "idle" /\ calls < Calls
  /\ calls' = calls + 1 /\ outcome' = "none"
  /\ spent' = 0 /\ late' = 0 /\ sends' = 0 /\ request' = 1 /\ attempt' = 0
  /\ phase' = "routing" /\ routeLeft' = IF route = "unresolved" THEN RouteTime ELSE 0
  /\ UNCHANGED <<kind, label, route, requestLeft, waitLeft, listLeft, deadline>>

\* resolveSubllmRoute ends in time; the promise is kept whichever way it ends.
Resolve ==
  /\ phase = "routing" /\ route = "unresolved"
  /\ \E end \in {"resolved", "rejected"} :
       /\ end = "resolved" => routeLeft > 0
       /\ route' = end
  /\ routeLeft' = 0
  /\ UNCHANGED <<calls, kind, label, phase, request, attempt, requestLeft, waitLeft,
                 listLeft, deadline, outcome, spent, late, sends>>

Routed ==
  /\ phase = "routing" /\ route # "unresolved"
  /\ IF route = "rejected" THEN End("failed") ELSE StartRequest(1)

\* As if the signal of the pipeline were not forwarded.
Aborted_TimerOnly == requestLeft = 0

\* shouldRetryRequest and waitForRetry: a signal that is aborted ends the call.
Aborted == deadline \/ requestLeft = 0
RetryOr(give_up) ==
  IF attempt >= 2 THEN give_up
  ELSE IF Aborted THEN End(IF deadline THEN "aborted" ELSE "timed out")
  ELSE /\ phase' = "waiting" /\ waitLeft' = 2 ^ attempt /\ listLeft' = 0
       /\ UNCHANGED <<calls, kind, label, route, request, attempt, requestLeft, routeLeft,
                      deadline, outcome, spent, late, sends>>

\* shouldRetryWithoutJsonSchema knows the messages of OpenRouter, and not the
\* one about content that is not JSON.
shouldRetryWithoutJsonSchema(a) ==
  a = "no choices" \/ (label = "OpenRouter" /\ a \in {"refused", "not JSON", "throttled"})

\* An error leaves request: the second one, or the caller's.
Reject(a) ==
  IF kind = "schema" /\ request = 1 /\ shouldRetryWithoutJsonSchema(a)
  THEN StartRequest(2) ELSE End("failed")

FetchModels ==
  /\ phase' = "listing" /\ listLeft' = ListTime
  /\ UNCHANGED <<calls, kind, label, route, request, attempt, requestLeft, waitLeft,
                 routeLeft, deadline, outcome, spent, late, sends>>

\* requestAttempt gets an answer, or the connection breaks.  A text is only
\* looked at for content.
Reply(a) ==
  /\ phase = "sending"
  /\ CASE a = "content" -> \E end \in {"answered", "failed"} : End(end)
       [] a = "malformed" -> IF kind = "text" THEN End("answered") ELSE Reject(a)
       [] a = "busy" -> \E code \in {"throttled", "server error"} : RetryOr(Reject(code))
       [] a = "network" -> RetryOr(Reject(a))
       [] a = "invalid model" -> FetchModels
       [] OTHER -> Reject(a)

\* The request timer or the deadline aborts the fetch.
AbortFetch ==
  /\ phase = "sending" /\ Aborted
  /\ End(IF deadline THEN "aborted" ELSE "timed out")

\* waitForRetry: the pause is over, or a signal ends it.
WaitEnds ==
  /\ phase = "waiting"
  /\ \/ Aborted /\ End(IF deadline THEN "aborted" ELSE "timed out")
     \/ ~Aborted /\ waitLeft = 0 /\ Send(attempt + 1)
        /\ UNCHANGED <<route, request, requestLeft, spent>>

\* invalidModelError: the list came, failed or timed out.  Its message carries
\* that of a broken connection, which counts as one to retry.
Listed ==
  /\ phase = "listing"
  /\ \/ End("failed")
     \/ listLeft > 0 /\ RetryOr(End("failed"))

Deadline ==
  /\ ~deadline /\ deadline' = TRUE
  /\ UNCHANGED <<calls, kind, label, route, phase, request, attempt, requestLeft, waitLeft,
                 listLeft, routeLeft, outcome, spent, late, sends>>

\* What fires now.
Due == \/ phase = "routing" /\ (route # "unresolved" \/ routeLeft = 0)
       \/ phase = "sending" /\ Aborted
       \/ phase = "waiting" /\ (Aborted \/ waitLeft = 0)
       \/ phase = "listing" /\ listLeft = 0

CountedDown(n) == IF n = 0 THEN 0 ELSE n - 1
TickLlm ==
  /\ phase # "idle" /\ ~Due
  /\ requestLeft' = CountedDown(requestLeft) /\ waitLeft' = CountedDown(waitLeft)
  /\ listLeft' = CountedDown(listLeft) /\ routeLeft' = CountedDown(routeLeft)
  /\ spent' = spent + 1 /\ late' = IF deadline THEN late + 1 ELSE late
  /\ UNCHANGED <<calls, kind, label, route, phase, request, attempt, deadline, outcome, sends>>

LlmNext ==
  \/ BeginCall \/ Resolve \/ Routed \/ (\E a \in Answer : Reply(a))
  \/ AbortFetch \/ WaitEnds \/ Listed \/ Deadline \/ TickLlm

LlmSpec == LlmInit /\ [][LlmNext]_llmVars

-----------------------------------------------------------------------------
(***************************************************************************)
(* A call is over in bounded time (request, requestWithRetries): whatever  *)
(* the provider answers and however retries, the model list and the second *)
(* request follow on each other, a call takes no longer than the route,    *)
(* two requests and one model list, and sends at most six times; and when  *)
(* the deadline of the pipeline strikes, it is given up at once, but for   *)
(* the route or the model list, which do not listen.                       *)
(***************************************************************************)
CallIsBounded ==
  /\ spent <= RouteTime + 2 * RequestTime + ListTime /\ sends <= 6
  /\ late <= Max2(RouteTime, ListTime)
=============================================================================
