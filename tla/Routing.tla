------------------------------- MODULE Routing -------------------------------
(***************************************************************************)
(* One call of the agent to its model, and what the routers make of it:    *)
(* the provider clients (llm/ollama.py, llm/openai.py and the base class)  *)
(* with their fallback from structured to plain generation, the runtime's  *)
(* and the LLM router's asyncio.timeout around them, the decision rules of *)
(* RouterRules, and the keyword router, which calls no model.              *)
(*                                                                         *)
(* A routing JSON that satisfies the schema is a member of Outputs.        *)
(***************************************************************************)
EXTENDS RouterRules, Sequences

CONSTANTS
    Providers,       \* of {"ollama", "openai", "plain"}: configured clients
    AllowedTools,    \* names registered when the router was built
    Outputs,         \* RoutingOutputs a model may write
    Messages         \* user messages, by what the keyword router finds in them

ASSUME RoutingAssumption ==
    /\ Providers \subseteq {"ollama", "openai", "plain"}
    /\ None \notin AllowedTools
    /\ \A parsed \in Outputs :
          /\ parsed.action \in {"direct", "use_tool"}
          /\ parsed.arguments \in RawArguments
    /\ None \notin Outputs
    /\ \A message \in Messages :
          {message.tagged, message.numbered} \subseteq OrNone(WorkOrderIds)

VARIABLES
    provider,  \* the configured client
    purpose,   \* "answer", "route" (LLM router), "keyword"
    step,      \* "idle", "native", "plain", "done"
    deadline,  \* asyncio.timeout of the caller: "none", "open", "expired"
    replies,   \* what the provider's HTTP calls came back with
    output,    \* the RoutingOutput a reply was parsed into
    outcome    \* what the caller gets

vars == <<provider, purpose, step, deadline, replies, output, outcome>>

-----------------------------------------------------------------------------
Init ==
    /\ provider \in Providers
    /\ purpose = None /\ step = "idle" /\ deadline = "none"
    /\ replies = <<>> /\ output = None /\ outcome = None

RouteByKeyword(message) ==
    /\ step = "idle"
    /\ purpose' = "keyword"
    /\ step' = "done"
    /\ outcome' = KeywordDecision(message)
    /\ UNCHANGED <<provider, deadline, replies, output>>

\* _respond_from_context and LlmAgentRouter.route.  A client without
\* generate_structured of its own routes by generate.
Begin(goal) ==
    /\ step = "idle"
    /\ purpose' = goal
    /\ deadline' = "open"
    /\ step' = IF goal = "route" /\ provider # "plain" THEN "native" ELSE "plain"
    /\ UNCHANGED <<provider, replies, output, outcome>>

Finish(result) ==
    /\ outcome' = result
    /\ step' = "done"
    /\ deadline' = "none"

Awaiting == step \in {"native", "plain"} /\ deadline = "open"

\* MUTANT: the router without its `except Exception`.
RouteExceptionUncaught == Failed("crashed")

\* An exception that is neither a timeout nor an AgentFailure: the router makes it
\* a ModelError, the answer path lets it through.
UntypedException == Failed(IF purpose = "route" THEN "model_error" ELSE "crashed")

\* MUTANT: a timeout falls back as well, under the same deadline.
CallTimesOutFallingBack ==
    /\ Awaiting
    /\ replies' = Append(replies, "timeout")
    /\ IF step = "native"
       THEN step' = "plain" /\ UNCHANGED <<deadline, outcome>>
       ELSE Finish(Failed("model_timeout"))
    /\ UNCHANGED <<provider, purpose, output>>

\* The provider's own timeout, before or at the same time as the caller's.
CallTimesOut ==
    /\ Awaiting
    /\ replies' = Append(replies, "timeout")
    /\ Finish(Failed("model_timeout"))
    /\ UNCHANGED <<provider, purpose, output>>

\* MUTANT: plain generation retried until it succeeds.
CallFailsRetrying(reply) ==
    /\ Awaiting
    /\ Len(replies) < 3
    /\ replies' = Append(replies, reply)
    /\ step' = "plain"
    /\ UNCHANGED <<provider, purpose, deadline, output, outcome>>

\* A structured request that failed is made once more as plain generation.
FallsBack == step = "native"

\* HTTP status, connection or JSON error, or no text.
CallFails(reply) ==
    /\ Awaiting
    /\ replies' = Append(replies, reply)
    /\ IF FallsBack
       THEN step' = "plain" /\ UNCHANGED <<deadline, outcome>>
       ELSE Finish(Failed("model_error"))
    /\ UNCHANGED <<provider, purpose, output>>

\* Ollama answers a JSON text that is no object, and data.get raises; a client of
\* another kind may raise anything.  OpenAI's client maps every exception.
CallCrashes ==
    /\ Awaiting
    /\ provider # "openai"
    /\ replies' = Append(replies, "crash")
    /\ Finish(UntypedException)
    /\ UNCHANGED <<provider, purpose, output>>

\* Text of an answer, or routing text that does not parse: no second attempt.
TextArrives ==
    /\ Awaiting
    /\ replies' = Append(replies, "text")
    /\ Finish(Failed(IF purpose = "answer" THEN "answered" ELSE "model_error"))
    /\ UNCHANGED <<provider, purpose, output>>

RoutingArrives(parsed) ==
    /\ Awaiting
    /\ purpose = "route"
    /\ replies' = Append(replies, "text")
    /\ output' = parsed
    /\ Finish(DecisionOf(parsed, AllowedTools))
    /\ UNCHANGED <<provider, purpose>>

\* MUTANT: the caller's timeout covers the first request only.
DeadlinePassesOnNative ==
    /\ deadline = "open" /\ replies = <<>>
    /\ deadline' = "expired"
    /\ UNCHANGED <<provider, purpose, step, replies, output, outcome>>

\* One asyncio.timeout covers both requests of a fallback.
DeadlinePasses ==
    /\ deadline = "open"
    /\ deadline' = "expired"
    /\ UNCHANGED <<provider, purpose, step, replies, output, outcome>>

\* The cancelled request's CancelledError is a BaseException: no fallback.
TimeoutDelivered ==
    /\ deadline = "expired"
    /\ Finish(Failed("model_timeout"))
    /\ UNCHANGED <<provider, purpose, replies, output>>

Cancel ==
    /\ step \in {"native", "plain"}
    /\ Finish(Failed("cancelled"))
    /\ UNCHANGED <<provider, purpose, replies, output>>

Finished == step = "done" /\ UNCHANGED vars

Next ==
    \/ \E message \in Messages : RouteByKeyword(message)
    \/ \E goal \in {"answer", "route"} : Begin(goal)
    \/ CallTimesOut
    \/ \E reply \in {"error", "empty"} : CallFails(reply)
    \/ CallCrashes
    \/ TextArrives
    \/ \E parsed \in Outputs : RoutingArrives(parsed)
    \/ DeadlinePasses
    \/ TimeoutDelivered
    \/ Cancel
    \/ Finished

Spec == Init /\ [][Next]_vars

\* The event loop fires the timer and delivers the cancellation; the provider may
\* stay silent for ever.
FairSpec == Spec /\ WF_vars(DeadlinePasses) /\ WF_vars(TimeoutDelivered)

-----------------------------------------------------------------------------
(* Properties.                                                             *)

Kinds == {"decision", "routing_error", "model_error", "model_timeout", "answered",
          "crashed", "cancelled"}

TypeOK ==
    /\ provider \in Providers
    /\ purpose \in OrNone({"answer", "route", "keyword"})
    /\ step \in {"idle", "native", "plain", "done"}
    /\ deadline \in {"none", "open", "expired"}
    /\ replies \in Seq({"timeout", "error", "empty", "crash", "text"})
    /\ Len(replies) <= 2
    /\ output \in OrNone(Outputs)
    /\ outcome # None =>
          /\ outcome.kind \in Kinds
          /\ outcome.arguments \in Arguments

Routed == outcome # None /\ outcome.kind = "decision"

\* What the model wrote beside the keys of its tool is not dropped in silence.
NothingIsDropped ==
    output # None =>
        /\ ~output.arguments.extra
        /\ output.action = outcome.action /\ output.tool_name = outcome.tool_name
        /\ output.tool_name = WorkOrderTool => output.arguments.issue_type = Missing
        /\ output.tool_name = PolicyTool => output.arguments.work_order_id = Missing

\* Whichever router made it, a decision is one the runtime can carry out: direct
\* with nothing attached, or a tool of the registry with an argument of its own
\* kind in the form the tools compare with.  And a model that writes scope, or any
\* other key, into the arguments gets a routing error, never a decision without it
\* (llm_router.py:34-121, router.py:49-70, docs/DESIGN.md:166).
DecisionIsCallable ==
    Routed =>
        /\ NothingIsDropped
        /\ IF outcome.action = "direct"
           THEN outcome.tool_name = None /\ outcome.arguments = NoArguments
           ELSE /\ outcome.tool_name \in {WorkOrderTool, PolicyTool}
                /\ purpose = "route" => outcome.tool_name \in AllowedTools
                /\ outcome.tool_name = WorkOrderTool => outcome.arguments.issue_type = None
                /\ outcome.tool_name = PolicyTool =>
                      /\ outcome.arguments.work_order_id = None
                      /\ outcome.arguments.issue_type = PolicyRequest(outcome.arguments)

\* A second request is made only for routing, only after the first one failed
\* or was empty, and never after a timeout, a text that does not parse, or an
\* expired deadline (ollama.py:35-37, openai.py:60-70, docs/DESIGN.md:162).
OnlyFailedRoutingFallsBack ==
    /\ step = "plain" /\ purpose = "route" /\ provider # "plain" => Len(replies) = 1
    /\ Len(replies) = 2 => /\ purpose = "route" /\ provider # "plain"
                           /\ replies[1] \in {"error", "empty"}

\* The LLM router fails by typed errors only, which is what the runtime's route
\* step handles (llm_router.py:148-155, async_runtime.py:217-247).
RoutingFailsTyped ==
    (purpose = "route" /\ step = "done") => outcome.kind \in Kinds \ {"crashed", "answered"}

\* A model call ends, however silent the provider, and a fallback gets no
\* deadline of its own (llm_router.py:144, async_runtime.py:88).
CallEnds == (step \in {"native", "plain"}) ~> (step = "done")

\* docs/DESIGN.md:135: an upstream model failure is a 502, for which it must
\* reach the route as a ModelError or a ModelTimeout.
ModelFailureIsTyped == (provider = "ollama" /\ step = "done") => outcome.kind # "crashed"
=============================================================================
