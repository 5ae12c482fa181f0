------------------------------ MODULE AgentRun ------------------------------
(***************************************************************************)
(* One run of AsyncAgentRuntime.run_detailed (agent/async_runtime.py): the *)
(* LangGraph control loop of agent/graph.py around the router, the tools,  *)
(* the verifier, the recovery policy and the answer model.                 *)
(*                                                                         *)
(* A node of the graph that awaits something outside the process (router   *)
(* model, tool, answer model) is entered in one step and left in another;  *)
(* between the two its asyncio.timeout is open and may expire, and the     *)
(* caller may cancel the run.  Nodes that await nothing are one step.      *)
(***************************************************************************)
EXTENDS ToolGate, Sequences, FiniteSets

CONSTANTS
    MaxAttempts,        \* RecoveryPolicy.max_attempts
    Tools,              \* names registered in runtime.tools
    Scopes,             \* the TrustedScopes a caller may pass
    Decisions,          \* what a router may decide
    RejectedDecisions,  \* partial decisions a RoutingError may carry
    Results             \* what a tool may return: any payload, vetted or not

Statuses == {"created", "running", "completed", "failed", "needs_human_review"}
ModelFailures == {"model_timeout", "model_error"}
ToolFailures == {"tool_timeout", "tool_error"}
FailureClasses == ModelFailures \cup ToolFailures \cup {"verification_failure", "unknown"}
RecoveryActions == {"retry", "escalate", "fail"}
EventNames ==
    {"run_started", "route_selected", "tool_started", "tool_completed", "tool_failed",
     "verification_completed", "recovery_decision", "run_completed", "run_failed"}

AgentDecision ==
    [action : {"direct", "use_tool"}, tool_name : OrNone(ToolNames),
     arguments : Arguments]

\* The text run_detailed returns: its source, and the payload it was formatted from.
Response == [source : {"model", "tool", "review"}, about : OrNone(Payload)]

ASSUME RunAssumption ==
    /\ MaxAttempts \in Nat
    /\ Tools \subseteq {WorkOrderTool, PolicyTool}
    /\ Scopes \subseteq TrustedScope
    /\ Decisions \subseteq AgentDecision
    /\ \A decision \in Decisions : decision.action = "direct" => decision.tool_name = None
    /\ RejectedDecisions \subseteq AgentDecision
    /\ Results \subseteq ToolResult
    /\ None \notin FailureClasses \cup RecoveryActions \cup Statuses \cup {"direct", "use_tool"}
    /\ None \notin AgentDecision
    /\ None \notin ToolResult
    /\ None \notin Payload
    /\ None \notin Response
    /\ None \notin ToolNames

RouterTypes == {"keyword", "llm"}

\* The metadata of an event is a dict without None values: a field that is None is a
\* key that is not there, as is an attempt of 0.
TraceEvent ==
    [order : Nat, name : EventNames, router_type : OrNone(RouterTypes),
     action : OrNone({"direct", "use_tool"} \cup RecoveryActions),
     tool_name : OrNone(ToolNames), attempt : Nat,
     verified : OrNone(BOOLEAN), status : OrNone(Statuses),
     failure_class : OrNone(FailureClasses), error : OrNone(ErrorTokens)]

Observation == [tool_name : Tools, success : BOOLEAN, data : Payload]

AgentState ==
    [status : Statuses,
     router_type : RouterTypes,
     decision : OrNone(AgentDecision),
     tool_result : OrNone(ToolResult),
     verification_result : OrNone(BOOLEAN),
     attempts : Nat,
     observations : Seq(Observation),
     recovery_decision : OrNone(RecoveryActions),
     failure_class : OrNone(FailureClasses),
     events : Seq(TraceEvent),
     evidence : Seq([tool_name : Tools, data : Payload])]

ReviewResponse == [source |-> "review", about |-> None]

VARIABLES
    node,           \* the graph node being executed, or how the run ended
    deadline,       \* the asyncio.timeout of the await in progress
    scope,          \* request_ctx.trusted_scope
    agent,          \* GraphState["agent"]
    response,       \* GraphState["response"]
    pending_error,  \* GraphState["pending_error"], then the class raised
    attempt_class,  \* GraphState["attempt_class"]
    remembered      \* whether _history.record ran for this run

vars == <<node, deadline, scope, agent, response, pending_error, attempt_class, remembered>>

Nodes == {"route_node", "tool_node", "verify_node", "recovery_node", "answer_node"}
Endings == {"returned", "raised", "cancelled"}

-----------------------------------------------------------------------------
(* The trace: TraceEvent, append_event and AgentState.record.              *)

Event(name) ==
    [order |-> 0, name |-> name, router_type |-> None, action |-> None,
     tool_name |-> None, attempt |-> 0, verified |-> None, status |-> None,
     failure_class |-> None, error |-> None]

Record(a, event) ==
    [a EXCEPT !.events = Append(a.events, [event EXCEPT !.order = Len(a.events)])]

RunStarted(router) == [Event("run_started") EXCEPT !.router_type = router]

RouteSelected(router, decision) ==
    [Event("route_selected") EXCEPT
        !.router_type = router, !.action = decision.action, !.tool_name = decision.tool_name]

ToolStarted(tool, attempt) ==
    [Event("tool_started") EXCEPT !.tool_name = tool, !.attempt = attempt]

VerificationCompleted(verified) ==
    [Event("verification_completed") EXCEPT !.verified = verified]

RecoveryDecided(action) == [Event("recovery_decision") EXCEPT !.action = action]

RunFailed(status, class) ==
    [Event("run_failed") EXCEPT !.status = status, !.failure_class = class]

RunCompleted == [Event("run_completed") EXCEPT !.status = "completed"]

-----------------------------------------------------------------------------
(* Edges of the graph.                                                     *)

AfterRoute(a, pending) ==
    IF pending # None \/ a.status \in {"failed", "needs_human_review"} THEN "end"
    ELSE IF a.decision.action = "direct" THEN "answer_node" ELSE "tool_node"

AfterTool(a) == IF a.status = "needs_human_review" THEN "end" ELSE "verify_node"

AfterVerify(a) == IF a.verification_result = TRUE THEN "answer_node" ELSE "recovery_node"

AfterRecovery(a) == IF a.recovery_decision = "retry" THEN "tool_node" ELSE "end"

-----------------------------------------------------------------------------
(* Starting a run and routing it.                                          *)

FreshState(router_type) ==
    [status |-> "created", router_type |-> router_type, decision |-> None,
     tool_result |-> None, verification_result |-> None, attempts |-> 0,
     observations |-> <<>>, recovery_decision |-> None, failure_class |-> None,
     events |-> <<>>, evidence |-> <<>>]

Init ==
    /\ node = "start"
    /\ deadline = "none"
    /\ scope \in Scopes
    /\ agent \in {FreshState(router_type) : router_type \in RouterTypes}
    /\ response = None
    /\ pending_error = None
    /\ attempt_class = None
    /\ remembered = FALSE

\* The keyword router computes its decision without awaiting; the LLM router
\* asks the model under its own asyncio.timeout.
Start ==
    /\ node = "start"
    /\ agent' = Record([agent EXCEPT !.status = "running"], RunStarted(agent.router_type))
    /\ node' = "route_node"
    /\ deadline' = IF agent.router_type = "llm" THEN "open" ELSE "none"
    /\ UNCHANGED <<scope, response, pending_error, attempt_class, remembered>>

\* MUTANT: no asyncio.timeout around tool.execute.
DeadlinePassesOutsideTools ==
    /\ deadline = "open" /\ node # "tool_node"
    /\ deadline' = "expired"
    /\ UNCHANGED <<node, scope, agent, response, pending_error, attempt_class, remembered>>

\* The timer of the await in progress fires; the exception is delivered later.
DeadlinePasses ==
    /\ deadline = "open"
    /\ deadline' = "expired"
    /\ UNCHANGED <<node, scope, agent, response, pending_error, attempt_class, remembered>>

RouteTo(decision) ==
    /\ node = "route_node"
    /\ deadline # "expired"
    /\ agent' = Record([agent EXCEPT !.decision = decision],
                       RouteSelected(agent.router_type, decision))
    /\ node' = AfterRoute(agent', pending_error)
    /\ deadline' = "none"
    /\ UNCHANGED <<scope, response, pending_error, attempt_class, remembered>>

\* Only the LLM router fails; a RoutingError may bring the decision it rejects.
RouteFails(class, decision) ==
    /\ node = "route_node"
    /\ agent.router_type = "llm"
    /\ deadline = "expired" => class = "model_timeout"
    /\ class = "model_timeout" => decision = None
    /\ LET seen == IF decision = None
                   THEN agent
                   ELSE Record([agent EXCEPT !.decision = decision],
                               RouteSelected(agent.router_type, decision))
       IN  agent' = Record([seen EXCEPT !.status = "failed", !.failure_class = class],
                           RunFailed("failed", class))
    /\ pending_error' = class
    /\ node' = AfterRoute(agent', pending_error')
    /\ deadline' = "none"
    /\ UNCHANGED <<scope, response, attempt_class, remembered>>

-----------------------------------------------------------------------------
(* tool_node.                                                              *)

\* Of a runtime whose tools are filed under the names of registry.
ToolMissingFrom(registry) ==
    /\ node = "tool_node"
    /\ agent.decision.tool_name \notin registry
    /\ agent' = Record([agent EXCEPT !.status = "needs_human_review",
                                     !.failure_class = "tool_error"],
                       RunFailed("needs_human_review", "tool_error"))
    /\ response' = ReviewResponse
    /\ attempt_class' = None
    /\ node' = AfterTool(agent')
    /\ UNCHANGED <<deadline, scope, pending_error, remembered>>

ToolMissing == ToolMissingFrom(Tools)

CallToolFrom(registry) ==
    /\ node = "tool_node"
    /\ deadline = "none"
    /\ agent.decision.tool_name \in registry
    /\ agent' = Record(agent, ToolStarted(agent.decision.tool_name, agent.attempts + 1))
    /\ deadline' = "open"
    /\ UNCHANGED <<node, scope, response, pending_error, attempt_class, remembered>>

CallTool == CallToolFrom(Tools)

\* MUTANT: the tool's error token stored as the failure class.
ToolEventTokenAsClass(tool, result, class, attempt) ==
    IF result.success
    THEN [Event("tool_completed") EXCEPT !.tool_name = tool, !.attempt = attempt]
    ELSE [Event("tool_failed") EXCEPT
             !.tool_name = tool, !.attempt = attempt, !.failure_class = result.data.error]

\* What _tool_step does with the result of an attempt, real or synthesised.
ToolEvent(tool, result, class, attempt) ==
    IF result.success
    THEN [Event("tool_completed") EXCEPT !.tool_name = tool, !.attempt = attempt]
    ELSE [Event("tool_failed") EXCEPT
             !.tool_name = tool,
             !.attempt = attempt,
             !.failure_class = IF class = None THEN "tool_error" ELSE class,
             !.error = result.data.error]

\* MUTANT: attempt_class written only when the attempt raised.
AttemptEndsKeepingClass(result, class) ==
    /\ agent' =
          [Record(agent, ToolEvent(agent.decision.tool_name, result, class,
                                   agent.attempts + 1)) EXCEPT
             !.attempts = agent.attempts + 1,
             !.tool_result = result,
             !.observations = Append(agent.observations,
                                     [tool_name |-> agent.decision.tool_name,
                                      success |-> result.success,
                                      data |-> result.data])]
    /\ attempt_class' = IF class = None THEN attempt_class ELSE class
    /\ deadline' = "none"
    /\ node' = AfterTool(agent')
    /\ UNCHANGED <<scope, response, pending_error, remembered>>

AttemptEnds(result, class) ==
    /\ agent' =
          [Record(agent, ToolEvent(agent.decision.tool_name, result, class,
                                   agent.attempts + 1)) EXCEPT
             !.attempts = agent.attempts + 1,
             !.tool_result = result,
             !.observations = Append(agent.observations,
                                     [tool_name |-> agent.decision.tool_name,
                                      success |-> result.success,
                                      data |-> result.data])]
    /\ attempt_class' = class
    /\ deadline' = "none"
    /\ node' = AfterTool(agent')
    /\ UNCHANGED <<scope, response, pending_error, remembered>>

\* An answer that arrives after the deadline is dropped with the cancelled call.
ToolReturns(result) ==
    /\ node = "tool_node"
    /\ deadline = "open"
    /\ AttemptEnds(result, None)

\* The deadline, or a TimeoutError of the tool's own.
ToolTimesOut ==
    /\ node = "tool_node"
    /\ deadline \in {"open", "expired"}
    /\ AttemptEnds(FailureResult("tool_timeout", TRUE), "tool_timeout")

\* MUTANT: an AgentFailure raised by a tool becomes the run's pending error.
ToolRaisesThrough ==
    /\ node = "tool_node"
    /\ deadline = "open"
    /\ pending_error' = "tool_error"
    /\ deadline' = "none"
    /\ node' = "end"
    /\ UNCHANGED <<scope, agent, response, attempt_class, remembered>>

\* Any other exception, an AgentFailure raised by the tool included.
ToolRaises ==
    /\ node = "tool_node"
    /\ deadline = "open"
    /\ AttemptEnds(FailureResult("tool_error", FALSE), "tool_error")

-----------------------------------------------------------------------------
(* verify_node and recovery_node.                                          *)

Last(sequence) == sequence[Len(sequence)]

\* MUTANT: evidence taken from the first observation.
EvidenceOfFirst(observations, verified) ==
    IF verified /\ observations # <<>> /\ Last(observations).success
    THEN << [tool_name |-> observations[1].tool_name,
             data |-> WithoutScope(observations[1].data)] >>
    ELSE <<>>

\* ContextPolicy: only a verified last observation becomes evidence.
TrustedEvidence(observations, verified) ==
    IF verified /\ observations # <<>> /\ Last(observations).success
    THEN << [tool_name |-> Last(observations).tool_name,
             data |-> WithoutScope(Last(observations).data)] >>
    ELSE <<>>

ClassOfAttempt(verified, class, result) ==
    CASE verified -> None
      [] ~verified /\ class # None -> class
      [] ~verified /\ class = None /\ ~result.success -> "tool_error"
      [] OTHER -> "verification_failure"

VerifyResult ==
    /\ node = "verify_node"
    /\ LET verified == Verify(agent.tool_result, agent.decision.arguments,
                              agent.decision.tool_name, scope)
       IN  agent' = [Record(agent, VerificationCompleted(verified)) EXCEPT
                       !.verification_result = verified,
                       !.evidence = TrustedEvidence(agent.observations, verified),
                       !.failure_class =
                           ClassOfAttempt(verified, attempt_class, agent.tool_result),
                       !.status = IF verified THEN "completed" ELSE "running"]
    /\ node' = AfterVerify(agent')
    /\ UNCHANGED <<deadline, scope, response, pending_error, attempt_class, remembered>>

\* MUTANT: one attempt too many.
DecideLate(attempt, retryable) ==
    CASE retryable /\ attempt <= MaxAttempts -> "retry"
      [] retryable /\ attempt > MaxAttempts -> "escalate"
      [] OTHER -> "fail"

\* MUTANT: every unverified result is tried again.
DecideAlwaysRetry(attempt, retryable) ==
    CASE attempt < MaxAttempts -> "retry"
      [] retryable /\ attempt >= MaxAttempts -> "escalate"
      [] OTHER -> "fail"

\* RecoveryPolicy.decide
Decide(attempt, retryable) ==
    CASE retryable /\ attempt < MaxAttempts -> "retry"
      [] retryable /\ attempt >= MaxAttempts -> "escalate"
      [] OTHER -> "fail"

\* MUTANT: run_failed recorded before the decision is looked at.
RecoverFailingFirst ==
    /\ node = "recovery_node"
    /\ LET action == Decide(agent.attempts, agent.tool_result.retryable)
           decided == Record(Record([agent EXCEPT !.recovery_decision = action],
                                    RecoveryDecided(action)),
                             RunFailed("needs_human_review", agent.failure_class))
       IN  IF action = "retry"
           THEN agent' = decided /\ response' = response
           ELSE /\ agent' = [decided EXCEPT !.status = "needs_human_review"]
                /\ response' = ReviewResponse
    /\ node' = AfterRecovery(agent')
    /\ UNCHANGED <<deadline, scope, pending_error, attempt_class, remembered>>

Recover ==
    /\ node = "recovery_node"
    /\ LET action == Decide(agent.attempts, agent.tool_result.retryable)
           decided == Record([agent EXCEPT !.recovery_decision = action],
                             RecoveryDecided(action))
       IN  IF action = "retry"
           THEN agent' = decided /\ response' = response
           ELSE /\ agent' = Record([decided EXCEPT !.status = "needs_human_review"],
                                   RunFailed("needs_human_review", agent.failure_class))
                /\ response' = ReviewResponse
    /\ node' = AfterRecovery(agent')
    /\ UNCHANGED <<deadline, scope, pending_error, attempt_class, remembered>>

-----------------------------------------------------------------------------
(* answer_node.                                                            *)

CallModel ==
    /\ node = "answer_node"
    /\ agent.decision.action = "direct"
    /\ deadline = "none"
    /\ deadline' = "open"
    /\ UNCHANGED <<node, scope, agent, response, pending_error, attempt_class, remembered>>

ModelAnswers ==
    /\ node = "answer_node"
    /\ agent.decision.action = "direct"
    /\ deadline = "open"
    /\ agent' = Record([agent EXCEPT !.status = "completed"], RunCompleted)
    /\ response' = [source |-> "model", about |-> None]
    /\ deadline' = "none"
    /\ node' = "end"
    /\ UNCHANGED <<scope, pending_error, attempt_class, remembered>>

ModelFails(class) ==
    /\ node = "answer_node"
    /\ agent.decision.action = "direct"
    /\ deadline # "none"
    /\ deadline = "expired" => class = "model_timeout"
    /\ agent' = [Record(agent, RunFailed("failed", class)) EXCEPT
                   !.status = "failed", !.failure_class = class]
    /\ pending_error' = class
    /\ deadline' = "none"
    /\ node' = "end"
    /\ UNCHANGED <<scope, response, attempt_class, remembered>>

\* An exception of the client that is no AgentFailure leaves the graph at once
\* and run_detailed raises UnknownFailure without a state.
ModelCrashes ==
    /\ node = "answer_node"
    /\ agent.decision.action = "direct"
    /\ deadline = "open"
    /\ pending_error' = "unknown"
    /\ deadline' = "none"
    /\ node' = "raised"
    /\ UNCHANGED <<scope, agent, response, attempt_class, remembered>>

\* _format_tool_answer reads the payload of the observation it is given.
FormatToolAnswer(observation) ==
    [source |-> "tool",
     about |-> IF IF observation.tool_name = PolicyTool
                  THEN ParsesAsPolicy(observation.data)
                  ELSE ParsesAsWorkOrder(observation.data)
               THEN observation.data
               ELSE None]

\* MUTANT: the answer formatted from the first observation.
AnswerFromFirst ==
    /\ node = "answer_node"
    /\ agent.decision.action = "use_tool"
    /\ agent' = Record(agent, RunCompleted)
    /\ response' = FormatToolAnswer(agent.observations[1])
    /\ node' = "end"
    /\ UNCHANGED <<deadline, scope, pending_error, attempt_class, remembered>>

AnswerFromTool ==
    /\ node = "answer_node"
    /\ agent.decision.action = "use_tool"
    /\ agent' = Record(agent, RunCompleted)
    /\ response' = FormatToolAnswer(Last(agent.observations))
    /\ node' = "end"
    /\ UNCHANGED <<deadline, scope, pending_error, attempt_class, remembered>>

-----------------------------------------------------------------------------
(* Leaving the graph: _execute and run_detailed.                           *)

Return ==
    /\ node = "end"
    /\ pending_error = None
    /\ node' = "returned"
    /\ remembered' = TRUE
    /\ UNCHANGED <<deadline, scope, agent, response, pending_error, attempt_class>>

Raise ==
    /\ node = "end"
    /\ pending_error # None
    /\ node' = "raised"
    /\ UNCHANGED <<deadline, scope, agent, response, pending_error, attempt_class, remembered>>

\* CancelledError at any await; it wins over a deadline that has also expired.
Cancel ==
    /\ node \in Nodes \cup {"end"}
    /\ node' = "cancelled"
    /\ deadline' = "none"
    /\ UNCHANGED <<scope, agent, response, pending_error, attempt_class, remembered>>

\* The run is over; its task does nothing more.
Finished == node \in Endings /\ UNCHANGED vars

Next ==
    \/ Start
    \/ DeadlinePasses
    \/ \E decision \in Decisions : RouteTo(decision)
    \/ \E class \in ModelFailures, decision \in OrNone(RejectedDecisions) :
          RouteFails(class, decision)
    \/ ToolMissing
    \/ CallTool
    \/ \E result \in Results : ToolReturns(result)
    \/ ToolTimesOut
    \/ ToolRaises
    \/ VerifyResult
    \/ Recover
    \/ CallModel
    \/ ModelAnswers
    \/ \E class \in ModelFailures : ModelFails(class)
    \/ ModelCrashes
    \/ AnswerFromTool
    \/ Return
    \/ Raise
    \/ Cancel
    \/ Finished

Spec == Init /\ [][Next]_vars

(***************************************************************************)
(* The event loop runs every step that is ready, and a timer that is armed *)
(* fires; nothing is assumed of the router model, the tools or the answer  *)
(* model, which may stay silent for ever.                                  *)
(***************************************************************************)
TimeoutDelivered ==
    /\ deadline = "expired"
    /\ \/ RouteFails("model_timeout", None)
       \/ ToolTimesOut
       \/ ModelFails("model_timeout")

KeywordRoutes ==
    /\ agent.router_type = "keyword"
    /\ \E decision \in Decisions : RouteTo(decision)

Fairness ==
    /\ WF_vars(Start)
    /\ WF_vars(DeadlinePasses)
    /\ WF_vars(TimeoutDelivered)
    /\ WF_vars(KeywordRoutes)
    /\ WF_vars(ToolMissing \/ CallTool)
    /\ WF_vars(VerifyResult)
    /\ WF_vars(Recover)
    /\ WF_vars(CallModel)
    /\ WF_vars(AnswerFromTool)
    /\ WF_vars(Return \/ Raise)

FairSpec == Spec /\ Fairness

-----------------------------------------------------------------------------
(* Properties.                                                             *)

TypeOK ==
    /\ node \in {"start", "end"} \cup Nodes \cup Endings
    /\ deadline \in {"none", "open", "expired"}
    /\ scope \in TrustedScope
    /\ agent \in AgentState
    /\ response \in OrNone(Response)
    /\ pending_error \in OrNone(FailureClasses)
    /\ attempt_class \in OrNone(ToolFailures)
    /\ remembered \in BOOLEAN

Indices(name) == {i \in DOMAIN agent.events : agent.events[i].name = name}
TerminalIndices == Indices("run_completed") \cup Indices("run_failed")

\* A tool answer is about a payload that passed every domain rule for this
\* request and this caller: the record that was asked for, in the caller's
\* trusted tenant and property, with allowed terms and in force at as_of
\* (verification.py, async_runtime.py:445-450).  Whatever the earlier attempts
\* brought back must not reach the caller.
AnswerIsVetted ==
    (node \in {"end", "returned"} /\ response # None /\ response.source = "tool") =>
        LET data == response.about
            asked == agent.decision.arguments
        IN  /\ data # None
            /\ scope.tenant_id # None /\ data.tenant_id = scope.tenant_id
            /\ scope.property_id # None /\ data.property_id = scope.property_id
            /\ agent.decision.tool_name = WorkOrderTool =>
                  /\ data.work_order_id = asked.work_order_id
                  /\ data.status = AllowedStatus
            /\ agent.decision.tool_name = PolicyTool =>
                  /\ data.issue_type = LowerCase[asked.issue_type]
                  /\ data.issue_type \in AllowedIssueTypes
                  /\ data.terms = AllowedTerms
                  /\ data.effective_at <= data.as_of /\ data.as_of < data.expires_at

\* The evidence in the answer context, the stored verdict and the answer are
\* about one payload, the last one, and carry no authorization field
\* (context.py:188-211); an unverified attempt leaves no evidence behind.
EvidenceMatchesAnswer ==
    /\ agent.evidence # <<>> =>
          /\ agent.verification_result = TRUE
          /\ agent.evidence[1].data.tenant_id = None
          /\ agent.evidence[1].data.property_id = None
    /\ (node = "returned" /\ response.source = "tool") =>
          agent.evidence = << [tool_name |-> agent.decision.tool_name,
                               data |-> WithoutScope(response.about)] >>

\* The trace has one terminal event, it is the last one and it carries the final
\* status; a run that is still looping has none (async_runtime.py:233-257,
\* 272-276, 407-411, 426-449).
TerminalEventClosesTrace ==
    /\ TerminalIndices \subseteq {Len(agent.events)}
    /\ node \in {"start"} \cup Nodes => TerminalIndices = {}
    /\ node \in {"end", "returned"} =>
          /\ TerminalIndices # {}
          /\ agent.events[Len(agent.events)].status = agent.status
          /\ agent.events[Len(agent.events)].failure_class = agent.failure_class

\* failure_class says what became of the LAST attempt, and a completed run has
\* none: what an earlier attempt left behind is gone (async_runtime.py:374-381).
FailureClassIsOfLastAttempt ==
    (node \in {"end", "returned"} /\ pending_error = None) =>
        IF agent.status = "completed"
        THEN agent.failure_class = None
        ELSE LET last == Last(agent.observations)
             IN  agent.failure_class =
                    CASE agent.observations = <<>> -> "tool_error"
                      [] agent.observations # <<>> /\ last.success -> "verification_failure"
                      [] /\ agent.observations # <<>> /\ ~last.success
                         /\ last.data.error = "tool_timeout" -> "tool_timeout"
                      [] OTHER -> "tool_error"

\* The events account for the attempts: the k-th tool_started is the start of
\* attempt k, every finished attempt has its outcome event and its observation,
\* and the attempts never exceed the budget (async_runtime.py:280-347).
TraceAccountsForAttempts ==
    LET started == Indices("tool_started")
        ended == Indices("tool_completed") \cup Indices("tool_failed")
        calling == node = "tool_node" /\ deadline # "none"
    IN  /\ \A i \in started :
              /\ agent.events[i].attempt =
                    Cardinality({j \in started : j <= i})
              /\ i + 1 \in ended \/ (calling /\ i = Len(agent.events)) \/ node = "cancelled"
        /\ Cardinality(ended) = agent.attempts
        /\ Len(agent.observations) = agent.attempts
        /\ Cardinality(started) <= IF MaxAttempts = 0 THEN 1 ELSE MaxAttempts

\* A second attempt starts only after a retryable result that did not verify,
\* within the budget (recovery.py:14-19).
RetriesAreEarned ==
    [][(agent'.attempts > agent.attempts /\ agent.attempts > 0) =>
          /\ agent.tool_result.retryable
          /\ agent.verification_result = FALSE
          /\ agent.attempts < MaxAttempts]_vars

\* Every run ends, whatever the models and the tools do.
RunEnds == <>(node \in Endings)
=============================================================================
