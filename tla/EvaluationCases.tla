--------------------------- MODULE EvaluationCases ---------------------------
(***************************************************************************)
(* The golden cases of the offline evaluation (evaluation/agent_cases.py): *)
(* a message, the fakes it is run with and the trajectory that is expected *)
(* of the run.                                                             *)
(*                                                                         *)
(* A message is known by what the keyword router finds in it; times are in *)
(* milliseconds; an argument of another type than text is None, as         *)
(* everywhere in this project.                                             *)
(***************************************************************************)
EXTENDS CatalogRun, RouterRules

DefaultScope == [tenant_id |-> "tenant-a", property_id |-> "prop-1"]
NoScope == [tenant_id |-> None, property_id |-> None]

\* scoped_work_order_data: a payload the gate lets pass for DefaultScope.
ScopedWorkOrderData ==
    WorkOrderData(WorkOrderRecord("WO-123", "tenant-a", "prop-1", "plumbing"))

-----------------------------------------------------------------------------
(* Expected event names.                                                   *)

RoutedEvents == <<"run_started", "route_selected">>
AttemptEvents(outcome) == <<"tool_started", outcome, "verification_completed">>

DirectSuccessEvents == RoutedEvents \o <<"run_completed">>
ToolSuccessEvents == RoutedEvents \o AttemptEvents("tool_completed") \o <<"run_completed">>
RetryThenSuccessEvents ==
    RoutedEvents \o AttemptEvents("tool_failed") \o <<"recovery_decision">>
                 \o AttemptEvents("tool_completed") \o <<"run_completed">>
ToolFailureEvents ==
    RoutedEvents \o AttemptEvents("tool_failed") \o <<"recovery_decision", "run_failed">>
ModelFailureEvents == RoutedEvents \o <<"run_failed">>
RouteParseFailureEvents == <<"run_started", "run_failed">>

-----------------------------------------------------------------------------
(* Trajectories.                                                           *)

Trajectory ==
    [action |-> None, tool_name |-> None, tool_arguments |-> None,
     verification_result |-> None, failure_class |-> None, attempts |-> 0,
     recovery_decision |-> None, outcome |-> "success", terminal_status |-> None,
     event_names |-> None, error_code |-> None]

AsksTool(tool, arguments) ==
    [Trajectory EXCEPT !.action = "use_tool", !.tool_name = tool,
                       !.tool_arguments = arguments]
AsksWorkOrder(id) == AsksTool(WorkOrderTool, [NoArguments EXCEPT !.work_order_id = id])
AsksPolicy(issue) == AsksTool(PolicyTool, [NoArguments EXCEPT !.issue_type = issue])

DirectSuccess ==
    [Trajectory EXCEPT !.action = "direct", !.terminal_status = "completed",
                       !.event_names = DirectSuccessEvents]

Answered(trajectory) ==
    [trajectory EXCEPT !.verification_result = TRUE, !.attempts = 1,
                       !.terminal_status = "completed", !.event_names = ToolSuccessEvents]

\* Review without a recovery decision, where no tool was called.
ForReview(trajectory, class) ==
    [trajectory EXCEPT !.failure_class = class, !.outcome = "needs_human_review",
                       !.terminal_status = "needs_human_review"]

GivenUp(trajectory, class, attempts, decision) ==
    [ForReview(trajectory, class) EXCEPT
        !.verification_result = FALSE, !.attempts = attempts, !.recovery_decision = decision]

Refusal(trajectory) ==
    [GivenUp(trajectory, "tool_error", 1, "fail") EXCEPT !.event_names = ToolFailureEvents]

ModelFailed(trajectory, class, events) ==
    [trajectory EXCEPT !.failure_class = class, !.outcome = "failure",
                       !.terminal_status = "failed", !.event_names = events]

-----------------------------------------------------------------------------
(* Messages, routing outputs and cases.                                    *)

Hello == [words |-> {}, issues |-> {}, tagged |-> None, numbered |-> None]
CheckWorkOrder(id) == [Hello EXCEPT !.words = {"work order"}, !.tagged = id]
NeedMaintenanceHelp == [Hello EXCEPT !.words = {"maintenance"}]
CheckPolicy(issue) ==
    [Hello EXCEPT !.words = {"policy", "maintenance"}, !.issues = {issue}]

Routes(tool, arguments) ==
    [action |-> "use_tool", tool_name |-> tool, arguments |-> arguments]
RoutesDirect ==
    [action |-> "direct", tool_name |-> None, arguments |-> NoRawArguments]
WorkOrderArgument(id) == [NoRawArguments EXCEPT !.work_order_id = id]

\* The fields a case does not set.
Case(name, message, expected) ==
    [name |-> name, message |-> message, expected |-> expected,
     tool_results |-> None, omit_tools |-> FALSE,
     model_delay |-> None, model_timeout |-> None,
     tool_delay |-> None, tool_timeout |-> None,
     router_kind |-> "keyword", route_output |-> None, trusted_scope |-> NoScope]

Owned(case) == [case EXCEPT !.trusted_scope = DefaultScope]
LlmCase(name, message, output, expected) ==
    [Case(name, message, expected) EXCEPT !.router_kind = "llm", !.route_output = output]
Scripted(case, results) == [case EXCEPT !.tool_results = results]
WithoutTools(case) == [case EXCEPT !.omit_tools = TRUE]

KeywordCases ==
    << Case("direct_answer_path", Hello, DirectSuccess),
       Owned(Case("successful_work_order_lookup", CheckWorkOrder("WO-123"),
                  Answered(AsksWorkOrder("WO-123")))),
       Case("missing_work_order_id", NeedMaintenanceHelp, Refusal(AsksWorkOrder(None))) >>

ScriptedCases ==
    LET check == CheckWorkOrder("WO-123")
        asks == AsksWorkOrder("WO-123")
        temporary == FailureResult("temporary", TRUE)
    IN  << Owned(Scripted(Case("invalid_verification_payload", check,
                               GivenUp(asks, "verification_failure", 1, "fail")),
                          << Found([ScopedWorkOrderData EXCEPT !.status = "other_status"]) >>)),
           Owned(Scripted(Case("retryable_tool_failure", check,
                               [Answered(asks) EXCEPT
                                   !.attempts = 2, !.recovery_decision = "retry",
                                   !.event_names = RetryThenSuccessEvents]),
                          << temporary, Found(ScopedWorkOrderData) >>)),
           Scripted(Case("non_retryable_tool_failure", check,
                         GivenUp(asks, "tool_error", 1, "fail")),
                    << FailureResult("not_found", FALSE) >>),
           Scripted(Case("malformed_tool_result", check,
                         GivenUp(asks, "verification_failure", 1, "fail")),
                    << Found([EmptyPayload EXCEPT !.work_order_id = "WO-123"]) >>),
           WithoutTools(Case("wrong_tool_selection", check, ForReview(asks, "tool_error"))),
           Scripted(Case("retry_exhaustion", check,
                         GivenUp(asks, "tool_error", 2, "escalate")),
                    << temporary, temporary >>) >>

TimeoutCases ==
    << [Case("model_timeout", Hello,
             ModelFailed([Trajectory EXCEPT !.action = "direct"], "model_timeout",
                         ModelFailureEvents)) EXCEPT
           !.model_delay = 1000, !.model_timeout = 50],
       Owned([Case("tool_timeout", CheckWorkOrder("WO-123"),
                   [GivenUp(AsksWorkOrder("WO-123"), "tool_timeout", 2, "escalate") EXCEPT
                       !.error_code = "tool_timeout"]) EXCEPT
                 !.tool_delay = 200, !.tool_timeout = 50]) >>

LlmCases ==
    << LlmCase("llm_chooses_direct", CheckWorkOrder("WO-123"), RoutesDirect, DirectSuccess),
       Owned(LlmCase("llm_chooses_work_order_lookup", Hello,
                     Routes(WorkOrderTool, WorkOrderArgument("WO-123")),
                     Answered(AsksWorkOrder("WO-123")))),
       LlmCase("llm_malformed_structured_output", Hello, None,
               ModelFailed(Trajectory, "model_error", RouteParseFailureEvents)),
       LlmCase("llm_invalid_tool_selection", Hello, Routes(UnknownTool, NoRawArguments),
               ModelFailed(AsksTool(UnknownTool, NoArguments), "model_error",
                           ModelFailureEvents)),
       LlmCase("llm_invalid_arguments", Hello,
               Routes(WorkOrderTool, WorkOrderArgument(Unusable)),
               ModelFailed(AsksWorkOrder(None), "model_error", ModelFailureEvents)) >>

CatalogCases ==
    << Owned(Case("successful_maintenance_policy_lookup", CheckPolicy("plumbing"),
                  Answered(AsksPolicy("plumbing")))),
       Owned(Case("cross_tenant_work_order", CheckWorkOrder("WO-999"),
                  [Refusal(AsksWorkOrder("WO-999")) EXCEPT !.error_code = "cross_tenant"])),
       Owned(Case("wrong_property_work_order", CheckWorkOrder("WO-456"),
                  [Refusal(AsksWorkOrder("WO-456")) EXCEPT !.error_code = "wrong_property"])),
       Owned(Case("missing_work_order", CheckWorkOrder("WO-404"),
                  Refusal(AsksWorkOrder("WO-404")))),
       Owned(Case("stale_policy", CheckPolicy("hvac"),
                  GivenUp(AsksPolicy("hvac"), "verification_failure", 1, "fail"))),
       Owned(Case("missing_policy", CheckPolicy("roofing"), Refusal(AsksPolicy("roofing")))),
       WithoutTools(Case("wrong_tool_trap", CheckPolicy("plumbing"),
                         ForReview(AsksPolicy("plumbing"), "tool_error"))) >>

DefaultCases == KeywordCases \o ScriptedCases \o TimeoutCases \o LlmCases \o CatalogCases
=============================================================================
