-------------------------- MODULE RoutingComparison --------------------------
(***************************************************************************)
(* The comparison of the two routers (evaluation/routing_comparison.py):   *)
(* each scenario is run with the keyword router and then with the LLM      *)
(* router, and the routing dimensions of the results are counted           *)
(* (evaluation/metrics.py).  Accuracies are counts out of case_count.      *)
(***************************************************************************)
EXTENDS EvaluationRun

Scenario(name, message, keyword_expected, output, llm_expected) ==
    [keyword |-> Case(name, message, keyword_expected),
     llm |-> LlmCase(name, message, output, llm_expected)]

OwnedScenario(scenario) ==
    [keyword |-> Owned(scenario.keyword), llm |-> Owned(scenario.llm)]

WorkOrderSuccess == Answered(AsksWorkOrder("WO-123"))

RoutingComparisonCases ==
    LET check == CheckWorkOrder("WO-123")
        lookup == Routes(WorkOrderTool, WorkOrderArgument("WO-123"))
    IN  << Scenario("agreement_direct", Hello, DirectSuccess, RoutesDirect, DirectSuccess),
           OwnedScenario(Scenario("agreement_work_order", check, WorkOrderSuccess,
                                  lookup, WorkOrderSuccess)),
           OwnedScenario(Scenario("disagreement_llm_skips_tool", check, WorkOrderSuccess,
                                  RoutesDirect, DirectSuccess)),
           Scenario("llm_invalid_tool", Hello, DirectSuccess,
                    Routes(UnknownTool, NoRawArguments),
                    ModelFailed(AsksTool(UnknownTool, NoArguments), "model_error",
                                ModelFailureEvents)),
           OwnedScenario(Scenario("llm_invalid_arguments", check, WorkOrderSuccess,
                                  Routes(WorkOrderTool, WorkOrderArgument(Unusable)),
                                  ModelFailed(AsksWorkOrder(None), "model_error",
                                              ModelFailureEvents))),
           Scenario("llm_malformed_output", Hello, DirectSuccess, None,
                    ModelFailed(Trajectory, "model_error", RouteParseFailureEvents)) >>

ScenarioCount == Len(RoutingComparisonCases)

\* The cases in the order run_routing_comparison runs them.
ComparisonSuite ==
    [i \in 1..2 * ScenarioCount |->
        LET scenario == RoutingComparisonCases[(i + 1) \div 2]
        IN  IF i % 2 = 1 THEN scenario.keyword ELSE scenario.llm]

-----------------------------------------------------------------------------
(* Metrics.                                                                *)

ScoreRouting(expected, actual) ==
    [action |-> expected.action = actual.action,
     tool |-> expected.tool_name = actual.tool_name,
     arguments |-> expected.tool_arguments = actual.tool_arguments,
     failure |-> expected.failure_class = actual.failure_class]

RoutingAccuracy(judged) ==
    LET Matches(field) ==
            Cardinality({i \in DOMAIN judged :
                ScoreRouting(judged[i].expected, judged[i].actual)[field]})
    IN  [case_count |-> Len(judged), action |-> Matches("action"),
         tool |-> Matches("tool"), arguments |-> Matches("arguments"),
         failure |-> Matches("failure")]

\* MUTANT: one strategy scored against its own expectation.
RoutingAgreementOfExpected(left, right) ==
    RoutingAccuracy([i \in DOMAIN left |->
        [expected |-> left[i].expected, actual |-> left[i].actual]])

RoutingAgreement(left, right) ==
    RoutingAccuracy([i \in DOMAIN left |->
        [expected |-> left[i].actual, actual |-> right[i].actual]])

KeywordResults == [i \in 1..ScenarioCount |-> results[2 * i - 1]]
LlmResults == [i \in 1..ScenarioCount |-> results[2 * i]]

-----------------------------------------------------------------------------
(* Properties.                                                             *)

Everything(count) ==
    [case_count |-> count, action |-> count, tool |-> count, arguments |-> count,
     failure |-> count]

Compared == AllRun /\ suite = "comparison"

\* Each strategy does what is expected of it in every routing dimension, and the
\* comparison still tells the strategies apart: agreement counts what the runs did,
\* pair by pair, so it is below the number of scenarios in action and failure class;
\* and the failure classes of a pair differ only where the model's route was refused
\* before any tool was called (routing_comparison.py:188-213, metrics.py:42-89,
\* test_routing_comparison.py:12-38).
ComparisonTellsStrategiesApart ==
    Compared =>
        LET agreement == RoutingAgreement(KeywordResults, LlmResults)
            refused == {i \in 1..ScenarioCount : LlmResults[i].actual.outcome = "failure"}
        IN  /\ RoutingAccuracy(KeywordResults) = Everything(ScenarioCount)
            /\ RoutingAccuracy(LlmResults) = Everything(ScenarioCount)
            /\ agreement.case_count = ScenarioCount
            /\ agreement.action < ScenarioCount
            /\ agreement.failure = ScenarioCount - Cardinality(refused)
            /\ refused # {}
            /\ \A i \in refused : LlmResults[i].actual.attempts = 0
=============================================================================
