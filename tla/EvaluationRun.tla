---------------------------- MODULE EvaluationRun ----------------------------
(***************************************************************************)
(* The evaluation runner (evaluation/runner.py): one case after another,   *)
(* each with a runtime, a router and fake tools of its own, and the actual *)
(* trajectory of each run held against the expected one                    *)
(* (evaluation/metrics.py).                                                *)
(*                                                                         *)
(* The fakes take as long as the case says and fail in no other way, so an *)
(* asyncio.timeout expires exactly when the case makes the call late.      *)
(***************************************************************************)
EXTENDS EvaluationCases, RunTrace

CONSTANTS Suites    \* sequences of cases that are run one after another, by name

DefaultTimeout == 60000

VARIABLES
    suite,      \* the cases to run, by name
    running,    \* the index of the case being run, or None
    calls,      \* len(ScriptedTool.calls) of the running case
    results     \* EvaluationResults, in order

runner == <<suite, running, calls, results>>
evaluation == <<vars, runner>>

-----------------------------------------------------------------------------
(* The fakes of the running case.                                          *)

case == Suites[suite][running]

\* The runtime's timeout, when the case sets none.
Limit(timeout) == IF timeout = None THEN DefaultTimeout ELSE timeout

Late(delay, timeout) == delay # None /\ delay > Limit(timeout)

\* _tools_for_case: no tool, the scripted one, or those of the catalog.
Registry ==
    IF case.omit_tools THEN {}
    ELSE IF case.tool_delay # None \/ case.tool_results # None THEN {WorkOrderTool}
    ELSE Tools

Script ==
    IF case.tool_results # None THEN case.tool_results ELSE << Found(ScopedWorkOrderData) >>

IsScripted == case.tool_delay # None \/ case.tool_results # None

\* ScriptedTool.execute: the last result again when the script is over.
ScriptedResult(call) == Script[IF call < Len(Script) THEN call ELSE Len(Script)]

\* The call in progress sleeps past its deadline.  The router of a case with a slow
\* model is the keyword router, which calls no model.
SleepsPastDeadline ==
    \/ node = "tool_node" /\ Late(case.tool_delay, case.tool_timeout)
    \/ node = "answer_node" /\ Late(case.model_delay, case.model_timeout)

-----------------------------------------------------------------------------
(* The trajectory of a run and its score.                                  *)

TrajectoryFromState(state) ==
    LET trace == TraceFromState(state)
    IN  [action |-> trace.decision, tool_name |-> trace.selected_tool,
         tool_arguments |-> IF trace.decision = "use_tool" THEN state.decision.arguments
                            ELSE None,
         verification_result |-> state.verification_result,
         failure_class |-> trace.failure_class, attempts |-> trace.attempts,
         recovery_decision |-> state.recovery_decision, outcome |-> trace.outcome,
         terminal_status |-> trace.terminal_status,
         event_names |-> [i \in DOMAIN state.events |-> state.events[i].name],
         error_code |-> trace.error_code]

\* EvaluationResult.passed: two fields count only when a value is expected of them.
Passed(result) ==
    \A field \in DOMAIN Trajectory :
        \/ result.actual[field] = result.expected[field]
        \/ field \in {"event_names", "error_code"} /\ result.expected[field] = None

-----------------------------------------------------------------------------
Idle == Init /\ scope = NoScope /\ agent.router_type = "keyword"

EvaluationInit ==
    /\ Idle
    /\ suite \in DOMAIN Suites
    /\ running = None
    /\ calls = 0
    /\ results = <<>>

\* _runtime_for_case and the start of run_detailed.
FreshRuntime(next) ==
    /\ node' = "start"
    /\ deadline' = "none"
    /\ scope' = next.trusted_scope
    /\ agent' = FreshState(next.router_kind)
    /\ response' = None
    /\ pending_error' = None
    /\ attempt_class' = None
    /\ remembered' = FALSE

\* MUTANT: the scripted tool kept from the case before.
BeginCaseReusingTool ==
    /\ running = None
    /\ Len(results) < Len(Suites[suite])
    /\ running' = Len(results) + 1
    /\ FreshRuntime(Suites[suite][running'])
    /\ UNCHANGED <<suite, calls, results>>

BeginCase ==
    /\ running = None
    /\ Len(results) < Len(Suites[suite])
    /\ running' = Len(results) + 1
    /\ calls' = 0
    /\ FreshRuntime(Suites[suite][running'])
    /\ UNCHANGED <<suite, results>>

\* What the router makes of the case: the keyword router of the message, the LLM
\* router of the case's route_output, which may be no routing object at all.
RouterOutcome ==
    IF case.router_kind = "keyword" THEN KeywordDecision(case.message)
    ELSE IF case.route_output = None THEN Failed("model_error")
    ELSE DecisionOf(case.route_output, Registry)

DecisionIn(outcome) ==
    IF outcome.action = None THEN None
    ELSE [action |-> outcome.action, tool_name |-> outcome.tool_name,
          arguments |-> outcome.arguments]

RouteCase ==
    IF RouterOutcome.kind = "decision"
    THEN RouteTo(DecisionIn(RouterOutcome))
    ELSE RouteFails("model_error", DecisionIn(RouterOutcome))

\* MUTANT: a call that is not counted, so that a retry gets the same result again.
ScriptedReturnsUncounted ==
    /\ IsScripted
    /\ ~SleepsPastDeadline
    /\ ToolReturns(ScriptedResult(calls + 1))
    /\ UNCHANGED calls

ScriptedReturns ==
    /\ IsScripted
    /\ ~SleepsPastDeadline
    /\ ToolReturns(ScriptedResult(calls + 1))
    /\ calls' = calls + 1

\* The steps of the run, ScriptedReturns apart.  A delayed tool that is cancelled in
\* its sleep has counted no call.
RunStep ==
    \/ Start
    \/ RouteCase
    \/ ToolMissingFrom(Registry)
    \/ CallToolFrom(Registry)
    \/ ~IsScripted /\ CatalogReturns
    \/ SleepsPastDeadline /\ DeadlinePasses
    \/ deadline = "expired" /\ (ToolTimesOut \/ ModelFails("model_timeout"))
    \/ VerifyResult
    \/ Recover
    \/ CallModel
    \/ ~SleepsPastDeadline /\ ModelAnswers
    \/ AnswerFromTool
    \/ Return
    \/ Raise

\* run_case: a run that raised is judged by the state its exception carries.
RecordResult ==
    /\ running # None
    /\ node \in {"returned", "raised"}
    /\ results' = Append(results, [case_name |-> case.name, expected |-> case.expected,
                                   actual |-> TrajectoryFromState(agent)])
    /\ running' = None
    /\ UNCHANGED <<vars, suite, calls>>

AllRun == running = None /\ Len(results) = Len(Suites[suite])

EvaluationNext ==
    \/ BeginCase
    \/ running # None /\ RunStep /\ UNCHANGED runner
    \/ running # None /\ ScriptedReturns /\ UNCHANGED <<suite, running, results>>
    \/ RecordResult
    \/ AllRun /\ UNCHANGED evaluation

EvaluationSpec == EvaluationInit /\ [][EvaluationNext]_evaluation

-----------------------------------------------------------------------------
(* Properties.                                                             *)

\* The control loop modelled in AgentRun, with the shipped catalog and the routers'
\* rules, takes exactly the path the repository's golden cases record, in every case
\* and whatever was run before it: decisions, attempts, recovery, class, error token
\* and the order of events (agent_cases.py:75-504, test_regression_cases.py:69-77).
GoldenTrajectories == \A i \in DOMAIN results : Passed(results[i])

\* What the script of the running case has for attempt n.
ScriptedAttempt(n) ==
    IF Late(case.tool_delay, case.tool_timeout)
    THEN FailureResult("tool_timeout", TRUE)
    ELSE ScriptedResult(n)

\* A scripted case sees its own script from the beginning, one result for each attempt
\* and the last one again: a case before it has used up none of its results, and every
\* attempt that is not late uses up one (runner.py:33-65, 164-168).
ScriptIsPlayedInOrder ==
    (running # None /\ IsScripted) =>
        \A n \in DOMAIN agent.observations :
            /\ agent.observations[n].success = ScriptedAttempt(n).success
            /\ agent.observations[n].data = ScriptedAttempt(n).data
=============================================================================
