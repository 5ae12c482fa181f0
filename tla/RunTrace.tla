------------------------------ MODULE RunTrace ------------------------------
(***************************************************************************)
(* The ExecutionTrace that trace_from_state (observability/trace.py) makes *)
(* of a finished run, and what it must tell an operator of that run.       *)
(***************************************************************************)
EXTENDS AgentRun

Max0(n) == IF n < 0 THEN 0 ELSE n

\* MUTANT: a tool's error token whatever became of the run.
TerminalErrorCodeOfAnyRun(state) ==
    LET failed == {i \in DOMAIN state.events : state.events[i].name = "tool_failed"}
        latest == CHOOSE i \in failed : \A j \in failed : j <= i
    IN  IF failed = {} THEN None ELSE state.events[latest].error

\* MUTANT: the token of the first tool_failed event, whatever came after it.
TerminalErrorCodeOfFirst(state) ==
    LET failed == {i \in DOMAIN state.events : state.events[i].name = "tool_failed"}
        first == CHOOSE i \in failed : \A j \in failed : i <= j
    IN  IF state.status = "completed"
        THEN None
        ELSE IF failed # {} /\ state.events[first].error # None
        THEN state.events[first].error
        ELSE IF state.tool_result # None /\ ~state.tool_result.success
        THEN state.tool_result.data.error
        ELSE None

\* The token of the latest tool_failed event, or else of the last result.
TerminalErrorCode(state) ==
    LET failed == {i \in DOMAIN state.events : state.events[i].name = "tool_failed"}
        latest == CHOOSE i \in failed : \A j \in failed : j <= i
    IN  IF state.status = "completed"
        THEN None
        ELSE IF failed # {} /\ state.events[latest].error # None
        THEN state.events[latest].error
        ELSE IF state.tool_result # None /\ ~state.tool_result.success
        THEN state.tool_result.data.error
        ELSE None

\* MUTANT: every attempt counted as a retry.
RetryCountOfAttempts(state) == state.attempts

RetryCount(state) == Max0(state.attempts - 1)

Outcome(state) ==
    CASE state.status = "completed" -> "success"
      [] state.status = "failed" -> "failure"
      [] OTHER -> state.status

TraceFromState(state) ==
    [terminal_status |-> state.status,
     decision |-> IF state.decision = None THEN None ELSE state.decision.action,
     selected_tool |-> IF state.decision = None \/ state.decision.action # "use_tool"
                       THEN None ELSE state.decision.tool_name,
     verification_result |-> state.verification_result,
     attempts |-> state.attempts,
     retry_count |-> RetryCount(state),
     outcome |-> Outcome(state),
     failure_class |-> state.failure_class,
     recovery_decision |-> state.recovery_decision,
     router_type |-> state.router_type,
     error_code |-> TerminalErrorCode(state),
     events |-> state.events]

\* run_with_trace builds the trace of a run that returned.
Traced == node = "returned"
Trace == TraceFromState(agent)

-----------------------------------------------------------------------------
(* Properties.                                                             *)

\* A run reported as a success was verified if it used a tool, and carries no
\* class and no error token of the attempts it took (trace.py:63-118).
SuccessIsClean ==
    (Traced /\ Trace.outcome = "success") =>
        /\ Trace.failure_class = None
        /\ Trace.error_code = None
        /\ Trace.decision = "use_tool" <=> Trace.verification_result = TRUE
        /\ Trace.selected_tool # None <=> Trace.verification_result = TRUE

\* docs/DESIGN.md:170: failure_class and error_code together tell a run that timed out
\* from one whose tool refused.  Of a run that failed after a tool call the class is of
\* the last attempt; if that attempt failed the token is its own, not an earlier
\* attempt's, and the two say time-out together or not at all (trace.py:101-124).
PairTellsTimeout ==
    (Traced /\ Trace.outcome # "success" /\ agent.observations # <<>>) =>
        LET last == Last(agent.observations)
        IN  IF last.success
            THEN Trace.failure_class = "verification_failure"
            ELSE /\ Trace.error_code = last.data.error
                 /\ Trace.failure_class \in ToolFailures
                 /\ Trace.failure_class = "tool_timeout" <=> Trace.error_code = "tool_timeout"
=============================================================================
