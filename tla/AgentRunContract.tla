--------------------------- MODULE AgentRunContract ---------------------------
(***************************************************************************)
(* AgentRun implements RunContract: the refinement mapping.                *)
(***************************************************************************)
EXTENDS AgentRun

\* RecoveryPolicy looks at the budget only after an attempt: one is always made.
CallBudget == IF MaxAttempts = 0 THEN 1 ELSE MaxAttempts

\* What the caller can see of the run.
VisiblePhase ==
    IF node = "returned" THEN IF response.source = "review" THEN "review" ELSE "answered"
    ELSE IF node = "raised" THEN "failed"
    ELSE IF node = "cancelled" THEN "cancelled"
    ELSE "working"

\* The payload the answer was formatted from is the caller's, and what was asked.
Grounded(data) ==
    /\ data # None
    /\ scope.tenant_id # None /\ data.tenant_id = scope.tenant_id
    /\ scope.property_id # None /\ data.property_id = scope.property_id
    /\ \/ /\ agent.decision.tool_name = WorkOrderTool
          /\ data.work_order_id = agent.decision.arguments.work_order_id
       \/ /\ agent.decision.tool_name = PolicyTool
          /\ data.issue_type = LowerCase[agent.decision.arguments.issue_type]
          /\ InForce(data)

AnswerIsGrounded == node = "returned" /\ response.source = "tool" /\ Grounded(response.about)

Contract ==
    INSTANCE RunContract WITH
        Budget <- CallBudget,
        phase <- VisiblePhase,
        calls <- agent.attempts,
        grounded <- AnswerIsGrounded,
        remembered <- remembered

\* The graph, its retries, deadlines and cancellations show the caller nothing
\* but the behaviour of RunContract, and the run ends (async_runtime.py:127-182).
ImplementsContract == Contract!ContractSpec
=============================================================================
