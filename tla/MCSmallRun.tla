----------------------------- MODULE MCSmallRun -----------------------------
(***************************************************************************)
(* Instance of AgentRunContract and RunTrace for TLC: three attempts, a    *)
(* registry that lacks the policy tool, and one right, one foreign and two *)
(* failed results.                                                         *)
(***************************************************************************)
EXTENDS AgentRunContract, PersistedTrace

CONSTANTS t1, t2, p1, w1, plumbing

MCLowerCase == [i \in {plumbing} |-> i]

MCScopes == { [tenant_id |-> t1, property_id |-> p1], [tenant_id |-> None, property_id |-> p1] }

Use(tool, id, issue) ==
    [action |-> "use_tool", tool_name |-> tool,
     arguments |-> [work_order_id |-> id, issue_type |-> issue]]

MCDecisions ==
    { [action |-> "direct", tool_name |-> None, arguments |-> NoArguments],
      Use(WorkOrderTool, w1, None), Use(PolicyTool, None, plumbing) }

MCRejected == { Use(None, None, None) }

RightOrder ==
    [EmptyPayload EXCEPT !.work_order_id = w1, !.tenant_id = t1, !.property_id = p1,
        !.status = AllowedStatus, !.issue_type = plumbing, !.details = "present"]

MCResults ==
    { [success |-> TRUE, retryable |-> retryable, data |-> data] :
        data \in {RightOrder, [RightOrder EXCEPT !.tenant_id = t2]}, retryable \in BOOLEAN }
    \cup { FailureResult("not_found", FALSE), FailureResult("busy", TRUE) }
=============================================================================
