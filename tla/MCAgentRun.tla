----------------------------- MODULE MCAgentRun -----------------------------
(***************************************************************************)
(* Instance of AgentRun for TLC: two tenants with one property each beside *)
(* a property they do not own, two work orders, one allowed and one other  *)
(* issue type, and tool results that differ from the right answer in one   *)
(* respect each.                                                           *)
(***************************************************************************)
EXTENDS AgentRun

CONSTANTS t1, t2, p1, p2, w1, w2, plumbing, Plumbing, gardening

MCLowerCase == [i \in {plumbing, Plumbing, gardening} |->
                  IF i = Plumbing THEN plumbing ELSE i]

\* Every caller: fully scoped, in another tenant, at another property, unscoped.
MCScopes ==
    { [tenant_id |-> t1, property_id |-> p1], [tenant_id |-> t2, property_id |-> p1],
      [tenant_id |-> t1, property_id |-> p2], [tenant_id |-> None, property_id |-> p1],
      [tenant_id |-> t1, property_id |-> None] }

Use(tool, id, issue) ==
    [action |-> "use_tool", tool_name |-> tool,
     arguments |-> [work_order_id |-> id, issue_type |-> issue]]

MCDecisions ==
    { [action |-> "direct", tool_name |-> None, arguments |-> NoArguments],
      Use(WorkOrderTool, w1, None), Use(WorkOrderTool, None, None),
      Use(PolicyTool, None, Plumbing), Use(PolicyTool, None, gardening),
      Use(PolicyTool, None, None) }

MCRejected ==
    { Use(None, None, None), Use(UnknownTool, None, None), Use(WorkOrderTool, w2, None) }

RightOrder ==
    [EmptyPayload EXCEPT !.work_order_id = w1, !.tenant_id = t1, !.property_id = p1,
        !.status = AllowedStatus, !.issue_type = plumbing, !.details = "present"]
RightPolicy ==
    [EmptyPayload EXCEPT !.issue_type = plumbing, !.tenant_id = t1, !.property_id = p1,
        !.terms = AllowedTerms, !.details = "present",
        !.effective_at = 1, !.expires_at = 3, !.as_of = 2]

Orders ==
    { RightOrder, [RightOrder EXCEPT !.work_order_id = w2],
      [RightOrder EXCEPT !.tenant_id = t2], [RightOrder EXCEPT !.property_id = p2],
      [RightOrder EXCEPT !.status = "other_status"], [RightOrder EXCEPT !.details = None] }
Policies ==
    { RightPolicy, [RightPolicy EXCEPT !.issue_type = gardening],
      [RightPolicy EXCEPT !.tenant_id = t2], [RightPolicy EXCEPT !.property_id = p2],
      [RightPolicy EXCEPT !.terms = "other_terms"], [RightPolicy EXCEPT !.as_of = 3],
      [RightPolicy EXCEPT !.as_of = 1], [RightPolicy EXCEPT !.effective_at = 3],
      [RightPolicy EXCEPT !.expires_at = None] }

MCResults ==
    { [success |-> TRUE, retryable |-> retryable, data |-> data] :
        data \in Orders \cup Policies, retryable \in BOOLEAN }
    \cup { FailureResult(code, retryable) :
             code \in {"not_found", "cross_tenant"}, retryable \in BOOLEAN }
=============================================================================
