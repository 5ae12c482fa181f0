---------------------------- MODULE MCCatalogRun ----------------------------
(* Every caller, from no scope to each property of either tenant, asks for    *)
(* every work order and every issue type, known or not.                       *)
EXTENDS CatalogRun

MCLowerCase ==
    [i \in IssueTypes |-> IF i = "Plumbing" THEN "plumbing" ELSE i]

MCScopes ==
    { TrustedScopeFromHeaders(headers) :
        headers \in [tenant : OrNone(Tenants) \cup {Blank},
                     property : OrNone(Properties) \cup {Blank}] }

MCDecisions ==
    { [action |-> "direct", tool_name |-> None, arguments |-> NoArguments] }
    \cup { [action |-> "use_tool", tool_name |-> WorkOrderTool,
            arguments |-> [NoArguments EXCEPT !.work_order_id = id]] :
              id \in OrNone(WorkOrderIds) }
    \cup { [action |-> "use_tool", tool_name |-> PolicyTool,
            arguments |-> [NoArguments EXCEPT !.issue_type = issue]] :
              issue \in OrNone(IssueTypes) }

MCResults ==
    { Execute(decision.tool_name, decision.arguments, trusted_scope) :
        decision \in {d \in MCDecisions : d.action = "use_tool"},
        trusted_scope \in MCScopes }
=============================================================================
