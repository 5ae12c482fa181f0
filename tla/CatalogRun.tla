----------------------------- MODULE CatalogRun -----------------------------
(***************************************************************************)
(* A run of the agent with the tools the service is shipped with: the      *)
(* lookup tools over the in-memory stores (tools/store.py) of the default  *)
(* catalog (tools/catalog.py), in place of the arbitrary tools of AgentRun.*)
(*                                                                         *)
(* The stores await nothing, so a tool call is not interrupted: it neither *)
(* times out nor is cancelled, and it raises nothing.  Dates are numbers   *)
(* yyyymmdd, all in UTC as in the catalog.                                 *)
(***************************************************************************)
EXTENDS AgentRun

-----------------------------------------------------------------------------
(* The caller's scope, which comes from two headers and nowhere else.      *)

\* A header of spaces only.
Blank == " "

HeaderValue(raw) == IF raw = Blank THEN None ELSE raw

TrustedScopeFromHeaders(headers) ==
    [tenant_id |-> HeaderValue(headers.tenant), property_id |-> HeaderValue(headers.property)]

-----------------------------------------------------------------------------
(* The catalog.                                                            *)

FrozenNow == 20260902

WorkOrderRecord(id, tenant, property, issue) ==
    [work_order_id |-> id, tenant_id |-> tenant, property_id |-> property,
     status |-> AllowedStatus, issue_type |-> issue]

WorkOrders ==
    << WorkOrderRecord("WO-123", "tenant-a", "prop-1", "plumbing"),
       WorkOrderRecord("WO-456", "tenant-a", "prop-9", "electrical"),
       WorkOrderRecord("WO-999", "tenant-b", "prop-2", "hvac") >>

PolicyRecord(tenant, property, issue, from, until) ==
    [tenant_id |-> tenant, property_id |-> property, issue_type |-> issue,
     effective_at |-> from, expires_at |-> until]

Policies ==
    << PolicyRecord("tenant-a", "prop-1", "plumbing", 20240101, 20271231),
       PolicyRecord("tenant-a", "prop-1", "hvac", 20230101, 20250601),
       PolicyRecord("tenant-b", "prop-2", "plumbing", 20240101, 20271231),
       PolicyRecord("tenant-a", "prop-9", "electrical", 20250101, 20280101) >>

-----------------------------------------------------------------------------
(* The stores: a dict built from the records, where the last of a key wins.*)

Found(data) == [success |-> TRUE, retryable |-> FALSE, data |-> data]

Refused(code) == FailureResult(code, FALSE)

WorkOrderData(record) ==
    [EmptyPayload EXCEPT
        !.work_order_id = record.work_order_id, !.tenant_id = record.tenant_id,
        !.property_id = record.property_id, !.status = record.status,
        !.issue_type = record.issue_type, !.details = "present"]

PolicyData(record) ==
    [EmptyPayload EXCEPT
        !.tenant_id = record.tenant_id, !.property_id = record.property_id,
        !.issue_type = record.issue_type, !.terms = AllowedTerms, !.details = "present",
        !.effective_at = record.effective_at, !.expires_at = record.expires_at,
        !.as_of = FrozenNow]

Scoped(trusted_scope) ==
    trusted_scope.tenant_id # None /\ trusted_scope.property_id # None

ById(id) == {i \in DOMAIN WorkOrders : WorkOrders[i].work_order_id = id}

\* MUTANT: a record of the tenant's other properties is returned.
GetWorkOrderOfTenant(id, trusted_scope) ==
    IF ~Scoped(trusted_scope) THEN Refused("missing_scope")
    ELSE IF ById(id) = {} THEN Refused("not_found")
    ELSE LET record == WorkOrders[CHOOSE i \in ById(id) : \A j \in ById(id) : j <= i]
         IN  IF record.tenant_id # trusted_scope.tenant_id THEN Refused("cross_tenant")
             ELSE Found(WorkOrderData(record))

GetWorkOrder(id, trusted_scope) ==
    IF ~Scoped(trusted_scope) THEN Refused("missing_scope")
    ELSE IF ById(id) = {} THEN Refused("not_found")
    ELSE LET record == WorkOrders[CHOOSE i \in ById(id) : \A j \in ById(id) : j <= i]
         IN  IF record.tenant_id # trusted_scope.tenant_id THEN Refused("cross_tenant")
             ELSE IF record.property_id # trusted_scope.property_id THEN Refused("wrong_property")
             ELSE Found(WorkOrderData(record))

\* _foreign_policy: the first record of the issue type outside the scope.
OutOfScope(issue, trusted_scope) ==
    {i \in DOMAIN Policies :
        /\ Policies[i].issue_type = issue
        /\ \/ Policies[i].tenant_id # trusted_scope.tenant_id
           \/ Policies[i].property_id # trusted_scope.property_id}

InScopePolicies(issue, trusted_scope) ==
    {i \in DOMAIN Policies : Policies[i].issue_type = issue} \ OutOfScope(issue, trusted_scope)

\* MUTANT: the tokens of the two kinds of foreign record swapped.
ForeignTokenSwapped(record, trusted_scope) ==
    IF record.tenant_id # trusted_scope.tenant_id THEN "wrong_property" ELSE "cross_tenant"

ForeignToken(record, trusted_scope) ==
    IF record.tenant_id # trusted_scope.tenant_id THEN "cross_tenant" ELSE "wrong_property"

GetPolicy(issue, trusted_scope) ==
    LET own == InScopePolicies(issue, trusted_scope)
        foreign == OutOfScope(issue, trusted_scope)
    IN  IF ~Scoped(trusted_scope) THEN Refused("missing_scope")
        ELSE IF own # {}
        THEN Found(PolicyData(Policies[CHOOSE i \in own : \A j \in own : j <= i]))
        ELSE IF foreign # {}
        THEN Refused(ForeignToken(Policies[CHOOSE i \in foreign : \A j \in foreign : i <= j],
                                  trusted_scope))
        ELSE Refused("missing_policy")

\* MUTANT: the issue type looked up as it was written.
ExecuteAsWritten(tool, arguments, trusted_scope) ==
    IF tool = WorkOrderTool
    THEN IF WorkOrderRequest(arguments) = None
         THEN Refused("missing_work_order_id")
         ELSE GetWorkOrder(WorkOrderRequest(arguments), trusted_scope)
    ELSE IF PolicyRequest(arguments) = None
         THEN Refused("missing_issue_type")
         ELSE GetPolicy(arguments.issue_type, trusted_scope)

\* WorkOrderLookupTool.execute and MaintenancePolicyLookupTool.execute
Execute(tool, arguments, trusted_scope) ==
    IF tool = WorkOrderTool
    THEN IF WorkOrderRequest(arguments) = None
         THEN Refused("missing_work_order_id")
         ELSE GetWorkOrder(WorkOrderRequest(arguments), trusted_scope)
    ELSE IF PolicyRequest(arguments) = None
         THEN Refused("missing_issue_type")
         ELSE GetPolicy(PolicyRequest(arguments), trusted_scope)

(* What the proofs assume: the texts of the catalog are among those of the *)
(* model, and what its tools return is among what a tool may return.       *)
ASSUME CatalogAssumption ==
    /\ WorkOrders \in Seq([work_order_id : WorkOrderIds, tenant_id : Tenants,
                           property_id : Properties, status : {AllowedStatus},
                           issue_type : IssueTypes])
    /\ Policies \in Seq([tenant_id : Tenants, property_id : Properties,
                         issue_type : AllowedIssueTypes,
                         effective_at : Times, expires_at : Times])
    /\ FrozenNow \in Times
    /\ None \notin {AllowedStatus, AllowedTerms, "present"}
    /\ \A decision \in Decisions, trusted_scope \in Scopes :
          decision.action = "use_tool" =>
              Execute(decision.tool_name, decision.arguments, trusted_scope) \in Results

-----------------------------------------------------------------------------
(* AgentRun with these tools.                                              *)

CatalogReturns ==
    /\ node = "tool_node"
    /\ deadline = "open"
    /\ AttemptEnds(Execute(agent.decision.tool_name, agent.decision.arguments, scope), None)

CatalogNext ==
    \/ Start
    \/ node # "tool_node" /\ DeadlinePasses
    \/ \E decision \in Decisions : RouteTo(decision)
    \/ \E class \in ModelFailures, decision \in OrNone(RejectedDecisions) :
          RouteFails(class, decision)
    \/ CallTool
    \/ CatalogReturns
    \/ VerifyResult
    \/ Recover
    \/ CallModel
    \/ ModelAnswers
    \/ \E class \in ModelFailures : ModelFails(class)
    \/ ModelCrashes
    \/ AnswerFromTool
    \/ Return
    \/ Raise
    \/ ~(node = "tool_node" /\ deadline = "open") /\ Cancel
    \/ Finished

CatalogSpec == Init /\ [][CatalogNext]_vars

-----------------------------------------------------------------------------
(* Properties.                                                             *)

UsedTool == node = "returned" /\ agent.decision.action = "use_tool"

\* What a caller may be told: the record asked for, of the caller's own property,
\* and of a policy only while it is in force.
Answerable ==
    LET asked == agent.decision.arguments
    IN  IF agent.decision.tool_name = WorkOrderTool
        THEN \E i \in DOMAIN WorkOrders :
                /\ WorkOrders[i].work_order_id = asked.work_order_id
                /\ WorkOrders[i].tenant_id = scope.tenant_id
                /\ WorkOrders[i].property_id = scope.property_id
        ELSE \E i \in DOMAIN Policies :
                /\ asked.issue_type # None
                /\ Policies[i].issue_type = LowerCase[asked.issue_type]
                /\ Policies[i].tenant_id = scope.tenant_id
                /\ Policies[i].property_id = scope.property_id
                /\ Policies[i].effective_at <= FrozenNow
                /\ FrozenNow < Policies[i].expires_at

\* The tools, the verifier and the recovery policy agree: a caller gets a tool
\* answer exactly when the catalog holds one for that caller; nobody is refused a
\* record of their own and nobody gets another's (store.py, verification.py).
AnsweredExactlyWhenEntitled == UsedTool => (agent.status = "completed" <=> Answerable)

\* A foreign record is refused before the verifier sees it: no observation holds a
\* payload of another tenant or property (store.py:57-68, 121-134).
ForeignDataStaysInStore ==
    \A i \in DOMAIN agent.observations :
        LET data == agent.observations[i].data
        IN  data.tenant_id # None => data.tenant_id = scope.tenant_id
                                     /\ data.property_id = scope.property_id

\* The token of a refusal is the reason for it: an operator who reads cross_tenant
\* knows that such a record exists and belongs to another tenant (store.py:50-68,
\* 98-115).
TokenTellsTruth ==
    (UsedTool /\ ~agent.tool_result.success) =>
        LET token == agent.tool_result.data.error
            asked == agent.decision.arguments
            records == IF agent.decision.tool_name = WorkOrderTool
                       THEN {WorkOrders[i] : i \in ById(asked.work_order_id)}
                       ELSE {Policies[i] : i \in {j \in DOMAIN Policies :
                                /\ asked.issue_type # None
                                /\ Policies[j].issue_type = LowerCase[asked.issue_type]}}
        IN  /\ token = "missing_scope" <=>
                  /\ ~Scoped(scope)
                  /\ token \notin {"missing_work_order_id", "missing_issue_type"}
            /\ token = "cross_tenant" =>
                  \E record \in records : record.tenant_id # scope.tenant_id
            /\ token = "wrong_property" =>
                  \E record \in records : /\ record.tenant_id = scope.tenant_id
                                          /\ record.property_id # scope.property_id
            /\ token \in {"not_found", "missing_policy"} => records = {}
=============================================================================
