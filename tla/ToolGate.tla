------------------------------ MODULE ToolGate ------------------------------
(***************************************************************************)
(* The data a tool call carries and the gate a result passes before it may *)
(* reach the user: agent/verification.py, and the typed requests and       *)
(* observations of tools/work_order.py and tools/maintenance_policy.py.    *)
(*                                                                         *)
(* A text is known up to the conversions the code applies to it: a value   *)
(* that is absent, of another type or blank is None (`_required_text`), and*)
(* two texts that differ only in surrounding blanks are one value.  Lower  *)
(* case matters for issue types and is the constant function LowerCase.    *)
(* Everything here is an operator; the state is in the modules that extend *)
(* this one.                                                               *)
(***************************************************************************)
EXTENDS Integers

CONSTANTS
    None,               \* Python's None, and the text that is not there
    Tenants, Properties,
    WorkOrderIds,
    IssueTypes,         \* every issue-type text that can occur
    AllowedIssueTypes,  \* ALLOWED_ISSUE_TYPES
    LowerCase,          \* str.lower on IssueTypes
    Times,              \* instants, for the policy's freshness window
    ToolErrors          \* error tokens a tool may put in its payload

ASSUME GateAssumption ==
    /\ AllowedIssueTypes \subseteq IssueTypes
    /\ LowerCase \in [IssueTypes -> IssueTypes]
    /\ Times \subseteq Int
    /\ None \notin Tenants \cup Properties \cup WorkOrderIds \cup IssueTypes
    /\ None \notin Times
    /\ None \notin BOOLEAN

WorkOrderTool == "work_order_lookup"
PolicyTool == "maintenance_policy_lookup"
\* A name that no registry files a tool under; a model may make one up.
UnknownTool == "unknown_tool"
ToolNames == {WorkOrderTool, PolicyTool, UnknownTool}

\* ALLOWED_WORK_ORDER_STATUSES stands as one value: the gate only asks membership.
AllowedStatus == "allowed_status"
\* emergency_level and allowed_action both in their allow-lists.
AllowedTerms == "allowed_terms"

OrNone(S) == S \cup {None}

TrustedScope == [tenant_id : OrNone(Tenants), property_id : OrNone(Properties)]

\* The runtime has two tokens of its own, for a timeout and for an exception.
ErrorTokens == ToolErrors \cup {"tool_timeout", "tool_error"}

Arguments == [work_order_id : OrNone(WorkOrderIds), issue_type : OrNone(IssueTypes)]
NoArguments == [work_order_id |-> None, issue_type |-> None]

\* ToolResult.data, a dict: a key that is missing maps to None.  `details` is the
\* remaining required text of either payload (reported_at; response_sla,
\* policy_version and the escalation flag).
Payload ==
    [work_order_id : OrNone(WorkOrderIds), issue_type : OrNone(IssueTypes),
     tenant_id : OrNone(Tenants), property_id : OrNone(Properties),
     status : OrNone({AllowedStatus, "other_status"}),
     terms : OrNone({AllowedTerms, "other_terms"}),
     details : OrNone({"present"}),
     effective_at : OrNone(Times), expires_at : OrNone(Times), as_of : OrNone(Times),
     error : OrNone(ErrorTokens)]

EmptyPayload ==
    [work_order_id |-> None, issue_type |-> None, tenant_id |-> None,
     property_id |-> None, status |-> None, terms |-> None, details |-> None,
     effective_at |-> None, expires_at |-> None, as_of |-> None, error |-> None]

ToolResult == [success : BOOLEAN, retryable : BOOLEAN, data : Payload]

\* The envelope of a tool that did not produce a payload.
FailureResult(code, retryable) ==
    [success |-> FALSE, retryable |-> retryable,
     data |-> [EmptyPayload EXCEPT !.error = code]]

-----------------------------------------------------------------------------
(* Typed arguments.                                                        *)

WorkOrderRequest(arguments) == arguments.work_order_id

PolicyRequest(arguments) ==
    IF arguments.issue_type # None /\ LowerCase[arguments.issue_type] \in AllowedIssueTypes
    THEN LowerCase[arguments.issue_type]
    ELSE None

-----------------------------------------------------------------------------
(* Observations parsed from an untrusted payload: from_data.               *)

WorkOrderKeys ==
    {"work_order_id", "tenant_id", "property_id", "status", "issue_type", "details"}
PolicyKeys ==
    {"tenant_id", "property_id", "issue_type", "terms", "details",
     "effective_at", "expires_at", "as_of"}

ParsesAsWorkOrder(data) == \A key \in WorkOrderKeys : data[key] # None
ParsesAsPolicy(data) == \A key \in PolicyKeys : data[key] # None

-----------------------------------------------------------------------------
(* The domain gates: is_valid_for and ToolVerifier.verify.                 *)

InScope(data, scope) ==
    /\ scope.tenant_id # None
    /\ scope.property_id # None
    /\ data.tenant_id = scope.tenant_id
    /\ data.property_id = scope.property_id

\* effective_at <= as_of < expires_at
InForce(data) ==
    /\ data.effective_at <= data.as_of
    /\ data.as_of < data.expires_at

WorkOrderIsValidFor(data, request, scope) ==
    /\ request # None
    /\ data.work_order_id = request
    /\ data.status = AllowedStatus
    /\ InScope(data, scope)

PolicyIsValidFor(data, request, scope) ==
    /\ request # None
    /\ data.issue_type = request
    /\ InScope(data, scope)
    /\ data.terms = AllowedTerms
    /\ InForce(data)

Verify(result, arguments, toolName, scope) ==
    /\ result.success
    /\ \/ /\ toolName = WorkOrderTool
          /\ ParsesAsWorkOrder(result.data)
          /\ WorkOrderIsValidFor(result.data, WorkOrderRequest(arguments), scope)
       \/ /\ toolName = PolicyTool
          /\ ParsesAsPolicy(result.data)
          /\ PolicyIsValidFor(result.data, PolicyRequest(arguments), scope)

\* sanitize_evidence_data
WithoutScope(data) == [data EXCEPT !.tenant_id = None, !.property_id = None]
=============================================================================
