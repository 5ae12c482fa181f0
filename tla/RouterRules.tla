----------------------------- MODULE RouterRules -----------------------------
(***************************************************************************)
(* What the two routers decide: the domain rules that decide on the model's *)
(* routing JSON (agent/llm_router.py) and the keyword router               *)
(* (agent/router.py).                                                      *)
(*                                                                         *)
(* The arguments of a routing JSON are known by the two keys a tool        *)
(* accepts, each Missing, Unusable (blank or no text) or a text, and by    *)
(* whether any other key, such as tenant_id, is present.  Everything here  *)
(* is an operator.                                                         *)
(***************************************************************************)
EXTENDS ToolGate

CONSTANTS
    Missing, Unusable,
    LongestFirst      \* ALLOWED_ISSUE_TYPES by decreasing length

ASSUME RulesAssumption ==
    /\ {Missing, Unusable} \cap (WorkOrderIds \cup IssueTypes) = {}
    /\ DOMAIN LongestFirst \subseteq Nat
    /\ {LongestFirst[i] : i \in DOMAIN LongestFirst} = AllowedIssueTypes
    /\ \A issue \in AllowedIssueTypes : LowerCase[issue] = issue

RawArguments ==
    [work_order_id : WorkOrderIds \cup {Missing, Unusable},
     issue_type : IssueTypes \cup {Missing, Unusable}, extra : BOOLEAN]
NoRawArguments == [work_order_id |-> Missing, issue_type |-> Missing, extra |-> FALSE]

-----------------------------------------------------------------------------
(* Domain rules of the LLM router.                                         *)

Decided(action, tool, arguments) ==
    [kind |-> "decision", action |-> action, tool_name |-> tool, arguments |-> arguments]

\* The arguments the model wrote, as far as a decision that is never carried out
\* is told by them.
AsWritten(raw) ==
    [work_order_id |-> IF raw.work_order_id \in {Missing, Unusable} THEN None
                       ELSE raw.work_order_id,
     issue_type |-> IF raw.issue_type \in {Missing, Unusable} THEN None ELSE raw.issue_type]

\* RoutingError with the partial decision it carries.
Rejected(tool, raw) ==
    [kind |-> "routing_error", action |-> "use_tool", tool_name |-> tool,
     arguments |-> AsWritten(raw)]

Failed(kind) ==
    [kind |-> kind, action |-> None, tool_name |-> None, arguments |-> NoArguments]

\* _validate_work_order_arguments: no key is accepted, for the tool to refuse.
WorkOrderDecision(raw) ==
    IF raw.extra \/ raw.issue_type # Missing \/ raw.work_order_id = Unusable
    THEN Rejected(WorkOrderTool, raw)
    ELSE Decided("use_tool", WorkOrderTool,
                 [NoArguments EXCEPT !.work_order_id =
                     IF raw.work_order_id = Missing THEN None ELSE raw.work_order_id])

\* MUTANT: the issue type passed on as the model wrote it.
PolicyDecisionAsWritten(raw) ==
    IF \/ raw.extra \/ raw.work_order_id # Missing \/ raw.issue_type = Unusable
       \/ /\ raw.issue_type # Missing
          /\ LowerCase[raw.issue_type] \notin AllowedIssueTypes
    THEN Rejected(PolicyTool, raw)
    ELSE Decided("use_tool", PolicyTool,
                 [NoArguments EXCEPT !.issue_type =
                     IF raw.issue_type = Missing THEN None ELSE raw.issue_type])

\* _validate_policy_arguments
PolicyDecision(raw) ==
    IF \/ raw.extra \/ raw.work_order_id # Missing \/ raw.issue_type = Unusable
       \/ /\ raw.issue_type # Missing
          /\ LowerCase[raw.issue_type] \notin AllowedIssueTypes
    THEN Rejected(PolicyTool, raw)
    ELSE Decided("use_tool", PolicyTool,
                 [NoArguments EXCEPT !.issue_type =
                     IF raw.issue_type = Missing THEN None ELSE LowerCase[raw.issue_type]])

\* decision_from_routing_output; `arguments` null and {} are the same to it.  A tool
\* is allowed when it was registered as the router was built.
DecisionOf(parsed, allowed) ==
    IF parsed.action = "direct"
    THEN IF parsed.tool_name # None \/ parsed.arguments # NoRawArguments
         THEN Failed("routing_error")
         ELSE Decided("direct", None, NoArguments)
    ELSE IF parsed.tool_name \notin allowed \ {None}
         THEN Rejected(parsed.tool_name, parsed.arguments)
    ELSE IF parsed.tool_name = WorkOrderTool THEN WorkOrderDecision(parsed.arguments)
    ELSE IF parsed.tool_name = PolicyTool THEN PolicyDecision(parsed.arguments)
    ELSE Rejected(parsed.tool_name, parsed.arguments)

-----------------------------------------------------------------------------
(* The keyword router.                                                     *)

\* "WO-12" and "wo12" are tagged ids; "work order 12" gives a bare number.
ExtractWorkOrderId(message) ==
    IF message.tagged # None THEN message.tagged ELSE message.numbered

ExtractIssueType(message) ==
    LET found == {i \in DOMAIN LongestFirst : LongestFirst[i] \in message.issues}
    IN  IF found = {} THEN None
        ELSE LongestFirst[CHOOSE i \in found : \A j \in found : i <= j]

KeywordDecision(message) ==
    IF "policy" \in message.words
    THEN Decided("use_tool", PolicyTool,
                 [NoArguments EXCEPT !.issue_type = ExtractIssueType(message)])
    ELSE IF message.words \cap {"work order", "maintenance"} # {}
    THEN Decided("use_tool", WorkOrderTool,
                 [NoArguments EXCEPT !.work_order_id = ExtractWorkOrderId(message)])
    ELSE Decided("direct", None, NoArguments)
=============================================================================
