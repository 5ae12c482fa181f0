---------------------------- MODULE CatalogRunProofs ----------------------------
(***************************************************************************)
(* Proofs about CatalogRun for every set of callers and decisions: a run   *)
(* with the shipped tools and records answers exactly who is entitled, no  *)
(* foreign record leaves the stores, and a refusal gives its true reason.  *)
(* Then about EvaluationRun, which puts scripted tools in the place of the *)
(* shipped ones: each case plays its own script.                           *)
(***************************************************************************)
EXTENDS EvaluationRun, AgentRunProofs

-----------------------------------------------------------------------------
(* The catalog and what the stores make of it.                             *)

\* A record is known by its key: of the shipped records none hides another.
LEMMA CatalogKeys ==
    /\ \A i, j \in DOMAIN WorkOrders :
          WorkOrders[i].work_order_id = WorkOrders[j].work_order_id => i = j
    /\ \A i, j \in DOMAIN Policies :
          /\ Policies[i].tenant_id = Policies[j].tenant_id
          /\ Policies[i].property_id = Policies[j].property_id
          /\ Policies[i].issue_type = Policies[j].issue_type
          => i = j
<1>1. /\ DOMAIN WorkOrders = 1..3
      /\ WorkOrders[1].work_order_id = "WO-123"
      /\ WorkOrders[2].work_order_id = "WO-456"
      /\ WorkOrders[3].work_order_id = "WO-999"
  BY DEF WorkOrders, WorkOrderRecord
<1>2. /\ DOMAIN Policies = 1..4
      /\ Policies[1].tenant_id = "tenant-a" /\ Policies[1].issue_type = "plumbing"
      /\ Policies[2].tenant_id = "tenant-a" /\ Policies[2].issue_type = "hvac"
      /\ Policies[3].tenant_id = "tenant-b" /\ Policies[3].issue_type = "plumbing"
      /\ Policies[4].tenant_id = "tenant-a" /\ Policies[4].issue_type = "electrical"
  BY DEF Policies, PolicyRecord
<1>3. QED
  BY <1>1, <1>2

LEMMA ElementOfSeq ==
    ASSUME NEW S, NEW s \in Seq(S), NEW i \in DOMAIN s
    PROVE  s[i] \in S
<1>1. i \in 1..Len(s)
  OBVIOUS
<1>2. QED
  BY <1>1

\* What the proofs use of the records' types.
LEMMA CatalogTypes ==
    /\ \A i \in DOMAIN WorkOrders :
          /\ WorkOrders[i].work_order_id # None
          /\ WorkOrders[i].tenant_id # None /\ WorkOrders[i].property_id # None
          /\ WorkOrders[i].status = AllowedStatus
          /\ WorkOrders[i].issue_type # None
    /\ \A i \in DOMAIN Policies :
          /\ Policies[i].tenant_id # None /\ Policies[i].property_id # None
          /\ Policies[i].issue_type \in AllowedIssueTypes
          /\ Policies[i].issue_type # None
          /\ Policies[i].effective_at # None /\ Policies[i].expires_at # None
    /\ FrozenNow # None /\ AllowedStatus # None /\ AllowedTerms # None /\ "present" # None
<1>1. ASSUME NEW i \in DOMAIN WorkOrders
      PROVE  /\ WorkOrders[i].work_order_id # None
             /\ WorkOrders[i].tenant_id # None /\ WorkOrders[i].property_id # None
             /\ WorkOrders[i].status = AllowedStatus
             /\ WorkOrders[i].issue_type # None
  <2>1. WorkOrders[i] \in [work_order_id : WorkOrderIds, tenant_id : Tenants,
                           property_id : Properties, status : {AllowedStatus},
                           issue_type : IssueTypes]
    BY CatalogAssumption, ElementOfSeq
  <2>2. WorkOrders[i].property_id \in Properties /\ WorkOrders[i].tenant_id \in Tenants
        /\ WorkOrders[i].work_order_id \in WorkOrderIds
        /\ WorkOrders[i].issue_type \in IssueTypes /\ WorkOrders[i].status = AllowedStatus
    BY <2>1
  <2>3. QED
    BY <2>2, GateAssumption
<1>2. ASSUME NEW i \in DOMAIN Policies
      PROVE  /\ Policies[i].tenant_id # None /\ Policies[i].property_id # None
             /\ Policies[i].issue_type \in AllowedIssueTypes
             /\ Policies[i].issue_type # None
             /\ Policies[i].effective_at # None /\ Policies[i].expires_at # None
  <2>1. Policies[i] \in [tenant_id : Tenants, property_id : Properties,
                         issue_type : AllowedIssueTypes,
                         effective_at : Times, expires_at : Times]
    BY CatalogAssumption, ElementOfSeq
  <2>2. QED
    BY <2>1, GateAssumption
<1>3. QED
  BY <1>1, <1>2, CatalogAssumption, GateAssumption

LEMMA RefusedFields ==
    ASSUME NEW code
    PROVE  /\ Refused(code).success = FALSE
           /\ Refused(code).retryable = FALSE
           /\ Refused(code).data.error = code
           /\ Refused(code).data.tenant_id = None
BY DEF Refused, FailureResult, EmptyPayload

LEMMA FoundFields ==
    ASSUME NEW data
    PROVE  Found(data).success = TRUE /\ Found(data).data = data
BY DEF Found

LEMMA WorkOrderDataFields ==
    ASSUME NEW record
    PROVE  LET data == WorkOrderData(record)
           IN  /\ data.work_order_id = record.work_order_id
               /\ data.tenant_id = record.tenant_id
               /\ data.property_id = record.property_id
               /\ data.status = record.status
               /\ data.issue_type = record.issue_type
               /\ data.details = "present"
BY DEF WorkOrderData, EmptyPayload

LEMMA PolicyDataFields ==
    ASSUME NEW record
    PROVE  LET data == PolicyData(record)
           IN  /\ data.tenant_id = record.tenant_id
               /\ data.property_id = record.property_id
               /\ data.issue_type = record.issue_type
               /\ data.terms = AllowedTerms /\ data.details = "present"
               /\ data.effective_at = record.effective_at
               /\ data.expires_at = record.expires_at
               /\ data.as_of = FrozenNow
BY DEF PolicyData, EmptyPayload

\* The record an id names, or a refusal that says why there is none for the caller.
LEMMA GetWorkOrderGives ==
    ASSUME NEW id, NEW trusted_scope
    PROVE  LET result == GetWorkOrder(id, trusted_scope)
           IN  \/ ~Scoped(trusted_scope) /\ result = Refused("missing_scope")
               \/ Scoped(trusted_scope) /\ ById(id) = {} /\ result = Refused("not_found")
               \/ \E i \in ById(id) :
                     /\ Scoped(trusted_scope)
                     /\ \/ /\ WorkOrders[i].tenant_id # trusted_scope.tenant_id
                           /\ result = Refused("cross_tenant")
                        \/ /\ WorkOrders[i].tenant_id = trusted_scope.tenant_id
                           /\ WorkOrders[i].property_id # trusted_scope.property_id
                           /\ result = Refused("wrong_property")
                        \/ /\ WorkOrders[i].tenant_id = trusted_scope.tenant_id
                           /\ WorkOrders[i].property_id = trusted_scope.property_id
                           /\ result = Found(WorkOrderData(WorkOrders[i]))
<1>1. CASE ~Scoped(trusted_scope) \/ ById(id) = {}
  BY <1>1 DEF GetWorkOrder
<1>2. CASE Scoped(trusted_scope) /\ ById(id) # {}
  <2>1. PICK i \in ById(id) : TRUE
    BY <1>2
  <2>2. \A j \in ById(id) : j = i
    BY <2>1, CatalogKeys DEF ById
  <2>3. i <= i
    BY <2>1 DEF ById, WorkOrders
  <2> DEFINE k == CHOOSE k \in ById(id) : \A j \in ById(id) : j <= k
  <2>4. k \in ById(id)
    BY <2>2, <2>3
  <2>5. k = i
    BY <2>2, <2>4
  <2>6. GetWorkOrder(id, trusted_scope) =
           IF WorkOrders[k].tenant_id # trusted_scope.tenant_id
           THEN Refused("cross_tenant")
           ELSE IF WorkOrders[k].property_id # trusted_scope.property_id
           THEN Refused("wrong_property")
           ELSE Found(WorkOrderData(WorkOrders[k]))
    BY <1>2, Zenon DEF GetWorkOrder
  <2> HIDE DEF k
  <2>7. QED
    BY <1>2, <2>1, <2>5, <2>6
<1>3. QED
  BY <1>1, <1>2

\* The policies of an issue type, in the caller's scope and out of it.
OfIssue(issue) == {i \in DOMAIN Policies : Policies[i].issue_type = issue}

InOwnScope(record, trusted_scope) ==
    /\ record.tenant_id = trusted_scope.tenant_id
    /\ record.property_id = trusted_scope.property_id

LEMMA FirstPolicy ==
    ASSUME NEW S \in SUBSET DOMAIN Policies, S # {}
    PROVE  (CHOOSE i \in S : \A j \in S : i <= j) \in S
<1>1. S \subseteq 1..4
  BY DEF Policies
<1>2. \E i \in S : \A j \in S : i <= j
  <2>1. CASE 1 \in S
    BY <1>1, <2>1
  <2>2. CASE 1 \notin S /\ 2 \in S
    BY <1>1, <2>2
  <2>3. CASE 1 \notin S /\ 2 \notin S /\ 3 \in S
    BY <1>1, <2>3
  <2>4. CASE S \subseteq {4}
    BY <2>4
  <2>5. QED
    BY <1>1, <2>1, <2>2, <2>3, <2>4
<1>3. QED
  BY <1>2

\* The policy of the caller's own property, or a refusal that says what there is.
LEMMA GetPolicyGives ==
    ASSUME NEW issue, NEW trusted_scope
    PROVE  LET result == GetPolicy(issue, trusted_scope)
           IN  \/ ~Scoped(trusted_scope) /\ result = Refused("missing_scope")
               \/ /\ Scoped(trusted_scope) /\ OfIssue(issue) = {}
                  /\ result = Refused("missing_policy")
               \/ \E i \in OfIssue(issue) :
                     /\ Scoped(trusted_scope) /\ InOwnScope(Policies[i], trusted_scope)
                     /\ result = Found(PolicyData(Policies[i]))
               \/ /\ Scoped(trusted_scope)
                  /\ \A j \in OfIssue(issue) : ~InOwnScope(Policies[j], trusted_scope)
                  /\ \E i \in OfIssue(issue) :
                        \/ /\ Policies[i].tenant_id # trusted_scope.tenant_id
                           /\ result = Refused("cross_tenant")
                        \/ /\ Policies[i].tenant_id = trusted_scope.tenant_id
                           /\ Policies[i].property_id # trusted_scope.property_id
                           /\ result = Refused("wrong_property")
<1> DEFINE own == InScopePolicies(issue, trusted_scope)
           foreign == OutOfScope(issue, trusted_scope)
           last == CHOOSE i \in own : \A j \in own : j <= i
           first == CHOOSE i \in foreign : \A j \in foreign : i <= j
<1>1. /\ own = {i \in OfIssue(issue) : InOwnScope(Policies[i], trusted_scope)}
      /\ foreign = {i \in OfIssue(issue) : ~InOwnScope(Policies[i], trusted_scope)}
  BY DEF InScopePolicies, OutOfScope, OfIssue, InOwnScope
<1>2. GetPolicy(issue, trusted_scope) =
         IF ~Scoped(trusted_scope) THEN Refused("missing_scope")
         ELSE IF own # {} THEN Found(PolicyData(Policies[last]))
         ELSE IF foreign # {} THEN Refused(ForeignToken(Policies[first], trusted_scope))
         ELSE Refused("missing_policy")
  BY Zenon DEF GetPolicy
<1>3. own # {} => last \in own
  <2> SUFFICES ASSUME own # {} PROVE last \in own
    OBVIOUS
  <2>1. PICK i \in own : TRUE
    OBVIOUS
  <2>2. \A j \in own : j = i
    BY <1>1, <2>1, CatalogKeys DEF OfIssue, InOwnScope
  <2>3. i <= i
    BY <1>1, <2>1 DEF OfIssue, Policies
  <2>4. QED
    BY <2>2, <2>3
<1>4. foreign # {} => first \in foreign
  <2>1. foreign \in SUBSET DOMAIN Policies
    BY DEF OutOfScope
  <2>2. QED
    BY <2>1, FirstPolicy
<1> HIDE DEF own, foreign, last, first
<1>5. CASE ~Scoped(trusted_scope)
  BY <1>2, <1>5
<1>6. CASE Scoped(trusted_scope) /\ own # {}
  BY <1>1, <1>2, <1>3, <1>6
<1>7. CASE Scoped(trusted_scope) /\ own = {} /\ foreign # {}
  <2>1. /\ first \in OfIssue(issue) /\ ~InOwnScope(Policies[first], trusted_scope)
        /\ GetPolicy(issue, trusted_scope) =
              Refused(ForeignToken(Policies[first], trusted_scope))
    BY <1>1, <1>2, <1>4, <1>7
  <2>2. ForeignToken(Policies[first], trusted_scope) =
           IF Policies[first].tenant_id # trusted_scope.tenant_id
           THEN "cross_tenant" ELSE "wrong_property"
    BY DEF ForeignToken
  <2>3. \A j \in OfIssue(issue) : ~InOwnScope(Policies[j], trusted_scope)
    BY <1>1, <1>7
  <2>4. CASE Policies[first].tenant_id # trusted_scope.tenant_id
    BY <1>7, <2>1, <2>2, <2>3, <2>4, Zenon
  <2>5. CASE /\ Policies[first].tenant_id = trusted_scope.tenant_id
             /\ Policies[first].property_id # trusted_scope.property_id
    BY <1>7, <2>1, <2>2, <2>3, <2>5, Zenon
  <2>6. QED
    BY <2>1, <2>4, <2>5 DEF InOwnScope
<1>8. CASE Scoped(trusted_scope) /\ own = {} /\ foreign = {}
  BY <1>1, <1>2, <1>8
<1>9. QED
  BY <1>5, <1>6, <1>7, <1>8

-----------------------------------------------------------------------------
(* The tools, and the verifier after them.                                 *)

\* No payload of another tenant or property leaves a store.
LEMMA ExecuteKeepsScope ==
    ASSUME NEW tool, NEW arguments, NEW trusted_scope,
           Execute(tool, arguments, trusted_scope).data.tenant_id # None
    PROVE  LET data == Execute(tool, arguments, trusted_scope).data
           IN  /\ data.tenant_id = trusted_scope.tenant_id
               /\ data.property_id = trusted_scope.property_id
<1> DEFINE result == Execute(tool, arguments, trusted_scope)
<1>1. \A code : result # Refused(code)
  BY RefusedFields
<1>2. CASE tool = WorkOrderTool
  <2> DEFINE id == WorkOrderRequest(arguments)
  <2>1. result = GetWorkOrder(id, trusted_scope)
    BY <1>1, <1>2 DEF Execute
  <2>2. PICK i \in ById(id) :
           /\ WorkOrders[i].tenant_id = trusted_scope.tenant_id
           /\ WorkOrders[i].property_id = trusted_scope.property_id
           /\ result = Found(WorkOrderData(WorkOrders[i]))
    <3> HIDE DEF result, id
    <3>1. QED
      BY <1>1, <2>1, GetWorkOrderGives
  <2> HIDE DEF result
  <2>3. result.data = WorkOrderData(WorkOrders[i])
    BY <2>2, FoundFields
  <2>4. /\ result.data.tenant_id = trusted_scope.tenant_id
        /\ result.data.property_id = trusted_scope.property_id
    BY <2>2, <2>3, WorkOrderDataFields
  <2>5. QED
    BY <2>4 DEF result
<1>3. CASE tool # WorkOrderTool
  <2> DEFINE issue == PolicyRequest(arguments)
  <2>1. result = GetPolicy(issue, trusted_scope)
    BY <1>1, <1>3 DEF Execute
  <2>2. PICK i \in OfIssue(issue) :
           /\ InOwnScope(Policies[i], trusted_scope)
           /\ result = Found(PolicyData(Policies[i]))
    <3> HIDE DEF result, issue
    <3>1. QED
      BY <1>1, <2>1, GetPolicyGives
  <2> HIDE DEF result
  <2>3. result.data = PolicyData(Policies[i])
    BY <2>2, FoundFields
  <2>4. /\ result.data.tenant_id = trusted_scope.tenant_id
        /\ result.data.property_id = trusted_scope.property_id
    BY <2>2, <2>3, PolicyDataFields DEF InOwnScope
  <2>5. QED
    BY <2>4 DEF result
<1>4. QED
  BY <1>2, <1>3

\* The gate lets a looked-up work order pass exactly when it is the caller's own.
LEMMA WorkOrderEntitled ==
    ASSUME NEW asked \in Arguments, NEW trusted_scope
    PROVE  Verify(Execute(WorkOrderTool, asked, trusted_scope), asked, WorkOrderTool,
                  trusted_scope)
           <=> \E i \in DOMAIN WorkOrders :
                  /\ WorkOrders[i].work_order_id = asked.work_order_id
                  /\ InOwnScope(WorkOrders[i], trusted_scope)
<1> DEFINE id == asked.work_order_id
           result == Execute(WorkOrderTool, asked, trusted_scope)
           passes == Verify(result, asked, WorkOrderTool, trusted_scope)
<1>1. passes <=> /\ result.success
                 /\ ParsesAsWorkOrder(result.data)
                 /\ WorkOrderIsValidFor(result.data, id, trusted_scope)
  BY DEF Verify, WorkOrderRequest, WorkOrderTool, PolicyTool
<1>2. result = IF id = None THEN Refused("missing_work_order_id")
               ELSE GetWorkOrder(id, trusted_scope)
  BY DEF Execute, WorkOrderRequest
<1>3. ASSUME passes
      PROVE  \E i \in DOMAIN WorkOrders : /\ WorkOrders[i].work_order_id = id
                                          /\ InOwnScope(WorkOrders[i], trusted_scope)
  <2>1. \A code : result # Refused(code)
    BY <1>1, <1>3, RefusedFields
  <2> HIDE DEF result, passes, id
  <2>2. result = GetWorkOrder(id, trusted_scope)
    BY <1>2, <2>1
  <2>3. PICK i \in ById(id) :
           /\ WorkOrders[i].tenant_id = trusted_scope.tenant_id
           /\ WorkOrders[i].property_id = trusted_scope.property_id
    BY <2>1, <2>2, GetWorkOrderGives
  <2>4. QED
    BY <2>3 DEF ById, InOwnScope
<1>4. ASSUME NEW i \in DOMAIN WorkOrders, WorkOrders[i].work_order_id = id,
             InOwnScope(WorkOrders[i], trusted_scope)
      PROVE  passes
  <2>1. id # None /\ Scoped(trusted_scope)
    BY <1>4, CatalogTypes DEF InOwnScope, Scoped
  <2>2. i \in ById(id) /\ \A j \in ById(id) : j = i
    BY <1>4, CatalogKeys DEF ById
  <2>3. result = GetWorkOrder(id, trusted_scope)
    BY <1>2, <2>1
  <2> HIDE DEF result, id
  <2>4. result = Found(WorkOrderData(WorkOrders[i]))
    BY <1>4, <2>1, <2>2, <2>3, GetWorkOrderGives DEF InOwnScope
  <2>5. result.success /\ result.data = WorkOrderData(WorkOrders[i])
    BY <2>4, FoundFields
  <2>6. /\ result.data.work_order_id = id
        /\ result.data.tenant_id = trusted_scope.tenant_id
        /\ result.data.property_id = trusted_scope.property_id
        /\ result.data.status = AllowedStatus
        /\ result.data.issue_type = WorkOrders[i].issue_type
        /\ result.data.details = "present"
    BY <1>4, <2>5, WorkOrderDataFields, CatalogTypes DEF InOwnScope
  <2>7. ParsesAsWorkOrder(result.data)
    BY <2>1, <2>6, CatalogTypes DEF ParsesAsWorkOrder, WorkOrderKeys, Scoped
  <2>8. WorkOrderIsValidFor(result.data, id, trusted_scope)
    BY <2>1, <2>6 DEF WorkOrderIsValidFor, InScope, Scoped
  <2>9. QED
    BY <1>1, <2>5, <2>7, <2>8
<1>5. QED
  BY <1>3, <1>4

\* The gate lets a looked-up policy pass exactly when it is the caller's own and in
\* force at the store's clock.
LEMMA PolicyEntitled ==
    ASSUME NEW asked \in Arguments, NEW trusted_scope
    PROVE  Verify(Execute(PolicyTool, asked, trusted_scope), asked, PolicyTool,
                  trusted_scope)
           <=> \E i \in DOMAIN Policies :
                  /\ asked.issue_type # None
                  /\ Policies[i].issue_type = LowerCase[asked.issue_type]
                  /\ InOwnScope(Policies[i], trusted_scope)
                  /\ Policies[i].effective_at <= FrozenNow
                  /\ FrozenNow < Policies[i].expires_at
<1> DEFINE issue == PolicyRequest(asked)
           result == Execute(PolicyTool, asked, trusted_scope)
           passes == Verify(result, asked, PolicyTool, trusted_scope)
<1>1. passes <=> /\ result.success
                 /\ ParsesAsPolicy(result.data)
                 /\ PolicyIsValidFor(result.data, issue, trusted_scope)
  BY DEF Verify, WorkOrderTool, PolicyTool
<1>2. result = IF issue = None THEN Refused("missing_issue_type")
               ELSE GetPolicy(issue, trusted_scope)
  BY DEF Execute, WorkOrderTool, PolicyTool
<1>3. None \notin AllowedIssueTypes
  BY GateAssumption
<1>4. ASSUME passes
      PROVE  \E i \in DOMAIN Policies :
                /\ asked.issue_type # None
                /\ Policies[i].issue_type = LowerCase[asked.issue_type]
                /\ InOwnScope(Policies[i], trusted_scope)
                /\ Policies[i].effective_at <= FrozenNow
                /\ FrozenNow < Policies[i].expires_at
  <2>1. \A code : result # Refused(code)
    BY <1>1, <1>4, RefusedFields
  <2>2. asked.issue_type # None /\ issue = LowerCase[asked.issue_type]
    <3>1. issue # None
      BY <1>2, <2>1
    <3>2. QED
      BY <3>1 DEF PolicyRequest
  <2>3. InForce(result.data)
    BY <1>1, <1>4 DEF PolicyIsValidFor
  <2> HIDE DEF result, passes, issue
  <2>4. result = GetPolicy(issue, trusted_scope)
    BY <1>2, <2>1
  <2>5. PICK i \in OfIssue(issue) : /\ InOwnScope(Policies[i], trusted_scope)
                                    /\ result = Found(PolicyData(Policies[i]))
    BY <2>1, <2>4, GetPolicyGives
  <2>6. result.data = PolicyData(Policies[i])
    BY <2>5, FoundFields
  <2>7. /\ result.data.effective_at = Policies[i].effective_at
        /\ result.data.expires_at = Policies[i].expires_at
        /\ result.data.as_of = FrozenNow
    BY <2>6, PolicyDataFields
  <2>8. QED
    BY <2>2, <2>3, <2>5, <2>7 DEF OfIssue, InForce
<1>5. ASSUME NEW i \in DOMAIN Policies, asked.issue_type # None,
             Policies[i].issue_type = LowerCase[asked.issue_type],
             InOwnScope(Policies[i], trusted_scope),
             Policies[i].effective_at <= FrozenNow,
             FrozenNow < Policies[i].expires_at
      PROVE  passes
  <2>1. issue = Policies[i].issue_type /\ issue # None /\ Scoped(trusted_scope)
    BY <1>3, <1>5, CatalogTypes DEF PolicyRequest, InOwnScope, Scoped
  <2>2. result = GetPolicy(issue, trusted_scope)
    BY <1>2, <2>1
  <2> HIDE DEF result, issue
  <2>3. /\ i \in OfIssue(issue)
        /\ \A j \in OfIssue(issue) : InOwnScope(Policies[j], trusted_scope) => j = i
    BY <1>5, <2>1, CatalogKeys DEF OfIssue, InOwnScope
  <2>4. result = Found(PolicyData(Policies[i]))
    BY <1>5, <2>1, <2>2, <2>3, GetPolicyGives
  <2>5. result.success /\ result.data = PolicyData(Policies[i])
    BY <2>4, FoundFields
  <2>6. /\ result.data.tenant_id = trusted_scope.tenant_id
        /\ result.data.property_id = trusted_scope.property_id
        /\ result.data.issue_type = issue
        /\ result.data.terms = AllowedTerms /\ result.data.details = "present"
        /\ result.data.effective_at = Policies[i].effective_at
        /\ result.data.expires_at = Policies[i].expires_at
        /\ result.data.as_of = FrozenNow
    BY <1>5, <2>1, <2>5, PolicyDataFields DEF InOwnScope
  <2>7. ParsesAsPolicy(result.data)
    BY <2>1, <2>6, CatalogTypes DEF ParsesAsPolicy, PolicyKeys, Scoped
  <2>8. PolicyIsValidFor(result.data, issue, trusted_scope)
    BY <1>5, <2>1, <2>6 DEF PolicyIsValidFor, InScope, InForce, Scoped
  <2>9. QED
    BY <1>1, <2>5, <2>7, <2>8 DEF result, issue
<1>6. QED
  BY <1>4, <1>5

-----------------------------------------------------------------------------
(* A run with the catalog.  What the loop does with a result is known from *)
(* AgentRunProofs; this invariant adds which result it is.                 *)

\* The result at hand is what the stores say to this request of this caller.
ResultIsLookedUp ==
    agent.attempts > 0 =>
        agent.tool_result =
            Execute(agent.decision.tool_name, agent.decision.arguments, scope)

\* A run that used a tool ends as the verifier judged the result.
EndIsAsJudged ==
    /\ node = "recovery_node" => ~LastResultIsVerified
    /\ (/\ node \in {"end", "returned"} /\ pending_error = None
        /\ agent.decision.action = "use_tool") =>
          /\ agent.attempts > 0
          /\ agent.status = "completed" <=> LastResultIsVerified

CatalogAccounted ==
    /\ scope \in Scopes
    /\ node = "tool_node" \/ agent.attempts > 0 => agent.decision \in Decisions
    /\ ResultIsLookedUp
    /\ EndIsAsJudged
    /\ ForeignDataStaysInStore

\* Every step is one of these.
LEMMA CatalogStepKinds ==
    ASSUME [CatalogNext]_vars
    PROVE  \/ Start
           \/ \E decision \in Decisions : RouteTo(decision)
           \/ \E class \in ModelFailures, decision \in OrNone(RejectedDecisions) :
                 RouteFails(class, decision)
           \/ CallTool \/ CatalogReturns
           \/ VerifyResult \/ Recover
           \/ ModelAnswers \/ \E class \in ModelFailures : ModelFails(class)
           \/ AnswerFromTool
           \/ QuietStep
BY DEF CatalogNext, Finished, QuietStep

\* The shipped tools are two of the arbitrary ones.
LEMMA CatalogReturnsResult ==
    ASSUME AttemptsAccounted, CatalogAccounted, CatalogReturns
    PROVE  \E result \in Results :
              /\ result = Execute(agent.decision.tool_name, agent.decision.arguments, scope)
              /\ ToolReturns(result)
<1>1. /\ agent.decision \in Decisions /\ agent.decision.action = "use_tool"
      /\ scope \in Scopes
  BY DEF AttemptsAccounted, CatalogAccounted, CatalogReturns
<1>2. Execute(agent.decision.tool_name, agent.decision.arguments, scope) \in Results
  BY <1>1, CatalogAssumption
<1>3. QED
  BY <1>2 DEF CatalogReturns, ToolReturns

\* So the invariants of AgentRun need no second proof.
LEMMA CatalogStepIsRunStep ==
    AttemptsAccounted /\ CatalogAccounted /\ [CatalogNext]_vars => [Next]_vars
<1> SUFFICES ASSUME AttemptsAccounted, CatalogAccounted, [CatalogNext]_vars
             PROVE  [Next]_vars
  OBVIOUS
<1>1. CASE CatalogReturns
  BY <1>1, CatalogReturnsResult DEF Next
<1>2. CASE ~CatalogReturns
  BY <1>2 DEF CatalogNext, Next
<1>3. QED
  BY <1>1, <1>2

\* What the invariant says of an observation carries over to one more.
LEMMA OneMoreObservation ==
    ASSUME TypeOK, ForeignDataStaysInStore, NEW observation \in Observation,
           agent'.observations = Append(agent.observations, observation),
           scope' = scope,
           observation.data.tenant_id # None =>
               /\ observation.data.tenant_id = scope.tenant_id
               /\ observation.data.property_id = scope.property_id
    PROVE  ForeignDataStaysInStore'
<1>1. agent.observations \in Seq(Observation) /\ Len(agent.observations) \in Nat
  BY StateTypes
<1>2. /\ DOMAIN agent'.observations = 1..(Len(agent.observations) + 1)
      /\ agent'.observations[Len(agent.observations) + 1] = observation
      /\ \A i \in 1..Len(agent.observations) :
            i \in DOMAIN agent.observations
            /\ agent'.observations[i] = agent.observations[i]
  BY <1>1
<1>3. ASSUME NEW i \in 1..(Len(agent.observations) + 1)
      PROVE  i = Len(agent.observations) + 1 \/ i \in 1..Len(agent.observations)
  BY <1>1, <1>3
<1>4. QED
  BY <1>2, <1>3 DEF ForeignDataStaysInStore

LEMMA NextCatalog ==
    TypeOK /\ RunInvariant /\ Accounts /\ CatalogAccounted /\ [CatalogNext]_vars
        => CatalogAccounted'
<1> SUFFICES ASSUME TypeOK, RunInvariant, AttemptsAccounted, EvidenceAccounted,
                    CleanAccounted, CatalogAccounted, [CatalogNext]_vars
             PROVE  CatalogAccounted'
  BY DEF Accounts
<1> USE DEF CatalogAccounted, ResultIsLookedUp, EndIsAsJudged
<1>0. agent.attempts \in Nat
  BY StateTypes
<1>1. CASE Start
  <2>1. /\ node' = "route_node" /\ UNCHANGED <<agent.decision, agent.tool_result,
                                    agent.attempts, agent.observations, scope>>
    BY <1>1, StartFields
  <2>2. QED
    BY <2>1 DEF ForeignDataStaysInStore
<1>2. ASSUME NEW decision \in Decisions, RouteTo(decision)
      PROVE  CatalogAccounted'
  <2>1. /\ node = "route_node" /\ agent'.decision = decision
        /\ node' = AfterRoute(agent', pending_error)
        /\ UNCHANGED <<agent.status, agent.attempts, agent.observations, scope>>
        /\ pending_error = None /\ agent.status = "running" /\ agent.attempts = 0
    BY <1>2, RouteToFields DEF AttemptsAccounted, RunUnderWay, Nodes
  <2>2. node' \in {"answer_node", "tool_node"}
    BY <2>1 DEF AfterRoute
  <2>3. QED
    BY <2>1, <2>2 DEF ForeignDataStaysInStore
<1>3. ASSUME NEW class \in ModelFailures, NEW decision \in OrNone(RejectedDecisions),
             RouteFails(class, decision)
      PROVE  CatalogAccounted'
  <2>1. /\ node = "route_node" /\ node' = "end" /\ pending_error' # None
        /\ UNCHANGED <<agent.attempts, agent.observations, scope>>
        /\ agent.attempts = 0
    BY <1>3, RouteFailsFields DEF AttemptsAccounted
  <2>2. QED
    BY <2>1 DEF ForeignDataStaysInStore
<1>4. CASE CallTool
  <2>1. /\ node = "tool_node" /\ node' = "tool_node"
        /\ UNCHANGED <<agent.decision, agent.tool_result, agent.attempts,
                       agent.observations, scope>>
    BY <1>4, CallToolFields
  <2>2. QED
    BY <2>1 DEF ForeignDataStaysInStore
<1>5. CASE CatalogReturns
  <2> DEFINE result == Execute(agent.decision.tool_name, agent.decision.arguments, scope)
             observation == [tool_name |-> agent.decision.tool_name,
                             success |-> result.success, data |-> result.data]
  <2>1. /\ node = "tool_node" /\ deadline = "open" /\ AttemptEnds(result, None)
        /\ result \in ToolResult /\ None \in OrNone(ToolFailures)
    BY <1>5, CatalogReturnsResult, RunAssumption DEF CatalogReturns, OrNone
  <2>2. agent.decision.tool_name \in Tools /\ agent.status = "running"
    BY <2>1 DEF RunInvariant, AttemptsAccounted, Nodes
  <2>3. result.data.tenant_id # None => /\ result.data.tenant_id = scope.tenant_id
                                        /\ result.data.property_id = scope.property_id
    BY ExecuteKeepsScope
  <2> HIDE DEF result
  <2>4. /\ node' = "verify_node" /\ agent'.tool_result = result
        /\ agent'.observations = Append(agent.observations, observation)
        /\ UNCHANGED <<agent.decision, scope>>
    BY <2>1, <2>2, AttemptFields
  <2>5. observation \in Observation /\ observation.data = result.data
    BY <2>1, <2>2 DEF Observation, ToolResult
  <2> HIDE DEF observation
  <2>6. ForeignDataStaysInStore'
    BY <2>3, <2>4, <2>5, OneMoreObservation
  <2>7. agent'.tool_result =
           Execute(agent'.decision.tool_name, agent'.decision.arguments, scope')
    BY <2>4 DEF result
  <2>8. QED
    BY <2>1, <2>4, <2>6, <2>7
<1>6. CASE VerifyResult
  <2>1. /\ node = "verify_node"
        /\ node' = IF Verdict THEN "answer_node" ELSE "recovery_node"
        /\ UNCHANGED <<agent.decision, agent.tool_result, agent.attempts,
                       agent.observations, scope>>
    BY <1>6, VerifyFields
  <2>2. LastResultIsVerified' <=> Verdict
    BY <2>1 DEF LastResultIsVerified, Verdict
  <2>3. QED
    BY <2>1, <2>2 DEF ForeignDataStaysInStore
<1>7. CASE Recover
  <2>1. /\ node = "recovery_node" /\ node' \in {"tool_node", "end"}
        /\ node' = "end" => agent'.status = "needs_human_review"
        /\ UNCHANGED <<agent.decision, agent.tool_result, agent.attempts,
                       agent.observations, scope>>
    BY <1>7, RecoverFields
  <2>2. ~LastResultIsVerified' /\ agent.attempts > 0
    BY <2>1 DEF LastResultIsVerified, AttemptsAccounted
  <2>3. QED
    BY <2>1, <2>2 DEF ForeignDataStaysInStore
<1>8. CASE ModelAnswers
  <2>1. /\ node' = "end" /\ agent.decision.action = "direct"
        /\ UNCHANGED <<agent.decision, agent.tool_result, agent.attempts,
                       agent.observations, scope>>
    BY <1>8, ModelAnswersFields
  <2>2. QED
    BY <2>1 DEF ForeignDataStaysInStore
<1>9. ASSUME NEW class \in ModelFailures, ModelFails(class)
      PROVE  CatalogAccounted'
  <2>1. /\ node' = "end" /\ pending_error' # None
        /\ UNCHANGED <<agent.decision, agent.tool_result, agent.attempts,
                       agent.observations, scope>>
    BY <1>9, ModelFailsFields
  <2>2. QED
    BY <2>1 DEF ForeignDataStaysInStore
<1>10. CASE AnswerFromTool
  <2>1. /\ node = "answer_node" /\ node' = "end" /\ agent.decision.action = "use_tool"
        /\ UNCHANGED <<agent.status, agent.decision, agent.tool_result, agent.attempts,
                       agent.observations, scope>>
    BY <1>10, AnswerFromToolFields
  <2>2. LastResultIsVerified' /\ agent.attempts > 0 /\ agent.status = "completed"
    BY <2>1 DEF RunInvariant, LastResultIsVerified, AttemptsAccounted
  <2>3. QED
    BY <2>1, <2>2 DEF ForeignDataStaysInStore
<1>11. CASE QuietStep
  <2>1. /\ UNCHANGED <<agent, scope>>
        /\ node' \in {"tool_node", "recovery_node", "end"} => node' = node
        /\ node' = "returned" => node \in {"end", "returned"}
        /\ node' \in {"end", "returned"} => pending_error' = pending_error
    BY <1>11, QuietStepFields
       DEF QuietStep, DeadlinePasses, CallModel, ModelCrashes, Return, Raise, Cancel, vars
  <2>2. LastResultIsVerified' <=> LastResultIsVerified
    BY <2>1 DEF LastResultIsVerified
  <2>3. QED
    BY <2>1, <2>2 DEF ForeignDataStaysInStore
<1>12. QED
  BY <1>1, <1>2, <1>3, <1>4, <1>5, <1>6, <1>7, <1>8, <1>9, <1>10, <1>11, CatalogStepKinds

LEMMA InitCatalog == Init => CatalogAccounted
BY DEF Init, FreshState, CatalogAccounted, ResultIsLookedUp, EndIsAsJudged,
       ForeignDataStaysInStore

LEMMA CatalogHolds ==
    CatalogSpec => [](TypeOK /\ RunInvariant /\ Accounts /\ CatalogAccounted)
<1> DEFINE Inv == TypeOK /\ RunInvariant /\ Accounts /\ CatalogAccounted
<1>1. Init => Inv
  BY InitTypeOK, InitRunInvariant, InitAccounted, InitCatalog DEF Accounts
<1>2. Inv /\ [CatalogNext]_vars => Inv'
  <2>1. Inv /\ [CatalogNext]_vars => [Next]_vars
    BY CatalogStepIsRunStep DEF Accounts
  <2>2. QED
    BY <2>1, NextTypeOK, NextRunInvariant, NextAccounts, NextCatalog
<1>3. QED
  BY <1>1, <1>2, PTL DEF CatalogSpec

-----------------------------------------------------------------------------
(* Theorems.                                                               *)

\* No observation of any attempt holds another tenant's or property's payload, so the
\* verifier never has to stop one (store.py:57-68, 121-134).
THEOREM ForeignDataStays == CatalogSpec => []ForeignDataStaysInStore
<1>1. CatalogAccounted => ForeignDataStaysInStore
  BY DEF CatalogAccounted
<1>2. QED
  BY <1>1, CatalogHolds, PTL

LEMMA FinishedToolRun ==
    ASSUME TypeOK, RunInvariant, Accounts, CatalogAccounted, UsedTool
    PROVE  /\ agent.decision.arguments \in Arguments
           /\ agent.decision.tool_name \in {WorkOrderTool, PolicyTool}
           /\ agent.tool_result =
                 Execute(agent.decision.tool_name, agent.decision.arguments, scope)
           /\ agent.status = "completed" <=> LastResultIsVerified
<1>1. node = "returned" /\ pending_error = None /\ agent.decision.action = "use_tool"
  BY DEF UsedTool, Accounts, EvidenceAccounted
<1>2. agent.attempts > 0 /\ (agent.status = "completed" <=> LastResultIsVerified)
  BY <1>1 DEF CatalogAccounted, EndIsAsJudged
<1>3. agent.decision.tool_name \in {WorkOrderTool, PolicyTool}
  BY <1>2, RunAssumption DEF Accounts, AttemptsAccounted
<1>4. agent.decision \in AgentDecision
  BY <1>2, RunAssumption DEF CatalogAccounted
<1>5. QED
  BY <1>2, <1>3, <1>4 DEF CatalogAccounted, ResultIsLookedUp, AgentDecision

\* A caller who used a tool gets an answer exactly when the catalog holds the record
\* asked for, of the caller's own tenant and property, and a policy in force: nobody is
\* refused what is theirs, whatever the spelling of the issue type, and nobody gets what
\* is not (store.py:42-119, verification.py:19-36, recovery.py:14-19).
THEOREM AnsweredWhenEntitled == CatalogSpec => []AnsweredExactlyWhenEntitled
<1>1. TypeOK /\ RunInvariant /\ Accounts /\ CatalogAccounted => AnsweredExactlyWhenEntitled
  <2> SUFFICES ASSUME TypeOK, RunInvariant, Accounts, CatalogAccounted, UsedTool
               PROVE  LastResultIsVerified <=> Answerable
    BY FinishedToolRun DEF AnsweredExactlyWhenEntitled
  <2> DEFINE asked == agent.decision.arguments
  <2>1. /\ asked \in Arguments /\ agent.decision.tool_name \in {WorkOrderTool, PolicyTool}
        /\ agent.tool_result = Execute(agent.decision.tool_name, asked, scope)
    BY FinishedToolRun
  <2>2. CASE agent.decision.tool_name = WorkOrderTool
    <3>1. LastResultIsVerified <=>
             Verify(Execute(WorkOrderTool, asked, scope), asked, WorkOrderTool, scope)
      BY <2>1, <2>2 DEF LastResultIsVerified
    <3>2. Answerable <=> \E i \in DOMAIN WorkOrders :
                            /\ WorkOrders[i].work_order_id = asked.work_order_id
                            /\ InOwnScope(WorkOrders[i], scope)
      BY <2>2 DEF Answerable, InOwnScope
    <3> HIDE DEF asked
    <3>3. QED
      BY <2>1, <3>1, <3>2, WorkOrderEntitled
  <2>3. CASE agent.decision.tool_name = PolicyTool
    <3>1. LastResultIsVerified <=>
             Verify(Execute(PolicyTool, asked, scope), asked, PolicyTool, scope)
      BY <2>1, <2>3 DEF LastResultIsVerified
    <3>2. Answerable <=> \E i \in DOMAIN Policies :
                            /\ asked.issue_type # None
                            /\ Policies[i].issue_type = LowerCase[asked.issue_type]
                            /\ InOwnScope(Policies[i], scope)
                            /\ Policies[i].effective_at <= FrozenNow
                            /\ FrozenNow < Policies[i].expires_at
      BY <2>3 DEF Answerable, InOwnScope, WorkOrderTool, PolicyTool
    <3> HIDE DEF asked
    <3>3. QED
      BY <2>1, <3>1, <3>2, PolicyEntitled
  <2>4. QED
    BY <2>1, <2>2, <2>3
<1>2. QED
  BY <1>1, CatalogHolds, PTL

\* What a refusal's token is worth, given the records that answer to the request.
TokenIsTrue(token, records) ==
    \/ token \in {"missing_work_order_id", "missing_issue_type"}
    \/ token = "missing_scope" /\ ~Scoped(scope)
    \/ token \in {"not_found", "missing_policy"} /\ Scoped(scope) /\ records = {}
    \/ /\ token = "cross_tenant" /\ Scoped(scope)
       /\ \E record \in records : record.tenant_id # scope.tenant_id
    \/ /\ token = "wrong_property" /\ Scoped(scope)
       /\ \E record \in records : /\ record.tenant_id = scope.tenant_id
                                  /\ record.property_id # scope.property_id

LEMMA WorkOrderTokens ==
    ASSUME NEW asked, ~Execute(WorkOrderTool, asked, scope).success
    PROVE  TokenIsTrue(Execute(WorkOrderTool, asked, scope).data.error,
                       {WorkOrders[i] : i \in ById(asked.work_order_id)})
<1> DEFINE id == asked.work_order_id
           records == {WorkOrders[i] : i \in ById(id)}
           result == GetWorkOrder(id, scope)
<1>1. CASE id = None
  <2>1. Execute(WorkOrderTool, asked, scope) = Refused("missing_work_order_id")
    BY <1>1 DEF Execute, WorkOrderRequest
  <2>2. QED
    BY <2>1, RefusedFields DEF TokenIsTrue
<1>2. CASE id # None
  <2>1. Execute(WorkOrderTool, asked, scope) = result /\ ~result.success
    BY <1>2 DEF Execute, WorkOrderRequest
  <2> HIDE DEF result, id
  <2>2. ASSUME NEW i \in ById(id), Scoped(scope),
               WorkOrders[i].tenant_id # scope.tenant_id, result = Refused("cross_tenant")
        PROVE  TokenIsTrue(result.data.error, records)
    BY <2>2, RefusedFields DEF TokenIsTrue
  <2>3. ASSUME NEW i \in ById(id), Scoped(scope),
               WorkOrders[i].tenant_id = scope.tenant_id,
               WorkOrders[i].property_id # scope.property_id,
               result = Refused("wrong_property")
        PROVE  TokenIsTrue(result.data.error, records)
    BY <2>3, RefusedFields DEF TokenIsTrue
  <2>4. \A data : result # Found(data)
    BY <2>1, FoundFields
  <2>5. TokenIsTrue(result.data.error, records)
    <3>1. CASE ~Scoped(scope) /\ result = Refused("missing_scope")
      BY <3>1, RefusedFields DEF TokenIsTrue
    <3>2. CASE Scoped(scope) /\ ById(id) = {} /\ result = Refused("not_found")
      BY <3>2, RefusedFields DEF TokenIsTrue
    <3>3. QED
      BY <2>2, <2>3, <2>4, <3>1, <3>2, GetWorkOrderGives DEF result
  <2>6. QED
    BY <2>1, <2>5 DEF id
<1>3. QED
  BY <1>1, <1>2

LEMMA PolicyTokens ==
    ASSUME NEW asked, ~Execute(PolicyTool, asked, scope).success
    PROVE  TokenIsTrue(Execute(PolicyTool, asked, scope).data.error,
                       {Policies[i] : i \in {j \in DOMAIN Policies :
                            /\ asked.issue_type # None
                            /\ Policies[j].issue_type = LowerCase[asked.issue_type]}})
<1> DEFINE issue == PolicyRequest(asked)
           records == {Policies[i] : i \in {j \in DOMAIN Policies :
                            /\ asked.issue_type # None
                            /\ Policies[j].issue_type = LowerCase[asked.issue_type]}}
           result == GetPolicy(issue, scope)
<1>1. CASE issue = None
  <2>1. Execute(PolicyTool, asked, scope) = Refused("missing_issue_type")
    BY <1>1 DEF Execute, WorkOrderTool, PolicyTool
  <2>2. QED
    BY <2>1, RefusedFields DEF TokenIsTrue
<1>2. CASE issue # None
  <2>1. Execute(PolicyTool, asked, scope) = result /\ ~result.success
    BY <1>2 DEF Execute, WorkOrderTool, PolicyTool
  <2>2. records = {Policies[i] : i \in OfIssue(issue)}
    BY <1>2 DEF PolicyRequest, OfIssue
  <2> HIDE DEF result, issue, records
  <2>3. ASSUME NEW i \in OfIssue(issue), Scoped(scope),
               Policies[i].tenant_id # scope.tenant_id, result = Refused("cross_tenant")
        PROVE  TokenIsTrue(result.data.error, records)
    BY <2>2, <2>3, RefusedFields DEF TokenIsTrue
  <2>4. ASSUME NEW i \in OfIssue(issue), Scoped(scope),
               Policies[i].tenant_id = scope.tenant_id,
               Policies[i].property_id # scope.property_id,
               result = Refused("wrong_property")
        PROVE  TokenIsTrue(result.data.error, records)
    BY <2>2, <2>4, RefusedFields DEF TokenIsTrue
  <2>5. \A data : result # Found(data)
    BY <2>1, FoundFields
  <2>6. TokenIsTrue(result.data.error, records)
    <3>1. CASE ~Scoped(scope) /\ result = Refused("missing_scope")
      BY <3>1, RefusedFields DEF TokenIsTrue
    <3>2. CASE Scoped(scope) /\ OfIssue(issue) = {} /\ result = Refused("missing_policy")
      BY <2>2, <3>2, RefusedFields DEF TokenIsTrue
    <3>3. QED
      BY <2>3, <2>4, <2>5, <3>1, <3>2, GetPolicyGives DEF result
  <2>7. QED
    BY <2>1, <2>6 DEF records
<1>3. QED
  BY <1>1, <1>2

\* The token of a refusal says no more and no less than the truth: a caller without a
\* scope is told so, a record said to be another tenant's or another property's exists
\* and is, and one said to be missing is in no store (store.py:50-68, 87-119).
THEOREM TokensTellTruth == CatalogSpec => []TokenTellsTruth
<1>1. TypeOK /\ RunInvariant /\ Accounts /\ CatalogAccounted => TokenTellsTruth
  <2> SUFFICES ASSUME TypeOK, RunInvariant, Accounts, CatalogAccounted, UsedTool,
                      ~agent.tool_result.success
               PROVE  TokenTellsTruth
    BY DEF TokenTellsTruth
  <2> DEFINE asked == agent.decision.arguments
             records == IF agent.decision.tool_name = WorkOrderTool
                        THEN {WorkOrders[i] : i \in ById(asked.work_order_id)}
                        ELSE {Policies[i] : i \in {j \in DOMAIN Policies :
                                 /\ asked.issue_type # None
                                 /\ Policies[j].issue_type = LowerCase[asked.issue_type]}}
  <2>1. /\ agent.decision.tool_name \in {WorkOrderTool, PolicyTool}
        /\ agent.tool_result = Execute(agent.decision.tool_name, asked, scope)
    BY FinishedToolRun
  <2>2. TokenIsTrue(agent.tool_result.data.error, records)
    <3>1. CASE agent.decision.tool_name = WorkOrderTool
      BY <2>1, <3>1, WorkOrderTokens
    <3>2. CASE agent.decision.tool_name = PolicyTool
      BY <2>1, <3>2, PolicyTokens DEF WorkOrderTool, PolicyTool
    <3>3. QED
      BY <2>1, <3>1, <3>2
  <2> HIDE DEF records
  <2>3. LET token == agent.tool_result.data.error
        IN  /\ token = "missing_scope" <=>
                  /\ ~Scoped(scope)
                  /\ token \notin {"missing_work_order_id", "missing_issue_type"}
            /\ token = "cross_tenant" =>
                  \E record \in records : record.tenant_id # scope.tenant_id
            /\ token = "wrong_property" =>
                  \E record \in records : /\ record.tenant_id = scope.tenant_id
                                          /\ record.property_id # scope.property_id
            /\ token \in {"not_found", "missing_policy"} => records = {}
    BY <2>2 DEF TokenIsTrue
  <2>4. QED
    BY <2>3 DEF TokenTellsTruth, records
<1>2. QED
  BY <1>1, CatalogHolds, PTL

-----------------------------------------------------------------------------
(* The evaluation, for any suites of cases.  Its fakes need not return what a*)
(* tool of the catalog does, so nothing is assumed of the types of a run:    *)
(* only that the agent state has its fields.                                 *)

AgentFields == DOMAIN FreshState("llm")

LEMMA FieldsOfFresh ==
    ASSUME NEW router_type
    PROVE  /\ DOMAIN FreshState(router_type) = AgentFields
           /\ FreshState(router_type).observations = <<>>
BY DEF FreshState, AgentFields

LEMMA NamesOfFields ==
    {"status", "decision", "tool_result", "verification_result", "attempts", "observations",
     "recovery_decision", "failure_class", "events", "evidence"} \subseteq AgentFields
BY DEF AgentFields, FreshState

LEMMA RecordKeepsFields ==
    ASSUME NEW a, NEW event, DOMAIN a = AgentFields
    PROVE  /\ DOMAIN Record(a, event) = AgentFields
           /\ Record(a, event).observations = a.observations
           /\ Record(a, event).status = a.status
<1> DEFINE new == [event EXCEPT !.order = Len(a.events)]
           events == Append(a.events, new)
<1>1. Record(a, event) = [a EXCEPT !.events = events]
  BY DEF Record
<1> HIDE DEF new, events
<1>2. QED
  BY <1>1, NamesOfFields

\* How far the script of the running case has been played: by one result for each
\* attempt, or not at all when every call is late.
ScriptAccounted ==
    /\ DOMAIN agent = AgentFields
    /\ node \in {"verify_node", "recovery_node"} => deadline = "none"
    /\ running # None /\ IsScripted =>
          /\ agent.observations \in Seq({agent.observations[n] : n \in DOMAIN agent.observations})
          /\ \/ Late(case.tool_delay, case.tool_timeout)
             \/ /\ calls = Len(agent.observations)
                /\ node = "tool_node" => deadline # "expired"
    /\ ScriptIsPlayedInOrder

\* An attempt that ends adds its result at the end and leaves the script's case alone.
LEMMA AttemptAdds ==
    ASSUME DOMAIN agent = AgentFields, NEW result, NEW class, AttemptEnds(result, class)
    PROVE  /\ DOMAIN agent' = AgentFields
           /\ agent'.observations = Append(agent.observations,
                  [tool_name |-> agent.decision.tool_name, success |-> result.success,
                   data |-> result.data])
           /\ deadline' = "none"
           /\ node' \in {"verify_node", "end"}
<1> DEFINE recorded == Record(agent, ToolEvent(agent.decision.tool_name, result, class,
                                               agent.attempts + 1))
           seen == Append(agent.observations,
                          [tool_name |-> agent.decision.tool_name,
                           success |-> result.success, data |-> result.data])
           n == agent.attempts + 1
<1>1. DOMAIN recorded = AgentFields
  BY RecordKeepsFields
<1>2. agent' = [recorded EXCEPT !.attempts = n, !.tool_result = result, !.observations = seen]
  BY DEF AttemptEnds
<1>3. deadline' = "none" /\ node' \in {"verify_node", "end"}
  BY DEF AttemptEnds, AfterTool
<1> HIDE DEF recorded, seen, n
<1>4. DOMAIN agent' = AgentFields /\ agent'.observations = seen
  BY <1>1, <1>2, NamesOfFields
<1>5. QED
  BY <1>3, <1>4 DEF seen

LEMMA AppendOwn ==
    ASSUME NEW s, s \in Seq({s[n] : n \in DOMAIN s}), NEW e
    PROVE  LET t == Append(s, e)
           IN  /\ t \in Seq({t[n] : n \in DOMAIN t})
               /\ Len(s) \in Nat /\ Len(t) = Len(s) + 1
               /\ DOMAIN t = 1..(Len(s) + 1) /\ DOMAIN s = 1..Len(s)
               /\ \A n \in DOMAIN s : t[n] = s[n]
               /\ t[Len(s) + 1] = e
<1> DEFINE t == Append(s, e)
           S == {s[n] : n \in DOMAIN s}
           T == {t[n] : n \in DOMAIN t}
<1>0. s \in Seq(S)
  OBVIOUS
<1> HIDE DEF S
<1>1. s \in Seq(S \cup {e})
  BY <1>0
<1>2. /\ Len(s) \in Nat /\ Len(t) = Len(s) + 1
      /\ DOMAIN t = 1..(Len(s) + 1) /\ DOMAIN s = 1..Len(s)
      /\ \A n \in DOMAIN s : t[n] = s[n]
      /\ t[Len(s) + 1] = e
  BY <1>1
<1>3. t = [n \in 1..Len(t) |-> t[n]]
  <2> DEFINE U == S \cup {e}
  <2>1. t \in Seq(U)
    BY <1>1
  <2> HIDE DEF t, U
  <2>2. QED
    BY <2>1
<1>4. t \in Seq(T)
  <2>1. \A n \in 1..Len(t) : t[n] \in T
    BY <1>2
  <2> HIDE DEF t, T
  <2>2. QED
    BY <1>2, <1>3, <2>1
<1>5. QED
  BY <1>2, <1>4

-----------------------------------------------------------------------------
(* The other steps of a run.                                               *)

\* A step that adds no result and keeps to the deadlines.
NoAttempt ==
    /\ DOMAIN agent' = AgentFields
    /\ agent'.observations = agent.observations
    /\ node' \in {"verify_node", "recovery_node"} => deadline' = "none"
    /\ node' = "tool_node" /\ deadline' = "expired" =>
          \/ node = "tool_node" /\ deadline = "expired"
          \/ Late(case.tool_delay, case.tool_timeout)

LEMMA StartNoAttempt == DOMAIN agent = AgentFields /\ Start => NoAttempt
<1> SUFFICES ASSUME DOMAIN agent = AgentFields, Start PROVE NoAttempt
  OBVIOUS
<1> DEFINE begun == [agent EXCEPT !.status = "running"]
<1>1. DOMAIN begun = AgentFields /\ begun.observations = agent.observations
  BY NamesOfFields
<1>2. agent' = Record(begun, RunStarted(agent.router_type)) /\ node' = "route_node"
  BY DEF Start
<1> HIDE DEF begun
<1>3. QED
  BY <1>1, <1>2, RecordKeepsFields DEF NoAttempt

LEMMA RouteToNoAttempt ==
    ASSUME DOMAIN agent = AgentFields, NEW decision, RouteTo(decision)
    PROVE  NoAttempt
<1> DEFINE routed == [agent EXCEPT !.decision = decision]
<1>1. DOMAIN routed = AgentFields /\ routed.observations = agent.observations
  BY NamesOfFields
<1>2. agent' = Record(routed, RouteSelected(agent.router_type, decision))
      /\ deadline' = "none"
  BY DEF RouteTo
<1> HIDE DEF routed
<1>3. QED
  BY <1>1, <1>2, RecordKeepsFields DEF NoAttempt

LEMMA RouteFailsNoAttempt ==
    ASSUME DOMAIN agent = AgentFields, NEW class, NEW decision, RouteFails(class, decision)
    PROVE  NoAttempt
<1> DEFINE routed == [agent EXCEPT !.decision = decision]
           seen == IF decision = None THEN agent
                   ELSE Record(routed, RouteSelected(agent.router_type, decision))
           failed == [seen EXCEPT !.status = "failed", !.failure_class = class]
<1>1. DOMAIN routed = AgentFields /\ routed.observations = agent.observations
  BY NamesOfFields
<1>2. agent' = Record(failed, RunFailed("failed", class)) /\ deadline' = "none"
  BY DEF RouteFails
<1> HIDE DEF routed
<1>3. DOMAIN seen = AgentFields /\ seen.observations = agent.observations
  BY <1>1, RecordKeepsFields
<1> HIDE DEF seen
<1>4. DOMAIN failed = AgentFields /\ failed.observations = agent.observations
  BY <1>3, NamesOfFields
<1> HIDE DEF failed
<1>5. QED
  BY <1>2, <1>4, RecordKeepsFields DEF NoAttempt

LEMMA ToolMissingNoAttempt ==
    ASSUME DOMAIN agent = AgentFields, NEW registry, ToolMissingFrom(registry)
    PROVE  NoAttempt
<1> DEFINE missing == [agent EXCEPT !.status = "needs_human_review",
                                    !.failure_class = "tool_error"]
<1>1. /\ DOMAIN missing = AgentFields /\ missing.observations = agent.observations
      /\ missing.status = "needs_human_review"
  BY NamesOfFields
<1>2. /\ agent' = Record(missing, RunFailed("needs_human_review", "tool_error"))
      /\ node' = AfterTool(agent')
  BY DEF ToolMissingFrom
<1> HIDE DEF missing
<1>3. /\ DOMAIN agent' = AgentFields /\ agent'.observations = agent.observations
      /\ agent'.status = "needs_human_review"
  BY <1>1, <1>2, RecordKeepsFields
<1>4. node' = "end"
  BY <1>2, <1>3 DEF AfterTool
<1>5. QED
  BY <1>3, <1>4 DEF NoAttempt

LEMMA CallToolNoAttempt ==
    ASSUME DOMAIN agent = AgentFields, NEW registry, CallToolFrom(registry)
    PROVE  NoAttempt
<1>1. /\ agent' = Record(agent, ToolStarted(agent.decision.tool_name, agent.attempts + 1))
      /\ deadline' = "open" /\ node' = "tool_node"
  BY DEF CallToolFrom
<1>2. QED
  BY <1>1, RecordKeepsFields DEF NoAttempt

LEMMA VerifyNoAttempt ==
    DOMAIN agent = AgentFields /\ deadline = "none" /\ VerifyResult => NoAttempt
<1> SUFFICES ASSUME DOMAIN agent = AgentFields, deadline = "none", VerifyResult
             PROVE  NoAttempt
  OBVIOUS
<1> DEFINE verified == Verify(agent.tool_result, agent.decision.arguments,
                              agent.decision.tool_name, scope)
           recorded == Record(agent, VerificationCompleted(verified))
           evidence == TrustedEvidence(agent.observations, verified)
           class == ClassOfAttempt(verified, attempt_class, agent.tool_result)
           status == IF verified THEN "completed" ELSE "running"
<1>1. DOMAIN recorded = AgentFields /\ recorded.observations = agent.observations
  BY RecordKeepsFields
<1>2. /\ agent' = [recorded EXCEPT !.verification_result = verified, !.evidence = evidence,
                                   !.failure_class = class, !.status = status]
      /\ deadline' = deadline
      /\ node' = AfterVerify(agent')
  BY DEF VerifyResult
<1> HIDE DEF verified, recorded, evidence, class, status
<1>3. DOMAIN agent' = AgentFields /\ agent'.observations = agent.observations
  BY <1>1, <1>2, NamesOfFields
<1>4. node' # "tool_node"
  BY <1>2 DEF AfterVerify
<1>5. QED
  BY <1>2, <1>3, <1>4 DEF NoAttempt

LEMMA RecoverNoAttempt ==
    DOMAIN agent = AgentFields /\ deadline = "none" /\ Recover => NoAttempt
<1> SUFFICES ASSUME DOMAIN agent = AgentFields, deadline = "none", Recover
             PROVE  NoAttempt
  OBVIOUS
<1> DEFINE action == Decide(agent.attempts, agent.tool_result.retryable)
           noted == [agent EXCEPT !.recovery_decision = action]
           decided == Record(noted, RecoveryDecided(action))
           ended == [decided EXCEPT !.status = "needs_human_review"]
<1>1. DOMAIN noted = AgentFields /\ noted.observations = agent.observations
  BY NamesOfFields
<1>2. /\ \/ agent' = decided
         \/ agent' = Record(ended, RunFailed("needs_human_review", agent.failure_class))
      /\ deadline' = deadline
  BY DEF Recover
<1> HIDE DEF noted, action
<1>3. DOMAIN decided = AgentFields /\ decided.observations = agent.observations
  BY <1>1, RecordKeepsFields
<1> HIDE DEF decided
<1>4. DOMAIN ended = AgentFields /\ ended.observations = agent.observations
  BY <1>3, NamesOfFields
<1> HIDE DEF ended
<1>5. DOMAIN agent' = AgentFields /\ agent'.observations = agent.observations
  BY <1>2, <1>3, <1>4, RecordKeepsFields
<1>6. QED
  BY <1>2, <1>5 DEF NoAttempt

\* A step of a run, an attempt apart, adds no result: the tools of the catalog play no
\* script, and the only call that is cut off is one that sleeps past its deadline.
LEMMA RunStepKinds ==
    DOMAIN agent = AgentFields /\ RunStep
    /\ (node \in {"verify_node", "recovery_node"} => deadline = "none")
    => \/ NoAttempt
       \/ ~IsScripted /\ CatalogReturns
       \/ node = "tool_node" /\ deadline = "expired" /\ ToolTimesOut
<1> SUFFICES ASSUME DOMAIN agent = AgentFields, RunStep,
                    node \in {"verify_node", "recovery_node"} => deadline = "none"
             PROVE  \/ NoAttempt
                    \/ ~IsScripted /\ CatalogReturns
                    \/ node = "tool_node" /\ deadline = "expired" /\ ToolTimesOut
  OBVIOUS
<1>1. CASE Start
  BY <1>1, StartNoAttempt
<1>2. CASE RouteCase
  BY <1>2, RouteToNoAttempt, RouteFailsNoAttempt DEF RouteCase
<1>3. CASE ToolMissingFrom(Registry)
  BY <1>3, ToolMissingNoAttempt
<1>4. CASE CallToolFrom(Registry)
  BY <1>4, CallToolNoAttempt
<1>5. CASE SleepsPastDeadline /\ DeadlinePasses
  BY <1>5 DEF DeadlinePasses, SleepsPastDeadline, NoAttempt
<1>6. CASE deadline = "expired" /\ ToolTimesOut
  BY <1>6 DEF ToolTimesOut
<1>7. CASE ModelFails("model_timeout")
  <2> DEFINE told == Record(agent, RunFailed("failed", "model_timeout"))
  <2>1. DOMAIN told = AgentFields /\ told.observations = agent.observations
    BY RecordKeepsFields
  <2>2. /\ agent' = [told EXCEPT !.status = "failed", !.failure_class = "model_timeout"]
        /\ deadline' = "none"
    BY <1>7 DEF ModelFails
  <2> HIDE DEF told
  <2>3. DOMAIN agent' = AgentFields /\ agent'.observations = agent.observations
    BY <2>1, <2>2, NamesOfFields
  <2>4. QED
    BY <2>2, <2>3 DEF NoAttempt
<1>8. CASE VerifyResult
  BY <1>8, VerifyNoAttempt DEF VerifyResult
<1>9. CASE Recover
  BY <1>9, RecoverNoAttempt DEF Recover
<1>10. CASE ModelAnswers
  <2> DEFINE done == [agent EXCEPT !.status = "completed"]
  <2>1. DOMAIN done = AgentFields /\ done.observations = agent.observations
    BY NamesOfFields
  <2>2. agent' = Record(done, RunCompleted) /\ deadline' = "none"
    BY <1>10 DEF ModelAnswers
  <2> HIDE DEF done
  <2>3. QED
    BY <2>1, <2>2, RecordKeepsFields DEF NoAttempt
<1>11. CASE AnswerFromTool
  <2>1. agent' = Record(agent, RunCompleted) /\ node' = "end"
    BY <1>11 DEF AnswerFromTool
  <2>2. QED
    BY <2>1, RecordKeepsFields DEF NoAttempt
<1>12. CASE CallModel \/ Return \/ Raise
  BY <1>12 DEF CallModel, Return, Raise, NoAttempt
<1>13. QED
  BY <1>1, <1>2, <1>3, <1>4, <1>5, <1>6, <1>7, <1>8, <1>9, <1>10, <1>11, <1>12 DEF RunStep

-----------------------------------------------------------------------------
(* The script of a case.                                                   *)

\* An attempt of a scripted case that brings what the script has for it.
LEMMA AttemptPlaysScript ==
    ASSUME ScriptAccounted, NEW result, NEW class, AttemptEnds(result, class),
           UNCHANGED <<suite, running>>,
           running # None /\ IsScripted =>
              /\ result = ScriptedAttempt(Len(agent.observations) + 1)
              /\ \/ Late(case.tool_delay, case.tool_timeout)
                 \/ calls' = calls + 1
    PROVE  ScriptAccounted'
<1> DEFINE seen == agent.observations
           new == [tool_name |-> agent.decision.tool_name, success |-> result.success,
                   data |-> result.data]
<1>1. /\ DOMAIN agent' = AgentFields /\ agent'.observations = Append(seen, new)
      /\ deadline' = "none" /\ node' \in {"verify_node", "end"}
  BY AttemptAdds DEF ScriptAccounted
<1>2. case' = case /\ IsScripted' = IsScripted /\ running' = running
  BY DEF case, IsScripted
<1>3. CASE ~(running # None /\ IsScripted)
  BY <1>1, <1>2, <1>3 DEF ScriptAccounted, ScriptIsPlayedInOrder
<1>4. CASE running # None /\ IsScripted
  <2>1. seen \in Seq({seen[n] : n \in DOMAIN seen})
    BY <1>4 DEF ScriptAccounted
  <2>2. new.success = result.success /\ new.data = result.data
    OBVIOUS
  <2> HIDE DEF seen, new
  <2>3. /\ agent'.observations \in Seq({agent'.observations[n] : n \in DOMAIN agent'.observations})
        /\ Len(seen) \in Nat /\ Len(agent'.observations) = Len(seen) + 1
        /\ DOMAIN agent'.observations = 1..(Len(seen) + 1) /\ DOMAIN seen = 1..Len(seen)
        /\ \A n \in DOMAIN seen : agent'.observations[n] = seen[n]
        /\ agent'.observations[Len(seen) + 1] = new
    BY <1>1, <2>1, AppendOwn
  <2>4. ASSUME NEW n \in DOMAIN agent'.observations
        PROVE  /\ agent'.observations[n].success = ScriptedAttempt(n).success
               /\ agent'.observations[n].data = ScriptedAttempt(n).data
    <3>1. CASE n \in DOMAIN seen
      BY <1>4, <2>3, <3>1 DEF ScriptAccounted, ScriptIsPlayedInOrder, seen
    <3>2. CASE n = Len(seen) + 1
      BY <1>4, <2>2, <2>3, <3>2 DEF seen
    <3>3. QED
      BY <2>3, <3>1, <3>2
  <2>5. \A n \in Nat : ScriptedAttempt(n)' = ScriptedAttempt(n)
    BY <1>2 DEF ScriptedAttempt, ScriptedResult, Script
  <2>6. ScriptIsPlayedInOrder'
    BY <2>3, <2>4, <2>5 DEF ScriptIsPlayedInOrder
  <2>7. Late(case.tool_delay, case.tool_timeout) \/ calls = Len(seen)
    BY <1>4 DEF ScriptAccounted, seen
  <2>8. Late(case.tool_delay, case.tool_timeout)' \/ calls' = Len(agent'.observations)
    BY <1>2, <1>4, <2>3, <2>7
  <2>9. QED
    BY <1>1, <2>3, <2>6, <2>8 DEF ScriptAccounted
<1>5. QED
  BY <1>3, <1>4

LEMMA NoAttemptPlaysNothing ==
    ASSUME ScriptAccounted, NoAttempt, UNCHANGED runner
    PROVE  ScriptAccounted'
<1>1. /\ case' = case /\ IsScripted' = IsScripted /\ running' = running /\ calls' = calls
      /\ Late(case.tool_delay, case.tool_timeout)' = Late(case.tool_delay, case.tool_timeout)
  BY DEF runner, case, IsScripted
<1>2. \A n : ScriptedAttempt(n)' = ScriptedAttempt(n)
  BY <1>1 DEF ScriptedAttempt, ScriptedResult, Script
<1>3. ScriptIsPlayedInOrder'
  BY <1>1, <1>2 DEF ScriptIsPlayedInOrder, ScriptAccounted, NoAttempt
<1>4. QED
  BY <1>1, <1>3 DEF ScriptAccounted, NoAttempt

LEMMA InitScript == EvaluationInit => ScriptAccounted
<1>1. EvaluationInit => /\ running = None /\ node = "start"
                        /\ \E r : agent = FreshState(r)
  BY DEF EvaluationInit, Idle, Init
<1>2. QED
  BY <1>1, FieldsOfFresh DEF ScriptAccounted, ScriptIsPlayedInOrder

LEMMA NextScript == ScriptAccounted /\ [EvaluationNext]_evaluation => ScriptAccounted'
<1> SUFFICES ASSUME ScriptAccounted, [EvaluationNext]_evaluation PROVE ScriptAccounted'
  OBVIOUS
<1>1. CASE BeginCase
  <2>1. /\ calls' = 0 /\ node' = "start"
        /\ \E r : agent' = FreshState(r)
    BY <1>1 DEF BeginCase, FreshRuntime
  <2>2. DOMAIN agent' = AgentFields /\ agent'.observations = <<>>
    BY <2>1, FieldsOfFresh
  <2>3. /\ <<>> \in Seq({agent'.observations[n] : n \in DOMAIN agent'.observations})
        /\ DOMAIN agent'.observations = {} /\ Len(agent'.observations) = 0
    BY <2>2
  <2>4. ScriptIsPlayedInOrder'
    BY <2>3 DEF ScriptIsPlayedInOrder
  <2>5. QED
    BY <2>1, <2>2, <2>3, <2>4 DEF ScriptAccounted
<1>2. CASE running # None /\ RunStep /\ UNCHANGED runner
  <2>1. CASE NoAttempt
    BY <1>2, <2>1, NoAttemptPlaysNothing
  <2>2. CASE ~IsScripted /\ CatalogReturns
    <3>1. AttemptEnds(Execute(agent.decision.tool_name, agent.decision.arguments, scope), None)
      BY <2>2 DEF CatalogReturns
    <3>2. QED
      BY <1>2, <2>2, <3>1, AttemptPlaysScript DEF runner
  <2>3. CASE node = "tool_node" /\ deadline = "expired" /\ ToolTimesOut
    <3>1. AttemptEnds(FailureResult("tool_timeout", TRUE), "tool_timeout")
      BY <2>3 DEF ToolTimesOut
    <3>2. IsScripted => Late(case.tool_delay, case.tool_timeout)
      BY <1>2, <2>3 DEF ScriptAccounted
    <3>3. IsScripted => FailureResult("tool_timeout", TRUE)
                           = ScriptedAttempt(Len(agent.observations) + 1)
      BY <3>2 DEF ScriptedAttempt
    <3>4. QED
      BY <1>2, <3>1, <3>2, <3>3, AttemptPlaysScript DEF runner
  <2>4. QED
    BY <1>2, <2>1, <2>2, <2>3, RunStepKinds DEF ScriptAccounted
<1>3. CASE running # None /\ ScriptedReturns /\ UNCHANGED <<suite, running, results>>
  <2>1. /\ IsScripted /\ calls' = calls + 1
        /\ AttemptEnds(ScriptedResult(calls + 1), None)
    BY <1>3 DEF ScriptedReturns, ToolReturns
  <2>2. ~Late(case.tool_delay, case.tool_timeout)
    BY <1>3 DEF ScriptedReturns, ToolReturns, SleepsPastDeadline
  <2>3. calls = Len(agent.observations)
    BY <1>3, <2>1, <2>2 DEF ScriptAccounted
  <2>4. ScriptedResult(calls + 1) = ScriptedAttempt(Len(agent.observations) + 1)
    BY <2>2, <2>3 DEF ScriptedAttempt
  <2>5. QED
    BY <1>3, <2>1, <2>4, AttemptPlaysScript
<1>4. CASE RecordResult
  <2>1. running' = None /\ UNCHANGED vars
    BY <1>4 DEF RecordResult
  <2>2. QED
    BY <2>1 DEF ScriptAccounted, ScriptIsPlayedInOrder, vars
<1>5. CASE UNCHANGED evaluation
  BY <1>5 DEF ScriptAccounted, ScriptIsPlayedInOrder, ScriptedAttempt, ScriptedResult,
              Script, IsScripted, case, evaluation, runner, vars
<1>6. QED
  BY <1>1, <1>2, <1>3, <1>4, <1>5 DEF EvaluationNext

\* Whatever cases a suite has and in whatever order, the attempts of a scripted case get
\* the results of its own script one by one, and a case whose tool is always late gets
\* time-outs and nothing else (runner.py:33-65, 87-102).
THEOREM ScriptsAreTheirOwn == EvaluationSpec => []ScriptIsPlayedInOrder
<1>1. ScriptAccounted => ScriptIsPlayedInOrder
  BY DEF ScriptAccounted
<1>2. QED
  BY <1>1, InitScript, NextScript, PTL DEF EvaluationSpec
=============================================================================
