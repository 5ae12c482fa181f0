---------------------------- MODULE AgentRunProofs ----------------------------
(***************************************************************************)
(* Proofs about AgentRun for every budget, registry, set of scopes, router *)
(* and tool results: type correctness; that an answer formatted from a     *)
(* tool's payload is one the caller asked for and may see; and that the    *)
(* attempts, the evidence and the failure class of a run agree.            *)
(***************************************************************************)
EXTENDS AgentRunContract, FiniteSetTheorems, TLAPS

-----------------------------------------------------------------------------
(* The inductive invariant.                                                *)

\* What each node finds when it starts, and what the end of the graph keeps: the
\* strengthening that makes AnswerIsVetted inductive.  The verifier judged
\* tool_result and the answer is made of the last observation, so the two must be
\* one payload (async_runtime.py:336-346, 357-363, 445).
LastResultIsObserved ==
    /\ agent.tool_result # None
    /\ agent.observations # <<>>
    /\ Last(agent.observations) = [tool_name |-> agent.decision.tool_name,
                                   success |-> agent.tool_result.success,
                                   data |-> agent.tool_result.data]

LastResultIsVerified ==
    Verify(agent.tool_result, agent.decision.arguments, agent.decision.tool_name, scope)

RunInvariant ==
    /\ node \in Nodes \ {"route_node"} => agent.decision # None
    /\ node = "tool_node" /\ deadline # "none" => agent.decision.tool_name \in Tools
    /\ node \in {"verify_node", "recovery_node"} => LastResultIsObserved
    /\ node = "answer_node" /\ agent.decision.action = "use_tool" =>
          LastResultIsObserved /\ LastResultIsVerified
    /\ node \in {"start"} \cup Nodes => response = None
    /\ node \in {"end", "returned"} /\ response # None /\ response.source = "tool" =>
          /\ agent.decision # None
          /\ agent.tool_result # None
          /\ LastResultIsVerified
          /\ response.about = agent.tool_result.data

-----------------------------------------------------------------------------
(* The trace.                                                              *)

LEMMA RunStartedType ==
    ASSUME NEW router \in RouterTypes
    PROVE  RunStarted(router) \in TraceEvent
BY DEF RunStarted, Event, TraceEvent, EventNames, RouterTypes, OrNone

LEMMA RouteSelectedType ==
    ASSUME NEW router \in RouterTypes, NEW decision \in AgentDecision
    PROVE  RouteSelected(router, decision) \in TraceEvent
BY DEF RouteSelected, Event, TraceEvent, EventNames, RouterTypes, AgentDecision, OrNone

LEMMA VerificationCompletedType ==
    ASSUME NEW verified \in BOOLEAN
    PROVE  VerificationCompleted(verified) \in TraceEvent
<1>1. verified \in OrNone(BOOLEAN)
  BY DEF OrNone
<1>2. QED
  <2> HIDE DEF OrNone
  <2>1. Event("verification_completed") \in TraceEvent
    BY DEF Event, TraceEvent, EventNames, OrNone
  <2>2. QED
    BY <1>1, <2>1 DEF VerificationCompleted, TraceEvent

LEMMA RecoveryDecidedType ==
    ASSUME NEW action \in RecoveryActions
    PROVE  RecoveryDecided(action) \in TraceEvent
BY DEF RecoveryDecided, Event, TraceEvent, EventNames, OrNone

LEMMA TerminalEventType ==
    ASSUME NEW status \in Statuses, NEW class \in OrNone(FailureClasses)
    PROVE  /\ RunFailed(status, class) \in TraceEvent
           /\ RunCompleted \in TraceEvent
BY DEF RunFailed, RunCompleted, Event, TraceEvent, EventNames, Statuses, OrNone

LEMMA ToolEventType ==
    ASSUME NEW tool \in Tools, NEW result \in ToolResult,
           NEW class \in OrNone(ToolFailures), NEW n \in Nat
    PROVE  ToolEvent(tool, result, class, n) \in TraceEvent
<1>1. /\ Event("tool_completed") \in TraceEvent
      /\ Event("tool_failed") \in TraceEvent
  BY DEF Event, TraceEvent, EventNames, OrNone
<1>2. tool \in OrNone(ToolNames)
  BY RunAssumption DEF OrNone, ToolNames
<1>3. (IF class = None THEN "tool_error" ELSE class) \in OrNone(FailureClasses)
  BY DEF OrNone, ToolFailures, FailureClasses
<1>4. result.data.error \in OrNone(ErrorTokens)
  BY DEF ToolResult, Payload
<1>5. QED
  <2> HIDE DEF OrNone
  <2>1. QED
    BY <1>1, <1>2, <1>3, <1>4 DEF ToolEvent, TraceEvent

LEMMA ToolStartedType ==
    ASSUME NEW tool \in Tools, NEW n \in Nat
    PROVE  ToolStarted(tool, n) \in TraceEvent
BY RunAssumption DEF ToolStarted, Event, TraceEvent, EventNames, ToolNames, OrNone

LEMMA RecordType ==
    ASSUME NEW a \in AgentState, NEW event \in TraceEvent
    PROVE  /\ Record(a, event) \in AgentState
           /\ Record(a, event) = [a EXCEPT !.events = Record(a, event).events]
<1>1. Len(a.events) \in Nat /\ a.events \in Seq(TraceEvent)
  BY DEF AgentState
<1>2. [event EXCEPT !.order = Len(a.events)] \in TraceEvent
  BY <1>1 DEF TraceEvent
<1>3. Append(a.events, [event EXCEPT !.order = Len(a.events)]) \in Seq(TraceEvent)
  BY <1>1, <1>2
<1>4. QED
  BY <1>3 DEF Record, AgentState

\* Recording an event changes nothing but the events.
LEMMA RecordKeeps ==
    ASSUME NEW a \in AgentState, NEW event
    PROVE  LET b == Record(a, event)
           IN  /\ b.status = a.status
               /\ b.decision = a.decision
               /\ b.tool_result = a.tool_result
               /\ b.verification_result = a.verification_result
               /\ b.attempts = a.attempts
               /\ b.observations = a.observations
               /\ b.recovery_decision = a.recovery_decision
               /\ b.failure_class = a.failure_class
BY DEF Record, AgentState

\* The results _tool_step makes up for a timeout and for an exception.
LEMMA SynthesisedResults ==
    /\ FailureResult("tool_timeout", TRUE) \in ToolResult
    /\ FailureResult("tool_error", FALSE) \in ToolResult
BY DEF FailureResult, ToolResult, EmptyPayload, Payload, OrNone, ErrorTokens

-----------------------------------------------------------------------------
(* Type correctness.  The one thing a step needs from RunInvariant is that *)
(* the nodes after the router have a decision, and a tool call a tool.     *)

LEMMA VerdictType ==
    ASSUME NEW result, NEW arguments, NEW toolName, NEW requestScope
    PROVE  Verify(result, arguments, toolName, requestScope) \in BOOLEAN
BY DEF Verify

LEMMA InitTypeOK == Init => TypeOK
<1> SUFFICES ASSUME Init PROVE TypeOK
  OBVIOUS
<1>1. \A router_type \in RouterTypes : FreshState(router_type) \in AgentState
  BY DEF FreshState, AgentState, Statuses, OrNone
<1>2. agent \in AgentState
  BY <1>1 DEF Init
<1>3. QED
  BY <1>2, RunAssumption DEF Init, TypeOK, OrNone

\* The state and the graph envelope an attempt leaves behind.
LEMMA AttemptType ==
    ASSUME TypeOK, NEW result \in ToolResult, NEW class \in OrNone(ToolFailures),
           agent.decision.tool_name \in Tools,
           AttemptEnds(result, class)
    PROVE  TypeOK'
<1>1. agent \in AgentState /\ agent.attempts + 1 \in Nat
  BY DEF TypeOK, AgentState
<1>2. Record(agent, ToolEvent(agent.decision.tool_name, result, class,
                            agent.attempts + 1)) \in AgentState
  BY <1>1, ToolEventType, RecordType
<1>3. [tool_name |-> agent.decision.tool_name, success |-> result.success,
       data |-> result.data] \in Observation
  BY DEF Observation, ToolResult
<1>4. Append(agent.observations, [tool_name |-> agent.decision.tool_name,
                                  success |-> result.success,
                                  data |-> result.data]) \in Seq(Observation)
  BY <1>1, <1>3 DEF AgentState
<1>5. agent' \in AgentState
  BY <1>1, <1>2, <1>4 DEF AttemptEnds, AgentState, OrNone
<1>6. node' \in {"end", "verify_node"}
  BY DEF AttemptEnds, AfterTool
<1>7. QED
  BY <1>5, <1>6 DEF AttemptEnds, TypeOK, Nodes

LEMMA EvidenceType ==
    ASSUME NEW observations \in Seq(Observation), NEW verified \in BOOLEAN
    PROVE  TrustedEvidence(observations, verified) \in
               Seq([tool_name : Tools, data : Payload])
<1>1. CASE verified /\ observations # <<>> /\ Last(observations).success
  <2>1. Len(observations) \in 1..Len(observations)
    BY <1>1
  <2>2. Last(observations) \in Observation
    BY <2>1 DEF Last
  <2>3. WithoutScope(Last(observations).data) \in Payload
    BY <2>2 DEF Observation, WithoutScope, Payload, OrNone
  <2>4. QED
    BY <1>1, <2>2, <2>3 DEF TrustedEvidence, Observation
<1>2. CASE ~(verified /\ observations # <<>> /\ Last(observations).success)
  BY <1>2 DEF TrustedEvidence
<1>3. QED
  BY <1>1, <1>2

LEMMA NextTypeOK == TypeOK /\ RunInvariant /\ [Next]_vars => TypeOK'
<1> SUFFICES ASSUME TypeOK, RunInvariant, [Next]_vars PROVE TypeOK'
  OBVIOUS
<1> USE DEF TypeOK
<1>1. agent \in AgentState
  OBVIOUS
<1>2. CASE Start
  <2>1. [agent EXCEPT !.status = "running"] \in AgentState
    BY <1>1 DEF AgentState, Statuses
  <2>2. RunStarted(agent.router_type) \in TraceEvent
    BY <1>1, RunStartedType DEF AgentState
  <2>3. agent' \in AgentState
    BY <1>2, <2>1, <2>2, RecordType DEF Start
  <2>4. QED
    BY <1>2, <2>3 DEF Start, Nodes
<1>3. CASE DeadlinePasses
  BY <1>3 DEF DeadlinePasses
<1>4. ASSUME NEW decision \in Decisions, RouteTo(decision) PROVE TypeOK'
  <2>1. [agent EXCEPT !.decision = decision] \in AgentState
    BY <1>1, RunAssumption DEF AgentState, OrNone
  <2>2. RouteSelected(agent.router_type, decision) \in TraceEvent
    BY <1>1, RouteSelectedType, RunAssumption DEF AgentState
  <2>3. agent' \in AgentState
    BY <1>4, <2>1, <2>2, RecordType DEF RouteTo
  <2>4. node' \in {"end", "answer_node", "tool_node"}
    BY <1>4 DEF RouteTo, AfterRoute
  <2>5. QED
    BY <1>4, <2>3, <2>4 DEF RouteTo, Nodes
<1>5. ASSUME NEW class \in ModelFailures, NEW decision \in OrNone(RejectedDecisions),
             RouteFails(class, decision)
      PROVE  TypeOK'
  <2> DEFINE seen == IF decision = None
                     THEN agent
                     ELSE Record([agent EXCEPT !.decision = decision],
                                 RouteSelected(agent.router_type, decision))
  <2>1. [agent EXCEPT !.decision = decision] \in AgentState
    BY <1>1, RunAssumption DEF AgentState, OrNone
  <2>2. seen \in AgentState
    <3>1. CASE decision = None
      BY <1>1, <3>1
    <3>2. CASE decision # None
      <4>1. RouteSelected(agent.router_type, decision) \in TraceEvent
        BY <1>1, <3>2, RouteSelectedType, RunAssumption DEF AgentState, OrNone
      <4>2. QED
        BY <2>1, <3>2, <4>1, RecordType
    <3>3. QED
      BY <3>1, <3>2
  <2>3. class \in FailureClasses
    BY DEF FailureClasses
  <2>4. [seen EXCEPT !.status = "failed", !.failure_class = class] \in AgentState
    <3> HIDE DEF seen, TypeOK
    <3>1. QED
      BY <2>2, <2>3 DEF AgentState, Statuses, OrNone
  <2>5. RunFailed("failed", class) \in TraceEvent
    BY <2>3, TerminalEventType DEF Statuses, OrNone
  <2>6. agent' \in AgentState
    BY <1>5, <2>4, <2>5, RecordType DEF RouteFails
  <2>7. node' \in {"end", "answer_node", "tool_node"}
    BY <1>5 DEF RouteFails, AfterRoute
  <2>8. QED
    BY <1>5, <2>3, <2>6, <2>7 DEF RouteFails, Nodes, OrNone
<1>6. CASE ToolMissing
  <2>1. [agent EXCEPT !.status = "needs_human_review", !.failure_class = "tool_error"]
           \in AgentState
    BY <1>1 DEF AgentState, Statuses, FailureClasses, ToolFailures, OrNone
  <2>2. RunFailed("needs_human_review", "tool_error") \in TraceEvent
    BY TerminalEventType DEF Statuses, FailureClasses, ToolFailures, OrNone
  <2>3. agent' \in AgentState
    BY <1>6, <2>1, <2>2, RecordType DEF ToolMissing, ToolMissingFrom
  <2>4. QED
    BY <1>6, <2>3 DEF ToolMissing, ToolMissingFrom, AfterTool, Nodes, Response, ReviewResponse, OrNone
<1>7. CASE CallTool
  <2>1. ToolStarted(agent.decision.tool_name, agent.attempts + 1) \in TraceEvent
    <3>1. agent.attempts + 1 \in Nat /\ agent.decision.tool_name \in Tools
      BY <1>1, <1>7 DEF AgentState, CallTool, CallToolFrom
    <3>2. QED
      BY <3>1, ToolStartedType
  <2>2. agent' \in AgentState
    BY <1>1, <1>7, <2>1, RecordType DEF CallTool, CallToolFrom
  <2>3. QED
    BY <1>7, <2>2 DEF CallTool, CallToolFrom
<1>8. ASSUME NEW result \in Results, ToolReturns(result) PROVE TypeOK'
  <2>1. result \in ToolResult /\ None \in OrNone(ToolFailures)
    BY RunAssumption DEF OrNone
  <2>2. agent.decision.tool_name \in Tools
    BY <1>8 DEF ToolReturns, RunInvariant
  <2>3. QED
    BY <1>8, <2>1, <2>2, AttemptType DEF ToolReturns
<1>9. CASE ToolTimesOut
  <2>1. /\ FailureResult("tool_timeout", TRUE) \in ToolResult
        /\ "tool_timeout" \in OrNone(ToolFailures)
    <3>1. FailureResult("tool_timeout", TRUE) \in ToolResult
      BY SynthesisedResults
    <3>2. "tool_timeout" \in OrNone(ToolFailures)
      BY DEF OrNone, ToolFailures
    <3>3. QED
      BY <3>1, <3>2
  <2>2. agent.decision.tool_name \in Tools
    BY <1>9 DEF ToolTimesOut, RunInvariant
  <2>3. QED
    BY <1>9, <2>1, <2>2, AttemptType DEF ToolTimesOut
<1>10. CASE ToolRaises
  <2>1. /\ FailureResult("tool_error", FALSE) \in ToolResult
        /\ "tool_error" \in OrNone(ToolFailures)
    <3>1. FailureResult("tool_error", FALSE) \in ToolResult
      BY SynthesisedResults
    <3>2. "tool_error" \in OrNone(ToolFailures)
      BY DEF OrNone, ToolFailures
    <3>3. QED
      BY <3>1, <3>2
  <2>2. agent.decision.tool_name \in Tools
    BY <1>10 DEF ToolRaises, RunInvariant
  <2>3. QED
    BY <1>10, <2>1, <2>2, AttemptType DEF ToolRaises
<1>11. CASE VerifyResult
  <2> DEFINE verified == Verify(agent.tool_result, agent.decision.arguments,
                                agent.decision.tool_name, scope)
             recorded == Record(agent, VerificationCompleted(verified))
             class == ClassOfAttempt(verified, attempt_class, agent.tool_result)
             evidence == TrustedEvidence(agent.observations, verified)
  <2>1. verified \in BOOLEAN
    BY VerdictType
  <2>2. recorded \in AgentState
    BY <1>1, <2>1, RecordType, VerificationCompletedType
  <2>3. class \in OrNone(FailureClasses)
    BY DEF ClassOfAttempt, FailureClasses, ToolFailures, OrNone
  <2>4. evidence \in Seq([tool_name : Tools, data : Payload])
    BY <1>1, <2>1, EvidenceType DEF AgentState
  <2>5. agent' = [recorded EXCEPT
                    !.verification_result = verified,
                    !.evidence = evidence,
                    !.failure_class = class,
                    !.status = IF verified THEN "completed" ELSE "running"]
    BY <1>11 DEF VerifyResult
  <2>6. agent' \in AgentState
    <3> HIDE DEF verified, recorded, class, evidence, TypeOK
    <3>1. (IF verified THEN "completed" ELSE "running") \in Statuses
      BY DEF Statuses
    <3>2. verified \in OrNone(BOOLEAN)
      BY <2>1 DEF OrNone
    <3>3. QED
      BY <2>2, <2>3, <2>4, <2>5, <3>1, <3>2 DEF AgentState
  <2>7. node' \in {"answer_node", "recovery_node"}
    BY <1>11 DEF VerifyResult, AfterVerify
  <2>8. QED
    BY <1>11, <2>6, <2>7 DEF VerifyResult, Nodes
<1>12. CASE Recover
  <2> DEFINE action == Decide(agent.attempts, agent.tool_result.retryable)
             decided == Record([agent EXCEPT !.recovery_decision = action],
                               RecoveryDecided(action))
  <2>1. action \in RecoveryActions
    BY DEF Decide, RecoveryActions
  <2>2. decided \in AgentState
    <3>1. [agent EXCEPT !.recovery_decision = action] \in AgentState
      BY <1>1, <2>1 DEF AgentState, OrNone
    <3>2. QED
      BY <2>1, <3>1, RecordType, RecoveryDecidedType
  <2>3. [decided EXCEPT !.status = "needs_human_review"] \in AgentState
    BY <2>2 DEF AgentState, Statuses
  <2>4. RunFailed("needs_human_review", agent.failure_class) \in TraceEvent
    BY <1>1, TerminalEventType DEF AgentState, Statuses
  <2>5. agent' \in AgentState
    <3>1. CASE action = "retry"
      BY <1>12, <2>2, <3>1 DEF Recover
    <3>2. CASE action # "retry"
      BY <1>12, <2>3, <2>4, <3>2, RecordType DEF Recover
    <3>3. QED
      BY <3>1, <3>2
  <2>6. response' \in OrNone(Response)
    BY <1>12 DEF Recover, ReviewResponse, Response, OrNone
  <2>7. node' \in {"tool_node", "end"}
    BY <1>12 DEF Recover, AfterRecovery
  <2>8. QED
    BY <1>12, <2>5, <2>6, <2>7 DEF Recover, Nodes
<1>13. CASE CallModel
  BY <1>13 DEF CallModel
<1>14. CASE ModelAnswers
  <2>1. [agent EXCEPT !.status = "completed"] \in AgentState
    BY <1>1 DEF AgentState, Statuses
  <2>2. agent' \in AgentState
    BY <1>14, <2>1, RecordType, TerminalEventType DEF ModelAnswers, Statuses, OrNone
  <2>3. QED
    BY <1>14, <2>2 DEF ModelAnswers, Response, OrNone
<1>15. ASSUME NEW class \in ModelFailures, ModelFails(class) PROVE TypeOK'
  <2>1. class \in FailureClasses
    BY DEF FailureClasses
  <2>2. RunFailed("failed", class) \in TraceEvent
    BY <2>1, TerminalEventType DEF Statuses, OrNone
  <2>3. Record(agent, RunFailed("failed", class)) \in AgentState
    BY <1>1, <2>2, RecordType
  <2>4. agent' \in AgentState
    BY <1>15, <2>1, <2>3 DEF ModelFails, AgentState, Statuses, OrNone
  <2>5. QED
    BY <1>15, <2>1, <2>4 DEF ModelFails, OrNone
<1>16. CASE ModelCrashes
  BY <1>16 DEF ModelCrashes, Endings, FailureClasses, OrNone
<1>17. CASE AnswerFromTool
  <2>1. agent' \in AgentState
    BY <1>1, <1>17, RecordType, TerminalEventType DEF AnswerFromTool, Statuses, OrNone
  <2>2. Last(agent.observations).data \in Payload
    <3>1. agent.observations # <<>> /\ agent.observations \in Seq(Observation)
      BY <1>1, <1>17 DEF AnswerFromTool, RunInvariant, LastResultIsObserved, AgentState
    <3>2. Len(agent.observations) \in 1..Len(agent.observations)
      BY <3>1
    <3>3. Last(agent.observations) \in Observation
      BY <3>1, <3>2 DEF Last
    <3>4. QED
      BY <3>3 DEF Observation
  <2>3. response' \in OrNone(Response)
    BY <1>17, <2>2 DEF AnswerFromTool, FormatToolAnswer, Response, OrNone
  <2>4. QED
    BY <1>17, <2>1, <2>3 DEF AnswerFromTool
<1>18. CASE Return
  BY <1>18 DEF Return, Endings
<1>19. CASE Raise
  BY <1>19 DEF Raise, Endings
<1>20. CASE Cancel
  BY <1>20 DEF Cancel, Endings
<1>21. CASE UNCHANGED vars
  BY <1>21 DEF vars
<1>22. QED
  BY <1>2, <1>3, <1>4, <1>5, <1>6, <1>7, <1>8, <1>9, <1>10, <1>11, <1>12, <1>13,
     <1>14, <1>15, <1>16, <1>17, <1>18, <1>19, <1>20, <1>21
  DEF Next, Finished

-----------------------------------------------------------------------------
(* RunInvariant.  The steps that can disturb it are those that move the    *)
(* run to a node with something to find there: the end of an attempt, the  *)
(* verification and the answer.                                            *)

LEMMA LastObservation ==
    ASSUME TypeOK, agent.observations # <<>>
    PROVE  Last(agent.observations) \in Observation
<1>1. agent.observations \in Seq(Observation)
  BY DEF TypeOK, AgentState
<1>2. Len(agent.observations) \in 1..Len(agent.observations)
  BY <1>1
<1>3. QED
  BY <1>1, <1>2 DEF Last

LEMMA AttemptObserved ==
    ASSUME TypeOK, RunInvariant, NEW result \in ToolResult, NEW class,
           node = "tool_node", agent.decision.tool_name \in Tools,
           AttemptEnds(result, class)
    PROVE  RunInvariant'
<1> DEFINE recorded == Record(agent, ToolEvent(agent.decision.tool_name, result, class,
                            agent.attempts + 1))
           observed == [tool_name |-> agent.decision.tool_name,
                        success |-> result.success, data |-> result.data]
<1>1. agent \in AgentState /\ agent.observations \in Seq(Observation)
  BY DEF TypeOK, AgentState
<1>2. observed \in Observation
  BY DEF Observation, ToolResult
<1>3. recorded.decision = agent.decision
  BY <1>1, RecordKeeps
<1>4. agent' = [recorded EXCEPT !.attempts = agent.attempts + 1,
                                !.tool_result = result,
                                !.observations = Append(agent.observations, observed)]
  BY DEF AttemptEnds
<1>5. recorded = [agent EXCEPT !.events = recorded.events]
  BY <1>1 DEF Record, AgentState
<1>6. /\ agent'.decision = agent.decision
      /\ agent'.tool_result = result
      /\ agent'.observations = Append(agent.observations, observed)
  <2> HIDE DEF recorded, observed
  <2>1. QED
    BY <1>1, <1>3, <1>4, <1>5 DEF AgentState
<1>7. result # None
  BY RunAssumption DEF ToolResult
<1>8. /\ Append(agent.observations, observed) # <<>>
      /\ Last(Append(agent.observations, observed)) = observed
  BY <1>1, <1>2 DEF Last
<1>9. LastResultIsObserved'
  BY <1>6, <1>7, <1>8 DEF LastResultIsObserved
<1>10. node' \in {"end", "verify_node"} /\ response' = None /\ agent.decision # None
  BY DEF AttemptEnds, AfterTool, RunInvariant, Nodes
<1>11. QED
  BY <1>6, <1>9, <1>10 DEF RunInvariant, Nodes

LEMMA InitRunInvariant == Init => RunInvariant
BY DEF Init, RunInvariant, Nodes

LEMMA NextRunInvariant == TypeOK /\ RunInvariant /\ [Next]_vars => RunInvariant'
<1> SUFFICES ASSUME TypeOK, RunInvariant, [Next]_vars PROVE RunInvariant'
  OBVIOUS
<1>1. agent \in AgentState
  BY DEF TypeOK
<1>2. CASE Start
  BY <1>2 DEF Start, RunInvariant, Nodes
<1>3. CASE DeadlinePasses
  BY <1>3 DEF DeadlinePasses, RunInvariant, LastResultIsObserved, LastResultIsVerified
<1>4. ASSUME NEW decision \in Decisions, RouteTo(decision) PROVE RunInvariant'
  <2>1. [agent EXCEPT !.decision = decision] \in AgentState
    BY <1>1, RunAssumption DEF AgentState, OrNone
  <2>2. agent'.decision = decision
    <3>1. agent'.decision = [agent EXCEPT !.decision = decision].decision
      BY <1>4, <2>1, RecordKeeps DEF RouteTo
    <3>2. QED
      BY <1>1, <3>1 DEF AgentState
  <2>3. decision # None
    BY RunAssumption
  <2>4. node' \in {"end", "answer_node", "tool_node"} /\ deadline' = "none"
    BY <1>4 DEF RouteTo, AfterRoute
  <2>5. node' = "answer_node" => decision.action = "direct"
    BY <1>4, <2>2 DEF RouteTo, AfterRoute
  <2>6. response' = None
    BY <1>4 DEF RouteTo, RunInvariant, Nodes
  <2>7. QED
    BY <2>2, <2>3, <2>4, <2>5, <2>6 DEF RunInvariant, Nodes
<1>5. ASSUME NEW class \in ModelFailures, NEW decision \in OrNone(RejectedDecisions),
             RouteFails(class, decision)
      PROVE  RunInvariant'
  <2>1. class # None
    BY RunAssumption DEF FailureClasses
  <2>2. pending_error' = class /\ node' = AfterRoute(agent', pending_error')
    BY <1>5 DEF RouteFails
  <2>3. node' = "end"
    BY <2>1, <2>2, Zenon DEF AfterRoute
  <2>4. response' = None
    BY <1>5 DEF RouteFails, RunInvariant, Nodes
  <2>5. QED
    BY <2>3, <2>4 DEF RunInvariant, Nodes
<1>6. CASE ToolMissing
  <2>1. node' \in {"end", "verify_node"} /\ response' = ReviewResponse
    BY <1>6 DEF ToolMissing, ToolMissingFrom, AfterTool
  <2>2. [agent EXCEPT !.status = "needs_human_review", !.failure_class = "tool_error"]
           \in AgentState
    BY <1>1 DEF AgentState, Statuses, FailureClasses, ToolFailures, OrNone
  <2>3. agent'.status = "needs_human_review"
    <3>1. agent'.status =
             [agent EXCEPT !.status = "needs_human_review",
                           !.failure_class = "tool_error"].status
      BY <1>6, <2>2, RecordKeeps DEF ToolMissing, ToolMissingFrom
    <3>2. QED
      BY <1>1, <3>1 DEF AgentState
  <2>4. node' = "end"
    BY <1>6, <2>3 DEF ToolMissing, ToolMissingFrom, AfterTool
  <2>5. QED
    BY <2>1, <2>4 DEF RunInvariant, Nodes, ReviewResponse
<1>7. CASE CallTool
  <2>1. agent'.decision = agent.decision
    BY <1>1, <1>7, RecordKeeps DEF CallTool, CallToolFrom
  <2>2. QED
    BY <1>7, <2>1 DEF CallTool, CallToolFrom, RunInvariant, Nodes
<1>8. ASSUME NEW result \in Results, ToolReturns(result) PROVE RunInvariant'
  <2>1. result \in ToolResult
    BY RunAssumption
  <2>2. agent.decision.tool_name \in Tools
    BY <1>8 DEF ToolReturns, RunInvariant
  <2>3. QED
    BY <1>8, <2>1, <2>2, AttemptObserved DEF ToolReturns
<1>9. CASE ToolTimesOut
  <2>1. agent.decision.tool_name \in Tools
    BY <1>9 DEF ToolTimesOut, RunInvariant
  <2>2. QED
    BY <1>9, <2>1, AttemptObserved, SynthesisedResults DEF ToolTimesOut
<1>10. CASE ToolRaises
  <2>1. agent.decision.tool_name \in Tools
    BY <1>10 DEF ToolRaises, RunInvariant
  <2>2. QED
    BY <1>10, <2>1, AttemptObserved, SynthesisedResults DEF ToolRaises
<1>11. CASE VerifyResult
  <2> DEFINE verified == Verify(agent.tool_result, agent.decision.arguments,
                                agent.decision.tool_name, scope)
             recorded == Record(agent, VerificationCompleted(verified))
             class == ClassOfAttempt(verified, attempt_class, agent.tool_result)
             evidence == TrustedEvidence(agent.observations, verified)
  <2>1. agent' = [recorded EXCEPT
                    !.verification_result = verified,
                    !.evidence = evidence,
                    !.failure_class = class,
                    !.status = IF verified THEN "completed" ELSE "running"]
    BY <1>11 DEF VerifyResult
  <2>2. /\ recorded.decision = agent.decision
        /\ recorded.tool_result = agent.tool_result
        /\ recorded.observations = agent.observations
    BY <1>1, RecordKeeps
  <2>3. recorded = [agent EXCEPT !.events = recorded.events]
    BY <1>1 DEF Record, AgentState
  <2>4. /\ agent'.decision = agent.decision
        /\ agent'.tool_result = agent.tool_result
        /\ agent'.observations = agent.observations
        /\ agent'.verification_result = verified
    <3> HIDE DEF verified, recorded, class, evidence
    <3>1. QED
      BY <1>1, <2>1, <2>2, <2>3 DEF AgentState
  <2>5. node = "verify_node" /\ scope' = scope /\ response' = response
    BY <1>11 DEF VerifyResult
  <2>6. LastResultIsObserved'
    BY <2>4, <2>5 DEF LastResultIsObserved, RunInvariant
  <2>7. node' = IF verified = TRUE THEN "answer_node" ELSE "recovery_node"
    BY <1>11, <2>4 DEF VerifyResult, AfterVerify
  <2>8. node' = "answer_node" => LastResultIsVerified'
    BY <2>4, <2>5, <2>7 DEF LastResultIsVerified
  <2>9. agent'.decision # None /\ response' = None
    BY <2>4, <2>5 DEF RunInvariant, Nodes
  <2>10. QED
    BY <2>6, <2>7, <2>8, <2>9 DEF RunInvariant, Nodes
<1>12. CASE Recover
  <2> DEFINE action == Decide(agent.attempts, agent.tool_result.retryable)
             marked == [agent EXCEPT !.recovery_decision = action]
             decided == Record(marked, RecoveryDecided(action))
             closed == Record([decided EXCEPT !.status = "needs_human_review"],
                              RunFailed("needs_human_review", agent.failure_class))
  <2>1. action \in RecoveryActions
    BY DEF Decide, RecoveryActions
  <2>2. marked \in AgentState /\ marked.decision = agent.decision
        /\ marked.recovery_decision = action
    BY <1>1, <2>1 DEF AgentState, OrNone
  <2>3. decided \in AgentState
    BY <2>1, <2>2, RecordType, RecoveryDecidedType
  <2>4. decided.decision = agent.decision /\ decided.recovery_decision = action
    BY <2>2, RecordKeeps
  <2>5. CASE action = "retry"
    <3>1. agent' = decided /\ response' = response
      BY <1>12, <2>5 DEF Recover
    <3>2. node' = "tool_node"
      BY <1>12, <2>4, <2>5, <3>1 DEF Recover, AfterRecovery
    <3>3. deadline' = deadline /\ node = "recovery_node"
      BY <1>12 DEF Recover
    <3>4. agent'.decision.tool_name \in Tools
      <4>1. LastResultIsObserved
        BY <3>3 DEF RunInvariant
      <4>2. Last(agent.observations) \in Observation
        BY <4>1, LastObservation DEF LastResultIsObserved
      <4>3. agent.decision.tool_name \in Tools
        BY <4>1, <4>2 DEF LastResultIsObserved, Observation
      <4> HIDE DEF decided, action
      <4>4. QED
        BY <2>4, <3>1, <4>3
    <3>5. QED
      BY <2>4, <3>1, <3>2, <3>3, <3>4 DEF RunInvariant, Nodes
  <2>6. CASE action # "retry"
    <3>1. agent' = closed /\ response' = ReviewResponse
      BY <1>12, <2>6 DEF Recover
    <3>2. [decided EXCEPT !.status = "needs_human_review"] \in AgentState
      BY <2>3 DEF AgentState, Statuses
    <3>3. closed.recovery_decision = action
      <4>1. closed.recovery_decision =
               [decided EXCEPT !.status = "needs_human_review"].recovery_decision
        BY <3>2, RecordKeeps
      <4> HIDE DEF decided, closed, action
      <4>2. QED
        BY <2>3, <2>4, <4>1 DEF AgentState
    <3>4. node' = "end"
      BY <1>12, <2>6, <3>1, <3>3 DEF Recover, AfterRecovery
    <3>5. QED
      BY <3>1, <3>4 DEF RunInvariant, Nodes, ReviewResponse
  <2>7. QED
    BY <2>5, <2>6
<1>13. CASE CallModel
  BY <1>13 DEF CallModel, RunInvariant, LastResultIsObserved, LastResultIsVerified, Nodes
<1>14. CASE ModelAnswers
  BY <1>14 DEF ModelAnswers, RunInvariant, Nodes
<1>15. ASSUME NEW class \in ModelFailures, ModelFails(class) PROVE RunInvariant'
  BY <1>15 DEF ModelFails, RunInvariant, Nodes
<1>16. CASE ModelCrashes
  BY <1>16 DEF ModelCrashes, RunInvariant, Nodes
<1>17. CASE AnswerFromTool
  <2>1. /\ agent'.decision = agent.decision
        /\ agent'.tool_result = agent.tool_result
    BY <1>1, <1>17, RecordKeeps DEF AnswerFromTool
  <2>2. /\ LastResultIsObserved
        /\ LastResultIsVerified
        /\ agent.decision # None
    BY <1>17 DEF AnswerFromTool, RunInvariant, Nodes
  <2>3. LastResultIsVerified'
    BY <1>17, <2>1, <2>2 DEF AnswerFromTool, LastResultIsVerified
  <2>4. response'.about = agent.tool_result.data
    BY <1>17, <2>2
       DEF AnswerFromTool, FormatToolAnswer, LastResultIsObserved, LastResultIsVerified,
           Verify, PolicyTool, WorkOrderTool
  <2>5. node' = "end" /\ agent.tool_result # None
    BY <1>17, <2>2 DEF AnswerFromTool, LastResultIsObserved
  <2>6. QED
    BY <2>1, <2>2, <2>3, <2>4, <2>5 DEF RunInvariant, Nodes
<1>18. CASE Return
  BY <1>18 DEF Return, RunInvariant, LastResultIsVerified, Nodes
<1>19. CASE Raise
  BY <1>19 DEF Raise, RunInvariant, Nodes
<1>20. CASE Cancel
  BY <1>20 DEF Cancel, RunInvariant, Nodes
<1>21. CASE UNCHANGED vars
  BY <1>21 DEF vars, RunInvariant, LastResultIsObserved, LastResultIsVerified
<1>22. QED
  BY <1>2, <1>3, <1>4, <1>5, <1>6, <1>7, <1>8, <1>9, <1>10, <1>11, <1>12, <1>13,
     <1>14, <1>15, <1>16, <1>17, <1>18, <1>19, <1>20, <1>21
  DEF Next, Finished

-----------------------------------------------------------------------------
(* Theorems.                                                               *)

LEMMA InductiveInvariant == Spec => [](TypeOK /\ RunInvariant)
<1>1. Init => TypeOK /\ RunInvariant
  BY InitTypeOK, InitRunInvariant
<1>2. TypeOK /\ RunInvariant /\ [Next]_vars => (TypeOK /\ RunInvariant)'
  BY NextTypeOK, NextRunInvariant
<1>3. QED
  BY <1>1, <1>2, PTL DEF Spec

\* Every variable of a run keeps its type: in particular the nodes after the
\* router always find a decision, and verify_node and recovery_node a result
\* (async_runtime.py:264, 355-357, 394).
THEOREM TypeCorrect == Spec => []TypeOK
BY InductiveInvariant, PTL

\* The invariant that ties the verdict, the last observation and the answer
\* together holds in every run.
THEOREM RunInvariantHolds == Spec => []RunInvariant
BY InductiveInvariant, PTL

\* Whatever the router decides and the tools return, over any number of
\* attempts, a tool answer is about a payload that was asked for, that belongs
\* to the caller's trusted tenant and property, and that is in force
\* (async_runtime.py:349-450, verification.py:19-36).
THEOREM AnswersAreVetted == Spec => []AnswerIsVetted
<1>1. TypeOK /\ RunInvariant => AnswerIsVetted
  <2> SUFFICES ASSUME TypeOK, RunInvariant, node \in {"end", "returned"},
                      response # None, response.source = "tool"
               PROVE  LET data == response.about
                          asked == agent.decision.arguments
                      IN  /\ data # None
                          /\ scope.tenant_id # None /\ data.tenant_id = scope.tenant_id
                          /\ scope.property_id # None /\ data.property_id = scope.property_id
                          /\ agent.decision.tool_name = WorkOrderTool =>
                                /\ data.work_order_id = asked.work_order_id
                                /\ data.status = AllowedStatus
                          /\ agent.decision.tool_name = PolicyTool =>
                                /\ data.issue_type = LowerCase[asked.issue_type]
                                /\ data.issue_type \in AllowedIssueTypes
                                /\ data.terms = AllowedTerms
                                /\ data.effective_at <= data.as_of
                                /\ data.as_of < data.expires_at
    BY DEF AnswerIsVetted
  <2>1. /\ LastResultIsVerified
        /\ response.about = agent.tool_result.data
        /\ agent.tool_result # None
    BY DEF RunInvariant
  <2>2. agent.tool_result \in ToolResult
    BY <2>1 DEF TypeOK, AgentState, OrNone
  <2>3. response.about \in Payload
    BY <2>1, <2>2 DEF ToolResult
  <2>4. response.about # None
    BY <2>3, RunAssumption
  <2>5. QED
    BY <2>1, <2>4
       DEF LastResultIsVerified, Verify, WorkOrderIsValidFor, PolicyIsValidFor,
           WorkOrderRequest, PolicyRequest, InScope, InForce, WorkOrderTool, PolicyTool
<1>2. QED
  BY <1>1, InductiveInvariant, PTL


-----------------------------------------------------------------------------
(* What each step does to the state of the run, field by field.            *)

Appended(event) ==
    agent'.events = Append(agent.events, [event EXCEPT !.order = Len(agent.events)])

LEMMA RecordFields ==
    ASSUME NEW a \in AgentState, NEW event, NEW b, b = Record(a, event)
    PROVE  /\ b.events = Append(a.events, [event EXCEPT !.order = Len(a.events)])
           /\ b.status = a.status /\ b.router_type = a.router_type
           /\ b.decision = a.decision /\ b.tool_result = a.tool_result
           /\ b.verification_result = a.verification_result
           /\ b.attempts = a.attempts /\ b.observations = a.observations
           /\ b.recovery_decision = a.recovery_decision
           /\ b.failure_class = a.failure_class /\ b.evidence = a.evidence
BY DEF Record, AgentState

LEMMA StartFields ==
    ASSUME TypeOK, Start
    PROVE  /\ node = "start" /\ node' = "route_node"
           /\ Appended(RunStarted(agent.router_type))
           /\ agent'.status = "running"
           /\ UNCHANGED <<agent.decision, agent.tool_result, agent.verification_result,
                          agent.attempts, agent.observations, agent.failure_class,
                          agent.evidence, scope, response, pending_error, attempt_class,
                          remembered>>
<1> DEFINE a == [agent EXCEPT !.status = "running"]
<1>1. agent \in AgentState
  BY DEF TypeOK
<1>2. a \in AgentState
  BY <1>1 DEF AgentState, Statuses
<1>3. agent' = Record(a, RunStarted(agent.router_type))
  BY DEF Start
<1>4. /\ a.status = "running" /\ a.events = agent.events
      /\ a.decision = agent.decision /\ a.tool_result = agent.tool_result
      /\ a.verification_result = agent.verification_result
      /\ a.attempts = agent.attempts /\ a.observations = agent.observations
      /\ a.failure_class = agent.failure_class /\ a.evidence = agent.evidence
  BY <1>1 DEF AgentState
<1> HIDE DEF a
<1>5. QED
  BY <1>2, <1>3, <1>4, RecordFields DEF Start, Appended

LEMMA RouteToFields ==
    ASSUME TypeOK, NEW decision \in Decisions, RouteTo(decision)
    PROVE  /\ node = "route_node" /\ node' = AfterRoute(agent', pending_error)
           /\ deadline' = "none"
           /\ Appended(RouteSelected(agent.router_type, decision))
           /\ agent'.decision = decision /\ decision \in AgentDecision
           /\ UNCHANGED <<agent.status, agent.tool_result, agent.verification_result,
                          agent.attempts, agent.observations, agent.failure_class,
                          agent.evidence, scope, response, pending_error, attempt_class,
                          remembered>>
<1> DEFINE a == [agent EXCEPT !.decision = decision]
<1>1. agent \in AgentState /\ decision \in AgentDecision
  BY RunAssumption DEF TypeOK
<1>2. a \in AgentState
  BY <1>1 DEF AgentState, OrNone
<1>3. agent' = Record(a, RouteSelected(agent.router_type, decision))
  BY DEF RouteTo
<1>4. /\ a.status = agent.status /\ a.events = agent.events
      /\ a.decision = decision /\ a.tool_result = agent.tool_result
      /\ a.verification_result = agent.verification_result
      /\ a.attempts = agent.attempts /\ a.observations = agent.observations
      /\ a.failure_class = agent.failure_class /\ a.evidence = agent.evidence
  BY <1>1 DEF AgentState
<1> HIDE DEF a
<1>5. QED
  BY <1>1, <1>2, <1>3, <1>4, RecordFields DEF RouteTo, Appended

\* The decision that a RoutingError brings is recorded before the failure is.
LEMMA RouteFailsFields ==
    ASSUME TypeOK, NEW class \in ModelFailures, NEW decision \in OrNone(RejectedDecisions),
           RouteFails(class, decision)
    PROVE  /\ node = "route_node" /\ node' = "end" /\ pending_error' = class
           /\ class # None
           /\ LET shown == IF decision = None THEN agent.events
                           ELSE Append(agent.events,
                                       [RouteSelected(agent.router_type, decision) EXCEPT
                                          !.order = Len(agent.events)])
              IN  /\ agent'.events = Append(shown, [RunFailed("failed", class) EXCEPT
                                                       !.order = Len(shown)])
                  /\ decision # None => RouteSelected(agent.router_type, decision) \in TraceEvent
           /\ agent'.status = "failed" /\ agent'.failure_class = class
           /\ UNCHANGED <<agent.tool_result, agent.verification_result, agent.attempts,
                          agent.observations, agent.evidence, scope, response,
                          attempt_class, remembered>>
<1> DEFINE a == [agent EXCEPT !.decision = decision]
           routed == Record(a, RouteSelected(agent.router_type, decision))
           seen == IF decision = None THEN agent ELSE routed
           failed == [seen EXCEPT !.status = "failed", !.failure_class = class]
<1>1. agent \in AgentState
  BY DEF TypeOK
<1>2. class \in FailureClasses /\ class # None
  BY RunAssumption DEF FailureClasses
<1>3. decision # None => decision \in AgentDecision
  BY RunAssumption DEF OrNone
<1>4. decision # None => RouteSelected(agent.router_type, decision) \in TraceEvent
  BY <1>1, <1>3, RouteSelectedType DEF AgentState
<1>5. a \in AgentState
  BY <1>1, <1>3 DEF AgentState, OrNone
<1>6. /\ a.events = agent.events /\ a.tool_result = agent.tool_result
      /\ a.verification_result = agent.verification_result
      /\ a.attempts = agent.attempts /\ a.observations = agent.observations
      /\ a.evidence = agent.evidence
  BY <1>1 DEF AgentState
<1>7. agent' = Record(failed, RunFailed("failed", class)) /\ node = "route_node"
      /\ pending_error' = class /\ node' = AfterRoute(agent', pending_error')
      /\ UNCHANGED <<scope, response, attempt_class, remembered>>
  BY DEF RouteFails
<1>8. seen \in AgentState
  <2>1. decision # None => routed \in AgentState
    BY <1>4, <1>5, RecordType
  <2>2. QED
    BY <1>1, <2>1
<1>9. /\ seen.tool_result = agent.tool_result
      /\ seen.verification_result = agent.verification_result
      /\ seen.attempts = agent.attempts /\ seen.observations = agent.observations
      /\ seen.evidence = agent.evidence
      /\ seen.events = IF decision = None THEN agent.events
                       ELSE Append(agent.events,
                                   [RouteSelected(agent.router_type, decision) EXCEPT
                                      !.order = Len(agent.events)])
  <2> HIDE DEF a
  <2>1. CASE decision = None
    BY <2>1
  <2>2. CASE decision # None
    <3>1. seen = Record(a, RouteSelected(agent.router_type, decision))
      BY <2>2
    <3> HIDE DEF seen
    <3>2. QED
      BY <1>5, <1>6, <2>2, <3>1, RecordFields
  <2>3. QED
    BY <2>1, <2>2
<1> HIDE DEF seen
<1>10. failed \in AgentState
  BY <1>2, <1>8 DEF AgentState, Statuses, OrNone
<1>11. /\ failed.status = "failed" /\ failed.failure_class = class
       /\ failed.events = seen.events
       /\ failed.tool_result = seen.tool_result
       /\ failed.verification_result = seen.verification_result
       /\ failed.attempts = seen.attempts /\ failed.observations = seen.observations
       /\ failed.evidence = seen.evidence
  BY <1>8 DEF AgentState
<1> HIDE DEF failed
<1>12. /\ agent'.events = Append(seen.events, [RunFailed("failed", class) EXCEPT
                                                  !.order = Len(seen.events)])
       /\ agent'.status = "failed" /\ agent'.failure_class = class
       /\ UNCHANGED <<agent.tool_result, agent.verification_result, agent.attempts,
                      agent.observations, agent.evidence>>
  <2>1. agent' = Record(failed, RunFailed("failed", class))
    BY <1>7
  <2>2. /\ agent'.events = Append(failed.events, [RunFailed("failed", class) EXCEPT
                                                    !.order = Len(failed.events)])
        /\ agent'.status = failed.status /\ agent'.failure_class = failed.failure_class
        /\ agent'.tool_result = failed.tool_result
        /\ agent'.verification_result = failed.verification_result
        /\ agent'.attempts = failed.attempts /\ agent'.observations = failed.observations
        /\ agent'.evidence = failed.evidence
    BY <1>10, <2>1, RecordFields
  <2>3. QED
    BY <1>9, <1>11, <2>2
<1>13. node' = "end"
  BY <1>2, <1>7, Zenon DEF AfterRoute
<1>14. QED
  BY <1>2, <1>4, <1>7, <1>9, <1>12, <1>13

LEMMA ToolMissingFields ==
    ASSUME TypeOK, ToolMissing
    PROVE  /\ node = "tool_node" /\ node' = "end" /\ response' = ReviewResponse
           /\ agent.decision.tool_name \notin Tools
           /\ Appended(RunFailed("needs_human_review", "tool_error"))
           /\ agent'.status = "needs_human_review" /\ agent'.failure_class = "tool_error"
           /\ UNCHANGED <<agent.decision, agent.tool_result, agent.verification_result,
                          agent.attempts, agent.observations, agent.evidence, scope,
                          pending_error, deadline, remembered>>
<1> DEFINE a == [agent EXCEPT !.status = "needs_human_review", !.failure_class = "tool_error"]
<1>1. agent \in AgentState
  BY DEF TypeOK
<1>2. a \in AgentState
  BY <1>1 DEF AgentState, Statuses, FailureClasses, ToolFailures, OrNone
<1>3. agent' = Record(a, RunFailed("needs_human_review", "tool_error"))
  BY DEF ToolMissing, ToolMissingFrom
<1>4. /\ a.status = "needs_human_review" /\ a.failure_class = "tool_error"
      /\ a.events = agent.events
      /\ a.decision = agent.decision /\ a.tool_result = agent.tool_result
      /\ a.verification_result = agent.verification_result
      /\ a.attempts = agent.attempts /\ a.observations = agent.observations
      /\ a.evidence = agent.evidence
  BY <1>1 DEF AgentState
<1> HIDE DEF a
<1>5. /\ agent'.events = Append(agent.events,
                                [RunFailed("needs_human_review", "tool_error") EXCEPT
                                   !.order = Len(agent.events)])
      /\ agent'.status = "needs_human_review" /\ agent'.failure_class = "tool_error"
      /\ UNCHANGED <<agent.decision, agent.tool_result, agent.verification_result,
                     agent.attempts, agent.observations, agent.evidence>>
  BY <1>2, <1>3, <1>4, RecordFields
<1>6. /\ node = "tool_node" /\ agent.decision.tool_name \notin Tools
      /\ node' = AfterTool(agent') /\ response' = ReviewResponse
      /\ UNCHANGED <<deadline, scope, pending_error, remembered>>
  BY DEF ToolMissing, ToolMissingFrom
<1>7. node' = "end"
  BY <1>5, <1>6 DEF AfterTool
<1>8. QED
  BY <1>5, <1>6, <1>7 DEF Appended

LEMMA CallToolFields ==
    ASSUME TypeOK, CallTool
    PROVE  /\ node = "tool_node" /\ deadline = "none" /\ deadline' = "open"
           /\ agent.decision.tool_name \in Tools
           /\ Appended(ToolStarted(agent.decision.tool_name, agent.attempts + 1))
           /\ UNCHANGED <<node, agent.status, agent.decision, agent.tool_result,
                          agent.verification_result, agent.attempts, agent.observations,
                          agent.failure_class, agent.evidence, scope, response,
                          pending_error, attempt_class, remembered>>
<1>1. agent \in AgentState
  BY DEF TypeOK
<1>2. agent' = Record(agent, ToolStarted(agent.decision.tool_name, agent.attempts + 1))
  BY DEF CallTool, CallToolFrom
<1>3. QED
  BY <1>1, <1>2, RecordFields DEF CallTool, CallToolFrom, Appended

LEMMA AttemptFields ==
    ASSUME TypeOK, NEW result \in ToolResult, NEW class \in OrNone(ToolFailures),
           agent.decision.tool_name \in Tools, AttemptEnds(result, class)
    PROVE  /\ node' = IF agent.status = "needs_human_review" THEN "end" ELSE "verify_node"
           /\ deadline' = "none" /\ attempt_class' = class
           /\ Appended(ToolEvent(agent.decision.tool_name, result, class, agent.attempts + 1))
           /\ agent'.attempts = agent.attempts + 1
           /\ agent'.tool_result = result
           /\ agent'.observations = Append(agent.observations,
                                           [tool_name |-> agent.decision.tool_name,
                                            success |-> result.success,
                                            data |-> result.data])
           /\ UNCHANGED <<agent.status, agent.decision, agent.verification_result,
                          agent.failure_class, agent.evidence, scope, response,
                          pending_error, remembered>>
<1> DEFINE event == ToolEvent(agent.decision.tool_name, result, class, agent.attempts + 1)
           recorded == Record(agent, event)
           observations == Append(agent.observations,
                                  [tool_name |-> agent.decision.tool_name,
                                   success |-> result.success, data |-> result.data])
<1>1. agent \in AgentState /\ agent.attempts + 1 \in Nat
  BY DEF TypeOK, AgentState
<1>2. event \in TraceEvent
  BY <1>1, ToolEventType, RunAssumption DEF OrNone
<1>3. recorded \in AgentState
  BY <1>1, <1>2, RecordType
<1>4. agent' = [recorded EXCEPT !.attempts = agent.attempts + 1, !.tool_result = result,
                                !.observations = observations]
  BY DEF AttemptEnds
<1> HIDE DEF event, observations
<1>5. /\ recorded.events = Append(agent.events, [event EXCEPT !.order = Len(agent.events)])
      /\ recorded.status = agent.status /\ recorded.decision = agent.decision
      /\ recorded.verification_result = agent.verification_result
      /\ recorded.failure_class = agent.failure_class /\ recorded.evidence = agent.evidence
  BY <1>1, RecordFields
<1> HIDE DEF recorded
<1>6. /\ agent'.attempts = agent.attempts + 1 /\ agent'.tool_result = result
      /\ agent'.observations = observations
      /\ agent'.events = recorded.events
      /\ agent'.status = recorded.status /\ agent'.decision = recorded.decision
      /\ agent'.verification_result = recorded.verification_result
      /\ agent'.failure_class = recorded.failure_class
      /\ agent'.evidence = recorded.evidence
  BY <1>3, <1>4 DEF AgentState
<1>7. /\ node' = AfterTool(agent') /\ deadline' = "none" /\ attempt_class' = class
      /\ UNCHANGED <<scope, response, pending_error, remembered>>
  BY DEF AttemptEnds
<1>8. QED
  BY <1>5, <1>6, <1>7 DEF Appended, event, observations, AfterTool

Verdict == Verify(agent.tool_result, agent.decision.arguments, agent.decision.tool_name, scope)

LEMMA VerifyFields ==
    ASSUME TypeOK, VerifyResult
    PROVE  /\ node = "verify_node"
           /\ node' = IF Verdict THEN "answer_node" ELSE "recovery_node"
           /\ Appended(VerificationCompleted(Verdict))
           /\ Verdict \in BOOLEAN
           /\ agent'.verification_result = Verdict
           /\ agent'.evidence = TrustedEvidence(agent.observations, Verdict)
           /\ agent'.failure_class = ClassOfAttempt(Verdict, attempt_class, agent.tool_result)
           /\ agent'.status = IF Verdict THEN "completed" ELSE "running"
           /\ UNCHANGED <<agent.decision, agent.tool_result, agent.attempts,
                          agent.observations, deadline, scope, response, pending_error,
                          attempt_class, remembered>>
<1> DEFINE event == VerificationCompleted(Verdict)
           recorded == Record(agent, event)
           evidence == TrustedEvidence(agent.observations, Verdict)
           class == ClassOfAttempt(Verdict, attempt_class, agent.tool_result)
           status == IF Verdict THEN "completed" ELSE "running"
<1>1. agent \in AgentState /\ Verdict \in BOOLEAN
  BY VerdictType DEF TypeOK, Verdict
<1>2. recorded \in AgentState
  BY <1>1, RecordType, VerificationCompletedType
<1>3. agent' = [recorded EXCEPT !.verification_result = Verdict, !.evidence = evidence,
                                !.failure_class = class, !.status = status]
  BY DEF VerifyResult, Verdict
<1>4. /\ node = "verify_node" /\ node' = AfterVerify(agent')
      /\ UNCHANGED <<deadline, scope, response, pending_error, attempt_class, remembered>>
  BY DEF VerifyResult
<1> HIDE DEF event, evidence, class, status, Verdict
<1>5. /\ recorded.events = Append(agent.events, [event EXCEPT !.order = Len(agent.events)])
      /\ recorded.decision = agent.decision /\ recorded.tool_result = agent.tool_result
      /\ recorded.attempts = agent.attempts /\ recorded.observations = agent.observations
  BY <1>1, RecordFields
<1> HIDE DEF recorded
<1>6. /\ agent'.verification_result = Verdict /\ agent'.evidence = evidence
      /\ agent'.failure_class = class /\ agent'.status = status
      /\ agent'.events = recorded.events
      /\ agent'.decision = recorded.decision /\ agent'.tool_result = recorded.tool_result
      /\ agent'.attempts = recorded.attempts /\ agent'.observations = recorded.observations
  BY <1>2, <1>3 DEF AgentState
<1>7. node' = IF Verdict THEN "answer_node" ELSE "recovery_node"
  BY <1>1, <1>4, <1>6 DEF AfterVerify
<1>8. QED
  BY <1>1, <1>4, <1>5, <1>6, <1>7 DEF Appended, event, evidence, class, status

RecoveryAction == Decide(agent.attempts, agent.tool_result.retryable)

LEMMA RecoverFields ==
    ASSUME TypeOK, Recover
    PROVE  /\ node = "recovery_node"
           /\ RecoveryAction \in RecoveryActions
           /\ agent'.recovery_decision = RecoveryAction
           /\ RecoveryAction = "retry" =>
                 /\ node' = "tool_node"
                 /\ Appended(RecoveryDecided("retry"))
                 /\ response' = response /\ agent'.status = agent.status
           /\ RecoveryAction # "retry" =>
                 /\ node' = "end" /\ response' = ReviewResponse
                 /\ agent'.status = "needs_human_review"
                 /\ LET shown == Append(agent.events, [RecoveryDecided(RecoveryAction) EXCEPT
                                                          !.order = Len(agent.events)])
                    IN  agent'.events =
                           Append(shown, [RunFailed("needs_human_review", agent.failure_class)
                                            EXCEPT !.order = Len(shown)])
           /\ UNCHANGED <<agent.decision, agent.tool_result, agent.verification_result,
                          agent.attempts, agent.observations, agent.failure_class,
                          agent.evidence, deadline, scope, pending_error, attempt_class,
                          remembered>>
<1> DEFINE a == [agent EXCEPT !.recovery_decision = RecoveryAction]
           decided == Record(a, RecoveryDecided(RecoveryAction))
           b == [decided EXCEPT !.status = "needs_human_review"]
           closing == RunFailed("needs_human_review", agent.failure_class)
<1>1. agent \in AgentState /\ RecoveryAction \in RecoveryActions
  BY DEF TypeOK, RecoveryAction, Decide, RecoveryActions
<1>2. /\ node = "recovery_node" /\ node' = AfterRecovery(agent')
      /\ RecoveryAction = "retry" => agent' = decided /\ response' = response
      /\ RecoveryAction # "retry" => agent' = Record(b, closing) /\ response' = ReviewResponse
      /\ UNCHANGED <<deadline, scope, pending_error, attempt_class, remembered>>
  BY DEF Recover, RecoveryAction
<1> HIDE DEF RecoveryAction
<1>3. a \in AgentState
  BY <1>1 DEF AgentState, OrNone
<1>4. /\ a.recovery_decision = RecoveryAction /\ a.events = agent.events
      /\ a.status = agent.status
      /\ a.decision = agent.decision /\ a.tool_result = agent.tool_result
      /\ a.verification_result = agent.verification_result
      /\ a.attempts = agent.attempts /\ a.observations = agent.observations
      /\ a.failure_class = agent.failure_class /\ a.evidence = agent.evidence
  BY <1>1 DEF AgentState
<1> HIDE DEF a
<1>5. decided \in AgentState
  BY <1>1, <1>3, RecordType, RecoveryDecidedType
<1>6. /\ decided.recovery_decision = RecoveryAction /\ decided.status = agent.status
      /\ decided.events = Append(agent.events, [RecoveryDecided(RecoveryAction) EXCEPT
                                                   !.order = Len(agent.events)])
      /\ decided.decision = agent.decision /\ decided.tool_result = agent.tool_result
      /\ decided.verification_result = agent.verification_result
      /\ decided.attempts = agent.attempts /\ decided.observations = agent.observations
      /\ decided.failure_class = agent.failure_class /\ decided.evidence = agent.evidence
  BY <1>3, <1>4, RecordFields
<1> HIDE DEF decided
<1>7. CASE RecoveryAction = "retry"
  <2>1. agent' = decided /\ response' = response
    BY <1>2, <1>7
  <2>2. node' = "tool_node"
    BY <1>2, <1>6, <1>7, <2>1 DEF AfterRecovery
  <2>3. QED
    BY <1>1, <1>2, <1>6, <1>7, <2>1, <2>2 DEF Appended
<1>8. CASE RecoveryAction # "retry"
  <2>1. b \in AgentState
    BY <1>5 DEF AgentState, Statuses
  <2>2. /\ b.recovery_decision = decided.recovery_decision
        /\ b.events = decided.events /\ b.status = "needs_human_review"
        /\ b.decision = decided.decision /\ b.tool_result = decided.tool_result
        /\ b.verification_result = decided.verification_result
        /\ b.attempts = decided.attempts /\ b.observations = decided.observations
        /\ b.failure_class = decided.failure_class /\ b.evidence = decided.evidence
    BY <1>5 DEF AgentState
  <2> HIDE DEF b, closing
  <2>3. agent' = Record(b, closing) /\ response' = ReviewResponse
    BY <1>2, <1>8
  <2>4. /\ agent'.recovery_decision = b.recovery_decision
        /\ agent'.events = Append(b.events, [closing EXCEPT !.order = Len(b.events)])
        /\ agent'.status = b.status
        /\ agent'.decision = b.decision /\ agent'.tool_result = b.tool_result
        /\ agent'.verification_result = b.verification_result
        /\ agent'.attempts = b.attempts /\ agent'.observations = b.observations
        /\ agent'.failure_class = b.failure_class /\ agent'.evidence = b.evidence
    BY <2>1, <2>3, RecordFields
  <2>5. /\ agent'.recovery_decision = RecoveryAction
        /\ agent'.events = Append(decided.events, [closing EXCEPT !.order = Len(decided.events)])
        /\ agent'.status = "needs_human_review"
        /\ UNCHANGED <<agent.decision, agent.tool_result, agent.verification_result,
                       agent.attempts, agent.observations, agent.failure_class, agent.evidence>>
    BY <1>6, <2>2, <2>4
  <2>6. node' = "end"
    BY <1>2, <1>8, <2>5 DEF AfterRecovery
  <2>7. QED
    BY <1>1, <1>2, <1>6, <1>8, <2>3, <2>5, <2>6 DEF closing
<1>9. QED
  BY <1>7, <1>8

LEMMA ModelAnswersFields ==
    ASSUME TypeOK, ModelAnswers
    PROVE  /\ node = "answer_node" /\ node' = "end" /\ agent.decision.action = "direct"
           /\ response' = [source |-> "model", about |-> None]
           /\ Appended(RunCompleted)
           /\ agent'.status = "completed"
           /\ UNCHANGED <<agent.decision, agent.tool_result, agent.verification_result,
                          agent.attempts, agent.observations, agent.failure_class,
                          agent.evidence, scope, pending_error, attempt_class, remembered>>
<1> DEFINE a == [agent EXCEPT !.status = "completed"]
<1>1. agent \in AgentState
  BY DEF TypeOK
<1>2. a \in AgentState
  BY <1>1 DEF AgentState, Statuses
<1>3. agent' = Record(a, RunCompleted)
  BY DEF ModelAnswers
<1>4. /\ a.status = "completed" /\ a.events = agent.events
      /\ a.decision = agent.decision /\ a.tool_result = agent.tool_result
      /\ a.verification_result = agent.verification_result
      /\ a.attempts = agent.attempts /\ a.observations = agent.observations
      /\ a.failure_class = agent.failure_class /\ a.evidence = agent.evidence
  BY <1>1 DEF AgentState
<1> HIDE DEF a
<1>5. /\ Appended(RunCompleted)
      /\ agent'.status = "completed"
      /\ UNCHANGED <<agent.decision, agent.tool_result, agent.verification_result,
                     agent.attempts, agent.observations, agent.failure_class,
                     agent.evidence>>
  BY <1>2, <1>3, <1>4, RecordFields DEF Appended
<1>6. QED
  BY <1>5 DEF ModelAnswers

LEMMA ModelFailsFields ==
    ASSUME TypeOK, NEW class \in ModelFailures, ModelFails(class)
    PROVE  /\ node = "answer_node" /\ node' = "end" /\ agent.decision.action = "direct"
           /\ pending_error' = class /\ class # None
           /\ Appended(RunFailed("failed", class))
           /\ agent'.status = "failed" /\ agent'.failure_class = class
           /\ UNCHANGED <<agent.decision, agent.tool_result, agent.verification_result,
                          agent.attempts, agent.observations, agent.evidence, scope,
                          response, attempt_class, remembered>>
<1> DEFINE recorded == Record(agent, RunFailed("failed", class))
<1>1. agent \in AgentState /\ class \in FailureClasses /\ class # None
  BY RunAssumption DEF TypeOK, FailureClasses
<1>2. recorded \in AgentState
  BY <1>1, RecordType, TerminalEventType DEF Statuses, OrNone
<1>3. agent' = [recorded EXCEPT !.status = "failed", !.failure_class = class]
  BY DEF ModelFails
<1>4. /\ recorded.events = Append(agent.events, [RunFailed("failed", class) EXCEPT
                                                    !.order = Len(agent.events)])
      /\ recorded.decision = agent.decision /\ recorded.tool_result = agent.tool_result
      /\ recorded.verification_result = agent.verification_result
      /\ recorded.attempts = agent.attempts /\ recorded.observations = agent.observations
      /\ recorded.evidence = agent.evidence
  BY <1>1, RecordFields
<1> HIDE DEF recorded
<1>5. /\ agent'.status = "failed" /\ agent'.failure_class = class
      /\ agent'.events = recorded.events
      /\ agent'.decision = recorded.decision /\ agent'.tool_result = recorded.tool_result
      /\ agent'.verification_result = recorded.verification_result
      /\ agent'.attempts = recorded.attempts /\ agent'.observations = recorded.observations
      /\ agent'.evidence = recorded.evidence
  BY <1>2, <1>3 DEF AgentState
<1>6. /\ node = "answer_node" /\ node' = "end" /\ agent.decision.action = "direct"
      /\ pending_error' = class
      /\ UNCHANGED <<scope, response, attempt_class, remembered>>
  BY DEF ModelFails
<1>7. QED
  BY <1>1, <1>4, <1>5, <1>6 DEF Appended

LEMMA AnswerFromToolFields ==
    ASSUME TypeOK, AnswerFromTool
    PROVE  /\ node = "answer_node" /\ node' = "end" /\ agent.decision.action = "use_tool"
           /\ response' = FormatToolAnswer(Last(agent.observations))
           /\ Appended(RunCompleted)
           /\ UNCHANGED <<agent.status, agent.decision, agent.tool_result,
                          agent.verification_result, agent.attempts, agent.observations,
                          agent.failure_class, agent.evidence, deadline, scope,
                          pending_error, attempt_class, remembered>>
<1>1. agent \in AgentState
  BY DEF TypeOK
<1>2. agent' = Record(agent, RunCompleted)
  BY DEF AnswerFromTool
<1>3. /\ Appended(RunCompleted)
      /\ UNCHANGED <<agent.status, agent.decision, agent.tool_result,
                     agent.verification_result, agent.attempts, agent.observations,
                     agent.failure_class, agent.evidence>>
  BY <1>1, <1>2, RecordFields DEF Appended
<1>4. QED
  BY <1>3 DEF AnswerFromTool

\* The steps that leave the state of the run alone.
QuietStep ==
    DeadlinePasses \/ CallModel \/ ModelCrashes \/ Return \/ Raise \/ Cancel \/ UNCHANGED vars

LEMMA QuietStepFields ==
    ASSUME QuietStep
    PROVE  UNCHANGED <<agent, scope, response, attempt_class>>
BY DEF QuietStep, DeadlinePasses, CallModel, ModelCrashes, Return, Raise, Cancel, vars

\* A tool call that ends, whichever way.
ToolCallEnds ==
    \/ \E result \in Results : ToolReturns(result)
    \/ ToolTimesOut
    \/ ToolRaises

\* What the call left behind: a result of the tool's own or a synthesised one.
AttemptLeaves(result, class) ==
    \/ result \in Results /\ class = None
    \/ result = FailureResult("tool_timeout", TRUE) /\ class = "tool_timeout"
    \/ result = FailureResult("tool_error", FALSE) /\ class = "tool_error"

LEMMA ToolCallOutcome ==
    ASSUME TypeOK, RunInvariant, ToolCallEnds
    PROVE  /\ node = "tool_node" /\ deadline # "none" /\ agent.decision.tool_name \in Tools
           /\ \E result \in ToolResult, class \in OrNone(ToolFailures) :
                 AttemptLeaves(result, class) /\ AttemptEnds(result, class)
<1>1. node = "tool_node" /\ deadline # "none"
  BY DEF ToolCallEnds, ToolReturns, ToolTimesOut, ToolRaises
<1>2. agent.decision.tool_name \in Tools
  BY <1>1 DEF RunInvariant
<1>3. {None, "tool_timeout", "tool_error"} \subseteq OrNone(ToolFailures)
  BY DEF OrNone, ToolFailures
<1>4. ASSUME NEW result \in Results, ToolReturns(result)
      PROVE  AttemptEnds(result, None) /\ AttemptLeaves(result, None) /\ result \in ToolResult
  BY <1>4, RunAssumption DEF ToolReturns, AttemptLeaves
<1>5. ASSUME ToolTimesOut
      PROVE  /\ AttemptEnds(FailureResult("tool_timeout", TRUE), "tool_timeout")
             /\ AttemptLeaves(FailureResult("tool_timeout", TRUE), "tool_timeout")
             /\ FailureResult("tool_timeout", TRUE) \in ToolResult
  BY <1>5, SynthesisedResults, Zenon DEF ToolTimesOut, AttemptLeaves
<1>6. ASSUME ToolRaises
      PROVE  /\ AttemptEnds(FailureResult("tool_error", FALSE), "tool_error")
             /\ AttemptLeaves(FailureResult("tool_error", FALSE), "tool_error")
             /\ FailureResult("tool_error", FALSE) \in ToolResult
  BY <1>6, SynthesisedResults, Zenon DEF ToolRaises, AttemptLeaves
<1>7. QED
  BY <1>1, <1>2, <1>3, <1>4, <1>5, <1>6 DEF ToolCallEnds

\* Every step is one of these.
LEMMA StepKinds ==
    ASSUME [Next]_vars
    PROVE  \/ Start
           \/ \E decision \in Decisions : RouteTo(decision)
           \/ \E class \in ModelFailures, decision \in OrNone(RejectedDecisions) :
                 RouteFails(class, decision)
           \/ ToolMissing \/ CallTool \/ ToolCallEnds
           \/ VerifyResult \/ Recover
           \/ ModelAnswers \/ \E class \in ModelFailures : ModelFails(class)
           \/ AnswerFromTool
           \/ QuietStep
BY DEF Next, Finished, QuietStep, ToolCallEnds

-----------------------------------------------------------------------------
(* The attempts.  A run has attempts only if its tool is one of the        *)
(* registry, it goes back to tool_node only when the last result is        *)
(* retryable, did not verify and is within the budget, and a run that has  *)
(* made an attempt no longer raises.                                       *)

RunUnderWay == node \in {"start"} \cup Nodes

AttemptsAccounted ==
    /\ Len(agent.observations) = agent.attempts
    /\ agent.attempts <= CallBudget
    /\ agent.attempts > 0 =>
          /\ pending_error = None
          /\ agent.decision.action = "use_tool"
          /\ agent.decision.tool_name \in Tools
    /\ node \in {"start", "route_node"} => agent.attempts = 0
    /\ node \in {"verify_node", "recovery_node"} => agent.attempts > 0
    /\ node \in {"tool_node", "verify_node", "recovery_node"} =>
          agent.decision.action = "use_tool"
    /\ node = "answer_node" =>
          \/ agent.decision.action = "direct" /\ agent.status = "running"
          \/ /\ agent.decision.action = "use_tool" /\ agent.attempts > 0
             /\ agent.status = "completed"
    /\ node = "tool_node" /\ agent.attempts > 0 =>
          /\ agent.tool_result # None /\ agent.tool_result.retryable
          /\ agent.verification_result = FALSE
          /\ agent.attempts < MaxAttempts
    /\ node = "recovery_node" => agent.verification_result = FALSE
    /\ node \in Nodes \ {"answer_node"} => agent.status = "running"
    /\ RunUnderWay => pending_error = None

LEMMA StateTypes ==
    ASSUME TypeOK
    PROVE  /\ agent.attempts \in Nat /\ agent.events \in Seq(TraceEvent)
           /\ Len(agent.events) \in Nat
           /\ agent.observations \in Seq(Observation)
           /\ agent.decision \in OrNone(AgentDecision)
           /\ agent.tool_result \in OrNone(ToolResult)
           /\ agent.failure_class \in OrNone(FailureClasses)
           /\ agent.status \in Statuses
BY DEF TypeOK, AgentState

\* RecoveryPolicy.decide grants a retry only for what is retryable within the budget.
LEMMA RetryIsEarned ==
    ASSUME NEW attempt, NEW retryable, Decide(attempt, retryable) = "retry"
    PROVE  retryable /\ attempt < MaxAttempts
<1>1. CASE retryable /\ attempt < MaxAttempts
  BY <1>1
<1>2. CASE ~(retryable /\ attempt < MaxAttempts)
  BY <1>2, Zenon DEF Decide
<1>3. QED
  BY <1>1, <1>2

LEMMA NextAttempts ==
    TypeOK /\ RunInvariant /\ AttemptsAccounted /\ [Next]_vars => AttemptsAccounted'
<1> SUFFICES ASSUME TypeOK, RunInvariant, AttemptsAccounted, [Next]_vars
             PROVE  AttemptsAccounted'
  OBVIOUS
<1> USE DEF AttemptsAccounted, RunUnderWay, Nodes
<1>0. /\ agent.attempts \in Nat /\ MaxAttempts \in Nat /\ CallBudget \in Nat
      /\ CallBudget >= 1 /\ CallBudget >= MaxAttempts
  BY StateTypes, RunAssumption DEF CallBudget
<1>1. CASE Start
  BY <1>0, <1>1, StartFields
<1>2. ASSUME NEW decision \in Decisions, RouteTo(decision)
      PROVE  AttemptsAccounted'
  <2>1. /\ node = "route_node" /\ agent'.decision = decision
        /\ node' = AfterRoute(agent', pending_error)
        /\ UNCHANGED <<agent.status, agent.attempts, agent.observations, pending_error>>
        /\ decision.action \in {"direct", "use_tool"}
    BY <1>2, RouteToFields DEF AgentDecision
  <2>2. node' = IF decision.action = "direct" THEN "answer_node" ELSE "tool_node"
    BY <2>1 DEF AfterRoute
  <2>3. QED
    BY <1>0, <2>1, <2>2
<1>3. ASSUME NEW class \in ModelFailures, NEW decision \in OrNone(RejectedDecisions),
             RouteFails(class, decision)
      PROVE  AttemptsAccounted'
  <2>1. /\ node = "route_node" /\ node' = "end"
        /\ UNCHANGED <<agent.attempts, agent.observations>>
    BY <1>3, RouteFailsFields
  <2>2. QED
    BY <1>0, <2>1
<1>4. CASE ToolMissing
  BY <1>0, <1>4, ToolMissingFields
<1>5. CASE CallTool
  BY <1>0, <1>5, CallToolFields
<1>6. CASE ToolCallEnds
  <2>1. PICK result \in ToolResult, class \in OrNone(ToolFailures) : AttemptEnds(result, class)
    BY <1>6, ToolCallOutcome
  <2>2. /\ node = "tool_node" /\ agent.decision.tool_name \in Tools
    BY <1>6, ToolCallOutcome
  <2>3. /\ node' = "verify_node"
        /\ agent'.attempts = agent.attempts + 1
        /\ UNCHANGED <<agent.status, agent.decision, pending_error>>
    BY <2>1, <2>2, AttemptFields
  <2>4. Len(agent'.observations) = agent.attempts + 1
    <3>1. [tool_name |-> agent.decision.tool_name, success |-> result.success,
           data |-> result.data] \in Observation
      BY <2>2 DEF Observation, ToolResult
    <3>2. QED
      BY <2>1, <2>2, <3>1, AttemptFields, StateTypes
  <2>5. agent.attempts + 1 <= CallBudget
    BY <1>0, <2>2
  <2>6. QED
    BY <1>0, <2>2, <2>3, <2>4, <2>5
<1>7. CASE VerifyResult
  BY <1>0, <1>7, VerifyFields
<1>8. CASE Recover
  <2>1. agent.tool_result # None
    BY <1>8 DEF Recover, RunInvariant, LastResultIsObserved
  <2>2. /\ node = "recovery_node" /\ node' \in {"tool_node", "end"}
        /\ node' = "tool_node" => RecoveryAction = "retry" /\ agent'.status = agent.status
        /\ UNCHANGED <<agent.decision, agent.attempts, agent.observations, pending_error,
                       agent.tool_result, agent.verification_result>>
    BY <1>8, RecoverFields
  <2>3. RecoveryAction = "retry" => agent.tool_result.retryable /\ agent.attempts < MaxAttempts
    BY RetryIsEarned, Zenon DEF RecoveryAction
  <2>4. QED
    BY <1>0, <2>1, <2>2, <2>3
<1>9. CASE ModelAnswers
  BY <1>0, <1>9, ModelAnswersFields
<1>10. ASSUME NEW class \in ModelFailures, ModelFails(class)
       PROVE  AttemptsAccounted'
  BY <1>0, <1>10, ModelFailsFields
<1>11. CASE AnswerFromTool
  BY <1>0, <1>11, AnswerFromToolFields
<1>12. CASE QuietStep
  BY <1>0, <1>12, QuietStepFields
     DEF QuietStep, DeadlinePasses, CallModel, ModelCrashes, Return, Raise, Cancel, vars, Endings
<1>13. QED
  BY <1>1, <1>2, <1>3, <1>4, <1>5, <1>6, <1>7, <1>8, <1>9, <1>10, <1>11, <1>12, StepKinds

-----------------------------------------------------------------------------
(* The verdict, the evidence and the answer.                               *)

EvidenceOf(data) == << [tool_name |-> agent.decision.tool_name, data |-> WithoutScope(data)] >>

EvidenceAccounted ==
    /\ agent.evidence # <<>> =>
          /\ agent.verification_result = TRUE
          /\ agent.evidence[1].data.tenant_id = None
          /\ agent.evidence[1].data.property_id = None
    /\ agent.attempts = 0 => agent.verification_result = None
    /\ node = "answer_node" /\ agent.decision.action = "use_tool" =>
          /\ agent.verification_result = TRUE
          /\ agent.evidence = EvidenceOf(agent.tool_result.data)
    /\ node \in {"end", "returned"} /\ response # None /\ response.source = "tool" =>
          /\ agent.decision.action = "use_tool"
          /\ agent.attempts > 0
          /\ agent.verification_result = TRUE
          /\ agent.status = "completed"
          /\ agent.evidence = EvidenceOf(response.about)
    /\ node \in {"end", "returned"} /\ response # None /\ response.source = "model" =>
          /\ agent.decision # None /\ agent.decision.action = "direct"
          /\ agent.status = "completed"
    /\ node \in {"end", "returned"} /\ response # None /\ response.source = "review" =>
          agent.status = "needs_human_review"
    /\ node \in {"end", "returned"} /\ pending_error = None => response # None
    /\ node = "returned" => pending_error = None
    /\ remembered <=> node = "returned"

\* What the verifier lets through becomes evidence without the caller's scope.
LEMMA TrustedEvidenceIs ==
    ASSUME TypeOK, LastResultIsObserved, NEW verified \in BOOLEAN,
           verified => agent.tool_result.success
    PROVE  TrustedEvidence(agent.observations, verified) =
               IF verified THEN EvidenceOf(agent.tool_result.data) ELSE <<>>
BY DEF TrustedEvidence, LastResultIsObserved, EvidenceOf

LEMMA EvidenceHasNoScope ==
    ASSUME NEW data \in Payload
    PROVE  /\ EvidenceOf(data) # <<>>
           /\ EvidenceOf(data)[1].data.tenant_id = None
           /\ EvidenceOf(data)[1].data.property_id = None
<1>1. WithoutScope(data).tenant_id = None /\ WithoutScope(data).property_id = None
  BY DEF WithoutScope, Payload
<1> HIDE DEF WithoutScope
<1>2. QED
  BY <1>1 DEF EvidenceOf

LEMMA ResponsesDiffer ==
    /\ ReviewResponse # None /\ ReviewResponse.source = "review"
    /\ [source |-> "model", about |-> None] # None
    /\ \A observation \in Observation :
          /\ FormatToolAnswer(observation) # None
          /\ FormatToolAnswer(observation).source = "tool"
<1>1. ReviewResponse \in Response
  BY DEF ReviewResponse, Response, OrNone
<1>2. [source |-> "model", about |-> None] \in Response
  BY DEF Response, OrNone
<1>3. \A observation \in Observation : FormatToolAnswer(observation) \in Response
  BY DEF Response, OrNone, FormatToolAnswer, Observation
<1>4. QED
  BY <1>1, <1>2, <1>3, RunAssumption DEF ReviewResponse, FormatToolAnswer

LEMMA NextEvidence ==
    TypeOK /\ RunInvariant /\ AttemptsAccounted /\ EvidenceAccounted /\ [Next]_vars
        => EvidenceAccounted'
<1> SUFFICES ASSUME TypeOK, RunInvariant, AttemptsAccounted, EvidenceAccounted, [Next]_vars
             PROVE  EvidenceAccounted'
  OBVIOUS
<1>0. /\ agent.attempts \in Nat
      /\ node \in {"start"} \cup Nodes => response = None /\ pending_error = None
      /\ RunInvariant' /\ TypeOK'
  BY StateTypes, NextRunInvariant, NextTypeOK DEF RunInvariant, AttemptsAccounted, RunUnderWay
<1>1. CASE Start
  BY <1>0, <1>1, StartFields DEF EvidenceAccounted, AttemptsAccounted
<1>2. ASSUME NEW decision \in Decisions, RouteTo(decision)
      PROVE  EvidenceAccounted'
  <2>1. /\ node = "route_node" /\ agent.attempts = 0 /\ agent'.decision = decision
        /\ node' = AfterRoute(agent', pending_error)
        /\ pending_error = None /\ response' = None
        /\ UNCHANGED <<agent.status, agent.attempts, agent.evidence,
                       agent.verification_result, remembered>>
        /\ agent.status = "running" /\ decision.action \in {"direct", "use_tool"}
    BY <1>0, <1>2, RouteToFields DEF AttemptsAccounted, AgentDecision, Nodes
  <2>2. node' = IF decision.action = "direct" THEN "answer_node" ELSE "tool_node"
    BY <2>1 DEF AfterRoute
  <2>3. ~remembered /\ agent.verification_result = None
    BY <2>1 DEF EvidenceAccounted
  <2>4. node' = "answer_node" => agent'.decision.action = "direct"
    BY <2>1, <2>2
  <2>5. QED
    BY <2>1, <2>2, <2>3, <2>4 DEF EvidenceAccounted
<1>3. ASSUME NEW class \in ModelFailures, NEW decision \in OrNone(RejectedDecisions),
             RouteFails(class, decision)
      PROVE  EvidenceAccounted'
  <2>1. /\ node = "route_node" /\ node' = "end" /\ pending_error' # None
        /\ response' = None
        /\ UNCHANGED <<agent.attempts, agent.evidence, agent.verification_result, remembered>>
    BY <1>0, <1>3, RouteFailsFields DEF Nodes
  <2>2. QED
    BY <2>1 DEF EvidenceAccounted
<1>4. CASE ToolMissing
  BY <1>0, <1>4, ToolMissingFields, ResponsesDiffer DEF EvidenceAccounted
<1>5. CASE CallTool
  BY <1>0, <1>5, CallToolFields DEF EvidenceAccounted, Nodes
<1>6. CASE ToolCallEnds
  <2>1. PICK result \in ToolResult, class \in OrNone(ToolFailures) : AttemptEnds(result, class)
    BY <1>6, ToolCallOutcome
  <2>2. /\ node = "tool_node" /\ agent.decision.tool_name \in Tools
        /\ agent.status = "running"
    BY <1>6, ToolCallOutcome DEF AttemptsAccounted, Nodes
  <2>3. /\ node' = "verify_node"
        /\ agent'.attempts = agent.attempts + 1
        /\ UNCHANGED <<agent.verification_result, agent.evidence, remembered>>
    BY <2>1, <2>2, AttemptFields
  <2>4. agent'.attempts # 0
    BY <1>0, <2>3
  <2>5. QED
    BY <2>2, <2>3, <2>4 DEF EvidenceAccounted
<1>7. CASE VerifyResult
  <2>1. /\ node = "verify_node"
        /\ node' = IF Verdict THEN "answer_node" ELSE "recovery_node"
        /\ Verdict \in BOOLEAN /\ agent'.verification_result = Verdict
        /\ agent'.evidence = TrustedEvidence(agent.observations, Verdict)
        /\ UNCHANGED <<agent.decision, agent.tool_result, agent.attempts, remembered>>
    BY <1>7, VerifyFields
  <2>2. LastResultIsObserved /\ agent.attempts > 0 /\ ~remembered
    BY <2>1 DEF RunInvariant, AttemptsAccounted, EvidenceAccounted
  <2>3. Verdict => agent.tool_result.success
    BY DEF Verdict, Verify
  <2>4. agent'.evidence = IF Verdict THEN EvidenceOf(agent.tool_result.data) ELSE <<>>
    BY <2>1, <2>2, <2>3, TrustedEvidenceIs
  <2>5. agent.tool_result.data \in Payload
    BY <2>2, StateTypes DEF LastResultIsObserved, OrNone, ToolResult
  <2>6. /\ EvidenceOf(agent.tool_result.data)[1].data.tenant_id = None
        /\ EvidenceOf(agent.tool_result.data)[1].data.property_id = None
    BY <2>5, EvidenceHasNoScope
  <2>7. EvidenceOf(agent.tool_result.data)' = EvidenceOf(agent.tool_result.data)
    BY <2>1 DEF EvidenceOf
  <2>8. /\ agent'.attempts # 0 /\ ~remembered'
        /\ node' \in {"answer_node", "recovery_node"}
        /\ node' = "answer_node" => Verdict
    BY <1>0, <2>1, <2>2
  <2>9. /\ agent'.evidence # <<>> =>
              /\ agent'.verification_result = TRUE
              /\ agent'.evidence[1].data.tenant_id = None
              /\ agent'.evidence[1].data.property_id = None
        /\ node' = "answer_node" =>
              /\ agent'.verification_result = TRUE
              /\ agent'.evidence = EvidenceOf(agent.tool_result.data)'
    BY <2>1, <2>4, <2>6, <2>7, <2>8
  <2>10. QED
    BY <2>8, <2>9 DEF EvidenceAccounted
<1>8. CASE Recover
  <2>1. /\ node = "recovery_node" /\ node' \in {"tool_node", "end"}
        /\ node' = "end" => agent'.status = "needs_human_review" /\ response' = ReviewResponse
        /\ UNCHANGED <<agent.attempts, agent.verification_result, agent.evidence, remembered>>
    BY <1>8, RecoverFields
  <2>2. QED
    BY <2>1, ResponsesDiffer DEF EvidenceAccounted
<1>9. CASE ModelAnswers
  <2>1. agent.decision # None
    BY <1>9, ModelAnswersFields DEF RunInvariant, Nodes
  <2>2. QED
    BY <1>0, <1>9, <2>1, ModelAnswersFields, ResponsesDiffer DEF EvidenceAccounted
<1>10. ASSUME NEW class \in ModelFailures, ModelFails(class)
       PROVE  EvidenceAccounted'
  <2>1. /\ node = "answer_node" /\ node' = "end" /\ pending_error' # None
        /\ response' = None
        /\ UNCHANGED <<agent.attempts, agent.evidence, agent.verification_result, remembered>>
    BY <1>0, <1>10, ModelFailsFields DEF Nodes
  <2>2. QED
    BY <2>1 DEF EvidenceAccounted
<1>11. CASE AnswerFromTool
  <2>1. /\ node = "answer_node" /\ node' = "end" /\ agent.decision.action = "use_tool"
        /\ response' = FormatToolAnswer(Last(agent.observations))
        /\ UNCHANGED <<agent.status, agent.decision, agent.tool_result,
                       agent.verification_result, agent.attempts, agent.evidence, remembered>>
    BY <1>11, AnswerFromToolFields
  <2>2. /\ agent.verification_result = TRUE /\ agent.status = "completed"
        /\ agent.evidence = EvidenceOf(agent.tool_result.data)
        /\ agent.attempts > 0
    BY <2>1 DEF EvidenceAccounted, AttemptsAccounted
  <2>3. Last(agent.observations) \in Observation
    <3>1. agent.observations # <<>>
      BY <2>1 DEF RunInvariant, LastResultIsObserved
    <3>2. QED
      BY <3>1, StateTypes DEF Last
  <2>4. response' # None /\ response'.source = "tool"
    BY <2>1, <2>3, ResponsesDiffer
  <2>5. response'.about = agent'.tool_result.data
    BY <1>0, <2>1, <2>4 DEF RunInvariant
  <2>6. EvidenceOf(response.about)' = EvidenceOf(agent.tool_result.data)
    BY <2>1, <2>5 DEF EvidenceOf
  <2>7. QED
    BY <2>1, <2>2, <2>4, <2>6 DEF EvidenceAccounted
<1>12. CASE QuietStep
  <2>1. EvidenceOf(response.about)' = EvidenceOf(response.about)
        /\ EvidenceOf(agent.tool_result.data)' = EvidenceOf(agent.tool_result.data)
    BY <1>12, QuietStepFields DEF EvidenceOf
  <2>2. QED
    BY <1>0, <1>12, <2>1, QuietStepFields
       DEF EvidenceAccounted, QuietStep, DeadlinePasses, CallModel, ModelCrashes, Return,
           Raise, Cancel, vars, Endings, Nodes
<1>13. QED
  BY <1>1, <1>2, <1>3, <1>4, <1>5, <1>6, <1>7, <1>8, <1>9, <1>10, <1>11, <1>12, StepKinds

-----------------------------------------------------------------------------
(* A completed run has no failure class, and the nodes before a completion *)
(* find none.                                                              *)

LEMMA ClassOfAttemptIs ==
    ASSUME NEW verified \in BOOLEAN, NEW class, NEW result, None # "tool_timeout",
           None # "tool_error", result.success \in BOOLEAN
    PROVE  /\ verified => ClassOfAttempt(verified, class, result) = None
           /\ ~verified /\ class # None => ClassOfAttempt(verified, class, result) = class
           /\ ~verified /\ class = None /\ ~result.success =>
                 ClassOfAttempt(verified, class, result) = "tool_error"
           /\ ~verified /\ class = None /\ result.success =>
                 ClassOfAttempt(verified, class, result) = "verification_failure"
<1>1. CASE verified
  BY <1>1, Zenon DEF ClassOfAttempt
<1>2. CASE ~verified /\ class # None
  BY <1>2, Zenon DEF ClassOfAttempt
<1>3. CASE ~verified /\ class = None /\ ~result.success
  BY <1>3, Zenon DEF ClassOfAttempt
<1>4. CASE ~verified /\ class = None /\ result.success
  BY <1>4, Zenon DEF ClassOfAttempt
<1>5. QED
  BY <1>1, <1>2, <1>3, <1>4, Zenon

CleanAccounted ==
    /\ node \in {"start", "route_node", "answer_node"} => agent.failure_class = None
    /\ agent.status = "completed" => agent.failure_class = None
    /\ node \in {"end", "returned"} /\ pending_error = None =>
          agent.status \in {"completed", "needs_human_review"}

LEMMA NextClean ==
    TypeOK /\ RunInvariant /\ AttemptsAccounted /\ CleanAccounted /\ [Next]_vars
        => CleanAccounted'
<1> SUFFICES ASSUME TypeOK, RunInvariant, AttemptsAccounted, CleanAccounted, [Next]_vars
             PROVE  CleanAccounted'
  OBVIOUS
<1>0. None # "tool_error" /\ None # "tool_timeout"
  BY RunAssumption DEF FailureClasses, ToolFailures
<1>1. CASE Start
  BY <1>1, StartFields DEF CleanAccounted
<1>2. ASSUME NEW decision \in Decisions, RouteTo(decision)
      PROVE  CleanAccounted'
  <2>1. /\ node = "route_node" /\ agent'.decision = decision
        /\ node' = AfterRoute(agent', pending_error)
        /\ pending_error = None
        /\ UNCHANGED <<agent.status, agent.failure_class>>
        /\ agent.status = "running"
    BY <1>2, RouteToFields DEF AttemptsAccounted, RunUnderWay, Nodes
  <2>2. node' \in {"answer_node", "tool_node"}
    BY <2>1 DEF AfterRoute
  <2>3. QED
    BY <2>1, <2>2 DEF CleanAccounted
<1>3. ASSUME NEW class \in ModelFailures, NEW decision \in OrNone(RejectedDecisions),
             RouteFails(class, decision)
      PROVE  CleanAccounted'
  BY <1>3, RouteFailsFields DEF CleanAccounted
<1>4. CASE ToolMissing
  BY <1>4, ToolMissingFields DEF CleanAccounted
<1>5. CASE CallTool
  BY <1>5, CallToolFields DEF CleanAccounted
<1>6. CASE ToolCallEnds
  <2>1. PICK result \in ToolResult, class \in OrNone(ToolFailures) : AttemptEnds(result, class)
    BY <1>6, ToolCallOutcome
  <2>2. /\ agent.decision.tool_name \in Tools /\ agent.status = "running"
    BY <1>6, ToolCallOutcome DEF AttemptsAccounted, Nodes
  <2>3. node' = "verify_node" /\ UNCHANGED <<agent.status, agent.failure_class>>
    BY <2>1, <2>2, AttemptFields
  <2>4. QED
    BY <2>3 DEF CleanAccounted
<1>7. CASE VerifyResult
  <2>1. /\ node = "verify_node"
        /\ node' = IF Verdict THEN "answer_node" ELSE "recovery_node"
        /\ Verdict \in BOOLEAN
        /\ agent'.failure_class = ClassOfAttempt(Verdict, attempt_class, agent.tool_result)
        /\ agent'.status = IF Verdict THEN "completed" ELSE "running"
    BY <1>7, VerifyFields
  <2>2. agent.tool_result \in ToolResult
    BY <2>1, StateTypes DEF RunInvariant, LastResultIsObserved, OrNone
  <2>3. agent.tool_result.success \in BOOLEAN
    BY <2>2 DEF ToolResult
  <2>4. ClassOfAttempt(TRUE, attempt_class, agent.tool_result) = None
    BY <1>0, <2>3, ClassOfAttemptIs
  <2>5. CASE Verdict
    <3>1. node' = "answer_node" /\ agent'.failure_class = None
      BY <2>1, <2>4, <2>5
    <3>2. QED
      BY <3>1 DEF CleanAccounted
  <2>6. CASE ~Verdict
    <3>1. node' = "recovery_node" /\ agent'.status = "running"
      BY <2>1, <2>6
    <3>2. QED
      BY <3>1 DEF CleanAccounted
  <2>7. QED
    BY <2>5, <2>6
<1>8. CASE Recover
  BY <1>8, RecoverFields DEF CleanAccounted
<1>9. CASE ModelAnswers
  BY <1>9, ModelAnswersFields DEF CleanAccounted
<1>10. ASSUME NEW class \in ModelFailures, ModelFails(class)
       PROVE  CleanAccounted'
  <2>1. node' = "end" /\ pending_error' # None /\ agent'.status = "failed"
    BY <1>10, ModelFailsFields
  <2>2. QED
    BY <2>1 DEF CleanAccounted
<1>11. CASE AnswerFromTool
  BY <1>11, AnswerFromToolFields DEF CleanAccounted, AttemptsAccounted
<1>12. CASE QuietStep
  BY <1>12, QuietStepFields
     DEF CleanAccounted, QuietStep, DeadlinePasses, CallModel, ModelCrashes, Return,
         Raise, Cancel, vars, Nodes
<1>13. QED
  BY <1>1, <1>2, <1>3, <1>4, <1>5, <1>6, <1>7, <1>8, <1>9, <1>10, <1>11, <1>12, StepKinds

LEMMA InitAccounted == Init => AttemptsAccounted /\ EvidenceAccounted /\ CleanAccounted
<1> SUFFICES ASSUME Init PROVE AttemptsAccounted /\ EvidenceAccounted /\ CleanAccounted
  OBVIOUS
<1>1. /\ node = "start" /\ pending_error = None /\ response = None /\ remembered = FALSE
      /\ agent.attempts = 0 /\ agent.observations = <<>> /\ agent.evidence = <<>>
      /\ agent.verification_result = None /\ agent.failure_class = None
  BY DEF Init, FreshState
<1>2. CallBudget \in Nat
  BY RunAssumption DEF CallBudget
<1>3. QED
  BY <1>1, <1>2 DEF AttemptsAccounted, EvidenceAccounted, CleanAccounted, RunUnderWay, Nodes

\* The inductive invariant: what RunInvariant shows of the data, and the accounts.
Accounts == AttemptsAccounted /\ EvidenceAccounted /\ CleanAccounted

LEMMA NextAccounts == TypeOK /\ RunInvariant /\ Accounts /\ [Next]_vars => Accounts'
BY NextAttempts, NextEvidence, NextClean DEF Accounts

LEMMA AccountsHold == Spec => [](TypeOK /\ RunInvariant /\ Accounts)
<1>1. Init => TypeOK /\ RunInvariant /\ Accounts
  BY InitTypeOK, InitRunInvariant, InitAccounted DEF Accounts
<1>2. TypeOK /\ RunInvariant /\ Accounts /\ [Next]_vars => (TypeOK /\ RunInvariant /\ Accounts)'
  BY NextTypeOK, NextRunInvariant, NextAccounts
<1>3. QED
  BY <1>1, <1>2, PTL DEF Spec

\* The answer the user reads, the stored verdict and the evidence given to the
\* answer model are about one payload, without the caller's scope, whatever the
\* earlier attempts brought back (context.py:188-211, async_runtime.py:445-450).
THEOREM EvidenceIsOfTheAnswer == Spec => []EvidenceMatchesAnswer
<1>1. Accounts => EvidenceMatchesAnswer
  BY DEF Accounts, EvidenceAccounted, EvidenceMatchesAnswer, EvidenceOf
<1>2. QED
  BY <1>1, AccountsHold, PTL

\* A further attempt starts only after a retryable result that did not verify, and
\* within the budget (recovery.py:14-19, graph.py's recovery edge).
THEOREM OnlyEarnedRetries == Spec => RetriesAreEarned
<1> DEFINE Earned == (agent'.attempts > agent.attempts /\ agent.attempts > 0) =>
                        /\ agent.tool_result.retryable
                        /\ agent.verification_result = FALSE
                        /\ agent.attempts < MaxAttempts
<1>1. TypeOK /\ RunInvariant /\ Accounts /\ [Next]_vars => [Earned]_vars
  <2> SUFFICES ASSUME TypeOK, RunInvariant, AttemptsAccounted, [Next]_vars
               PROVE  Earned
    BY DEF Accounts
  <2>1. agent.attempts \in Nat
    BY StateTypes
  <2>2. CASE ToolCallEnds
    BY <2>2, ToolCallOutcome DEF AttemptsAccounted
  <2>3. CASE ~ToolCallEnds
    <3>1. agent'.attempts = agent.attempts
      BY <2>3, StepKinds, StartFields, RouteToFields, RouteFailsFields, ToolMissingFields,
         CallToolFields, VerifyFields, RecoverFields, ModelAnswersFields, ModelFailsFields,
         AnswerFromToolFields, QuietStepFields
    <3>2. QED
      BY <2>1, <3>1
  <2>4. QED
    BY <2>2, <2>3
<1>2. QED
  BY <1>1, AccountsHold, PTL DEF Spec, RetriesAreEarned

-----------------------------------------------------------------------------
(* The failure class.                                                      *)

\* The runtime's token for an expired call; a failed result of a tool's own does not
\* bear it.  (A tool that did write it into its payload would pass for a timeout.)
TimeoutTokenIsTheRuntimes ==
    \A result \in Results : ~result.success => result.data.error # "tool_timeout"

ClassOfLast ==
    LET last == Last(agent.observations)
    IN  IF last.success THEN "verification_failure"
        ELSE IF last.data.error = "tool_timeout" THEN "tool_timeout" ELSE "tool_error"

\* What attempt_class and the result it came with say of each other.
AttemptClassified ==
    LET result == agent.tool_result
    IN  \/ attempt_class = None /\ (result.success \/ result.data.error # "tool_timeout")
        \/ /\ attempt_class = "tool_timeout" /\ ~result.success
           /\ result.data.error = "tool_timeout"
        \/ /\ attempt_class = "tool_error" /\ ~result.success
           /\ result.data.error # "tool_timeout"

ClassAccounted ==
    /\ node = "verify_node" => AttemptClassified
    /\ node = "recovery_node" => agent.failure_class = ClassOfLast
    /\ node \in {"end", "returned"} /\ pending_error = None =>
          agent.failure_class =
                IF agent.status = "completed" THEN None
                ELSE IF agent.observations = <<>> THEN "tool_error" ELSE ClassOfLast

LEMMA FailureResultIs ==
    ASSUME NEW code, NEW retryable
    PROVE  /\ FailureResult(code, retryable).success = FALSE
           /\ FailureResult(code, retryable).data.error = code
<1>1. EmptyPayload \in Payload
  BY DEF EmptyPayload, Payload, OrNone
<1>2. QED
  BY <1>1 DEF FailureResult, EmptyPayload

\* Whichever way the call ended, the class and the result agree.
LEMMA CallClassified ==
    ASSUME NEW result, NEW class, AttemptLeaves(result, class), TimeoutTokenIsTheRuntimes
    PROVE  \/ class = None /\ (result.success \/ result.data.error # "tool_timeout")
           \/ /\ class = "tool_timeout" /\ ~result.success
              /\ result.data.error = "tool_timeout"
           \/ class = "tool_error" /\ ~result.success /\ result.data.error # "tool_timeout"
<1>1. CASE result \in Results /\ class = None
  BY <1>1 DEF TimeoutTokenIsTheRuntimes
<1>2. CASE result = FailureResult("tool_timeout", TRUE) /\ class = "tool_timeout"
  BY <1>2, FailureResultIs
<1>3. CASE result = FailureResult("tool_error", FALSE) /\ class = "tool_error"
  BY <1>3, FailureResultIs
<1>4. QED
  BY <1>1, <1>2, <1>3 DEF AttemptLeaves

LEMMA NextClass ==
    ASSUME TimeoutTokenIsTheRuntimes
    PROVE  TypeOK /\ RunInvariant /\ Accounts /\ ClassAccounted /\ [Next]_vars => ClassAccounted'
<1> SUFFICES ASSUME TypeOK, RunInvariant, AttemptsAccounted, EvidenceAccounted,
                    CleanAccounted, ClassAccounted, [Next]_vars
             PROVE  ClassAccounted'
  BY DEF Accounts
<1>0. agent.attempts \in Nat /\ agent.observations \in Seq(Observation)
  BY StateTypes
<1>00. None # "tool_error" /\ None # "tool_timeout"
  BY RunAssumption DEF FailureClasses, ToolFailures
<1>1. CASE Start
  BY <1>1, StartFields DEF ClassAccounted
<1>2. ASSUME NEW decision \in Decisions, RouteTo(decision)
      PROVE  ClassAccounted'
  <2>1. /\ node = "route_node" /\ agent'.decision = decision
        /\ node' = AfterRoute(agent', pending_error)
        /\ pending_error = None
        /\ UNCHANGED <<agent.status, agent.failure_class>>
        /\ agent.status = "running"
    BY <1>2, RouteToFields DEF AttemptsAccounted, RunUnderWay, Nodes
  <2>2. node' \in {"answer_node", "tool_node"}
    BY <2>1 DEF AfterRoute
  <2>3. QED
    BY <2>1, <2>2 DEF ClassAccounted
<1>3. ASSUME NEW class \in ModelFailures, NEW decision \in OrNone(RejectedDecisions),
             RouteFails(class, decision)
      PROVE  ClassAccounted'
  BY <1>3, RouteFailsFields DEF ClassAccounted
<1>4. CASE ToolMissing
  <2>1. agent.observations = <<>>
    BY <1>0, <1>4, ToolMissingFields DEF AttemptsAccounted
  <2>2. /\ node' = "end" /\ agent'.status = "needs_human_review"
        /\ agent'.failure_class = "tool_error" /\ agent'.observations = <<>>
    BY <1>4, <2>1, ToolMissingFields
  <2>3. QED
    BY <2>2 DEF ClassAccounted
<1>5. CASE CallTool
  BY <1>5, CallToolFields DEF ClassAccounted
<1>6. CASE ToolCallEnds
  <2>1. PICK result \in ToolResult, class \in OrNone(ToolFailures) :
           AttemptLeaves(result, class) /\ AttemptEnds(result, class)
    BY <1>6, ToolCallOutcome
  <2>2. /\ agent.decision.tool_name \in Tools /\ agent.status = "running"
    BY <1>6, ToolCallOutcome DEF AttemptsAccounted, Nodes
  <2>3. node' = "verify_node" /\ agent'.tool_result = result /\ attempt_class' = class
    BY <2>1, <2>2, AttemptFields
  <2>4. AttemptClassified'
    BY <2>1, <2>3, CallClassified DEF AttemptClassified
  <2>5. QED
    BY <2>3, <2>4 DEF ClassAccounted
<1>7. CASE VerifyResult
  <2>1. /\ node = "verify_node"
        /\ node' = IF Verdict THEN "answer_node" ELSE "recovery_node"
        /\ Verdict \in BOOLEAN
        /\ agent'.failure_class = ClassOfAttempt(Verdict, attempt_class, agent.tool_result)
        /\ UNCHANGED agent.observations
    BY <1>7, VerifyFields
  <2>2. AttemptClassified /\ LastResultIsObserved
    BY <2>1 DEF ClassAccounted, RunInvariant
  <2>3. agent.tool_result \in ToolResult
    BY <2>2, StateTypes DEF LastResultIsObserved, OrNone
  <2>4. agent.tool_result.success \in BOOLEAN
    BY <2>3 DEF ToolResult
  <2>5. ClassOfLast' = IF agent.tool_result.success THEN "verification_failure"
                       ELSE IF agent.tool_result.data.error = "tool_timeout"
                       THEN "tool_timeout" ELSE "tool_error"
    BY <2>1, <2>2 DEF ClassOfLast, LastResultIsObserved, Last
  <2>6. CASE Verdict
    <3>1. agent'.failure_class = None
      <4>1. ClassOfAttempt(TRUE, attempt_class, agent.tool_result) = None
        BY <1>00, <2>4, ClassOfAttemptIs
      <4>2. QED
        BY <2>1, <2>6, <4>1
    <3>2. node' = "answer_node"
      BY <2>1, <2>6
    <3>3. QED
      BY <3>1, <3>2 DEF ClassAccounted
  <2>7. CASE ~Verdict
    <3>1. node' = "recovery_node"
      BY <2>1, <2>7
    <3>2. /\ attempt_class # None => agent'.failure_class = attempt_class
          /\ attempt_class = None /\ ~agent.tool_result.success =>
                agent'.failure_class = "tool_error"
          /\ attempt_class = None /\ agent.tool_result.success =>
                agent'.failure_class = "verification_failure"
      BY <1>00, <2>1, <2>4, <2>7, ClassOfAttemptIs
    <3>3. agent'.failure_class = ClassOfLast'
      BY <1>00, <2>2, <2>4, <2>5, <3>2 DEF AttemptClassified
    <3>4. QED
      BY <3>1, <3>3 DEF ClassAccounted
  <2>8. QED
    BY <2>1, <2>6, <2>7
<1>8. CASE Recover
  <2>1. /\ node = "recovery_node" /\ node' \in {"tool_node", "end"}
        /\ node' = "end" => agent'.status = "needs_human_review"
        /\ UNCHANGED <<agent.observations, agent.failure_class>>
    BY <1>8, RecoverFields
  <2>2. agent.observations # <<>> /\ agent.failure_class = ClassOfLast
    BY <2>1 DEF RunInvariant, LastResultIsObserved, ClassAccounted
  <2>3. ClassOfLast' = ClassOfLast
    BY <2>1 DEF ClassOfLast
  <2>4. QED
    BY <2>1, <2>2, <2>3 DEF ClassAccounted
<1>9. CASE ModelAnswers
  BY <1>9, ModelAnswersFields DEF ClassAccounted, CleanAccounted
<1>10. ASSUME NEW class \in ModelFailures, ModelFails(class)
       PROVE  ClassAccounted'
  <2>1. node' = "end" /\ pending_error' # None
    BY <1>10, ModelFailsFields
  <2>2. QED
    BY <2>1 DEF ClassAccounted
<1>11. CASE AnswerFromTool
  BY <1>11, AnswerFromToolFields DEF ClassAccounted, CleanAccounted, AttemptsAccounted
<1>12. CASE QuietStep
  <2>1. ClassOfLast' = ClassOfLast /\ (AttemptClassified <=> AttemptClassified')
    BY <1>12, QuietStepFields DEF ClassOfLast, AttemptClassified
  <2>2. QED
    BY <1>12, <2>1, QuietStepFields
       DEF ClassAccounted, QuietStep, DeadlinePasses, CallModel, ModelCrashes, Return,
           Raise, Cancel, vars, Nodes
<1>13. QED
  BY <1>1, <1>2, <1>3, <1>4, <1>5, <1>6, <1>7, <1>8, <1>9, <1>10, <1>11, <1>12, StepKinds

\* The class a finished run reports is that of its last attempt, and a completed run
\* reports none: nothing an earlier attempt left behind survives, and a tool that is
\* missing, one that raises, one that is cut off and one that answers wrongly are told
\* apart (async_runtime.py:272-276, 315-347, 374-381).
THEOREM FailureClassIsOfLast ==
    ASSUME TimeoutTokenIsTheRuntimes
    PROVE  Spec => []FailureClassIsOfLastAttempt
<1> DEFINE Inv == TypeOK /\ RunInvariant /\ Accounts /\ ClassAccounted
<1>1. Init => ClassAccounted
  BY DEF Init, FreshState, ClassAccounted
<1>2. Inv /\ [Next]_vars => ClassAccounted'
  BY NextClass
<1>3. Inv => FailureClassIsOfLastAttempt
  <2> SUFFICES ASSUME Inv, node \in {"end", "returned"}, pending_error = None,
                      agent.status # "completed"
               PROVE  LET last == Last(agent.observations)
                      IN  agent.failure_class =
                             CASE agent.observations = <<>> -> "tool_error"
                               [] agent.observations # <<>> /\ last.success ->
                                     "verification_failure"
                               [] /\ agent.observations # <<>> /\ ~last.success
                                  /\ last.data.error = "tool_timeout" -> "tool_timeout"
                               [] OTHER -> "tool_error"
    BY DEF FailureClassIsOfLastAttempt, ClassAccounted
  <2>1. agent.failure_class =
           IF agent.observations = <<>> THEN "tool_error" ELSE ClassOfLast
    BY DEF ClassAccounted
  <2>2. CASE agent.observations = <<>>
    BY <2>1, <2>2, Zenon
  <2>3. CASE agent.observations # <<>> /\ Last(agent.observations).success
    BY <2>1, <2>3, Zenon DEF ClassOfLast
  <2>4. CASE /\ agent.observations # <<>> /\ ~Last(agent.observations).success
             /\ Last(agent.observations).data.error = "tool_timeout"
    BY <2>1, <2>4, Zenon DEF ClassOfLast
  <2>5. CASE /\ agent.observations # <<>> /\ ~Last(agent.observations).success
             /\ Last(agent.observations).data.error # "tool_timeout"
    BY <2>1, <2>5, Zenon DEF ClassOfLast
  <2>6. QED
    BY <2>2, <2>3, <2>4, <2>5, Zenon
<1>4. QED
  BY <1>1, <1>2, <1>3, AccountsHold, PTL DEF Spec
=============================================================================
