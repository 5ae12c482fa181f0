----------------------------- MODULE RoutingProofs -----------------------------
(***************************************************************************)
(* Proofs about Routing and RouterRules, for any provider, any registry of *)
(* tools, any routing output that satisfies the schema and any message.    *)
(***************************************************************************)
EXTENDS Routing, SequenceTheorems, WellFoundedInduction, TLAPS

Replies == {"timeout", "error", "empty", "crash", "text"}

\* What the properties ask of a decision, whichever router made it.
Callable(d) ==
    IF d.action = "direct"
    THEN d.tool_name = None /\ d.arguments = NoArguments
    ELSE /\ d.tool_name \in {WorkOrderTool, PolicyTool}
         /\ d.tool_name = WorkOrderTool => d.arguments.issue_type = None
         /\ d.tool_name = PolicyTool =>
               /\ d.arguments.work_order_id = None
               /\ d.arguments.issue_type = PolicyRequest(d.arguments)

\* Nothing that the model wrote is missing from the decision.
Complete(parsed, d) ==
    /\ ~parsed.arguments.extra
    /\ parsed.action = d.action /\ parsed.tool_name = d.tool_name
    /\ parsed.tool_name = WorkOrderTool => parsed.arguments.issue_type = Missing
    /\ parsed.tool_name = PolicyTool => parsed.arguments.work_order_id = Missing

-----------------------------------------------------------------------------
(* The rules.                                                              *)

\* A set of natural numbers that is not empty has a least member.
LEMMA LeastNatural ==
    ASSUME NEW S, S \subseteq Nat, S # {}
    PROVE  \E n \in S : \A m \in S : n <= m
<1>1. PICK n \in S : \A m \in S : ~(<<m, n>> \in OpToRel(<, Nat))
  BY NatLessThanWellFounded, WFMin
<1>2. \A m \in S : m < n => <<m, n>> \in OpToRel(<, Nat)
  BY DEF OpToRel
<1>3. \A m \in S : ~(m < n)
  BY <1>1, <1>2, Zenon
<1>4. \E k \in S : \A m \in S : ~(m < k)
  BY <1>3, Zenon
<1>5. QED
  BY <1>4, SMT

\* The loop over the issue types returns one of them, or nothing.
LEMMA IssueTypeIsAllowed ==
    ASSUME NEW message
    PROVE  ExtractIssueType(message) \in OrNone(AllowedIssueTypes)
<1> DEFINE found == {i \in DOMAIN LongestFirst : LongestFirst[i] \in message.issues}
           first == CHOOSE i \in found : \A j \in found : i <= j
<1>1. CASE found = {}
  BY <1>1 DEF ExtractIssueType, OrNone
<1>2. CASE found # {}
  <2>1. \E i \in found : \A j \in found : i <= j
    BY <1>2, LeastNatural, RulesAssumption
  <2>2. first \in found
    BY <2>1, Zenon
  <2>3. LongestFirst[first] \in AllowedIssueTypes
    BY <2>2, RulesAssumption
  <2>4. ExtractIssueType(message) = LongestFirst[first]
    BY <1>2 DEF ExtractIssueType
  <2>5. QED
    BY <2>3, <2>4 DEF OrNone
<1>3. QED
  BY <1>1, <1>2

\* str.lower() of an allowed type is that type: the tool will ask for what is written.
LEMMA AllowedIsAsked ==
    ASSUME NEW arguments, arguments.issue_type \in OrNone(AllowedIssueTypes)
    PROVE  PolicyRequest(arguments) = arguments.issue_type
BY RulesAssumption, GateAssumption DEF PolicyRequest, OrNone

LEMMA NoArgumentsIs ==
    /\ NoArguments \in Arguments
    /\ NoArguments.work_order_id = None /\ NoArguments.issue_type = None
    /\ \A w \in OrNone(WorkOrderIds) :
          LET a == [NoArguments EXCEPT !.work_order_id = w]
          IN  a \in Arguments /\ a.work_order_id = w /\ a.issue_type = None
    /\ \A i \in OrNone(IssueTypes) :
          LET a == [NoArguments EXCEPT !.issue_type = i]
          IN  a \in Arguments /\ a.work_order_id = None /\ a.issue_type = i
BY DEF NoArguments, Arguments, OrNone

LEMMA KeywordDecisionIsCallable ==
    ASSUME NEW message \in Messages
    PROVE  LET d == KeywordDecision(message)
           IN  d.kind = "decision" /\ d.arguments \in Arguments /\ Callable(d)
<1> DEFINE d == KeywordDecision(message)
<1>1. CASE "policy" \in message.words
  <2> DEFINE issue == ExtractIssueType(message)
             a == [NoArguments EXCEPT !.issue_type = issue]
  <2>1. issue \in OrNone(AllowedIssueTypes)
    BY IssueTypeIsAllowed
  <2>2. issue \in OrNone(IssueTypes)
    BY <2>1, GateAssumption DEF OrNone
  <2>3. a \in Arguments /\ a.work_order_id = None /\ a.issue_type = issue
    BY <2>2, NoArgumentsIs
  <2>4. d = Decided("use_tool", PolicyTool, a)
    BY <1>1 DEF KeywordDecision
  <2> HIDE DEF a, issue, d
  <2>5. PolicyRequest(a) = a.issue_type
    BY <2>1, <2>3, AllowedIsAsked
  <2>6. QED
    BY <2>3, <2>4, <2>5 DEF Decided, Callable, PolicyTool, WorkOrderTool, d
<1>2. CASE "policy" \notin message.words /\ message.words \cap {"work order", "maintenance"} # {}
  <2> DEFINE id == ExtractWorkOrderId(message)
             a == [NoArguments EXCEPT !.work_order_id = id]
  <2>1. id \in OrNone(WorkOrderIds)
    BY RoutingAssumption DEF ExtractWorkOrderId
  <2>2. a \in Arguments /\ a.issue_type = None
    BY <2>1, NoArgumentsIs
  <2>3. d = Decided("use_tool", WorkOrderTool, a)
    BY <1>2 DEF KeywordDecision
  <2> HIDE DEF a, id, d
  <2>4. QED
    BY <2>2, <2>3 DEF Decided, Callable, PolicyTool, WorkOrderTool, d
<1>3. CASE "policy" \notin message.words /\ message.words \cap {"work order", "maintenance"} = {}
  BY <1>3, NoArgumentsIs DEF KeywordDecision, Decided, Callable
<1>4. QED
  BY <1>1, <1>2, <1>3

LEMMA RejectedIs ==
    ASSUME NEW tool, NEW raw \in RawArguments
    PROVE  Rejected(tool, raw).kind = "routing_error" /\ Rejected(tool, raw).arguments \in Arguments
BY DEF Rejected, AsWritten, RawArguments, Arguments, OrNone

LEMMA FailedIs ==
    ASSUME NEW kind
    PROVE  Failed(kind).kind = kind /\ Failed(kind).arguments \in Arguments
BY NoArgumentsIs DEF Failed

\* A decision or a routing error; a decision is one of an allowed tool that the runtime
\* can carry out, with nothing of the output left out.
Judged(parsed, d) ==
    /\ d.kind \in {"decision", "routing_error"} /\ d.arguments \in Arguments
    /\ d.kind = "decision" =>
          /\ Callable(d) /\ Complete(parsed, d)
          /\ d.action # "direct" => d.tool_name \in AllowedTools

LEMMA WorkOrderDecisionIsJudged ==
    ASSUME NEW parsed, parsed.arguments \in RawArguments, parsed.action = "use_tool",
           parsed.tool_name = WorkOrderTool, WorkOrderTool \in AllowedTools
    PROVE  Judged(parsed, WorkOrderDecision(parsed.arguments))
<1> DEFINE raw == parsed.arguments
           refused == raw.extra \/ raw.issue_type # Missing \/ raw.work_order_id = Unusable
           id == IF raw.work_order_id = Missing THEN None ELSE raw.work_order_id
           a == [NoArguments EXCEPT !.work_order_id = id]
<1>1. CASE refused
  BY <1>1, RejectedIs DEF WorkOrderDecision, Judged
<1>2. CASE ~refused
  <2>1. id \in OrNone(WorkOrderIds) /\ ~raw.extra /\ raw.issue_type = Missing
    BY <1>2 DEF OrNone, RawArguments
  <2>2. a \in Arguments /\ a.issue_type = None
    BY <2>1, NoArgumentsIs
  <2>3. WorkOrderDecision(raw) = Decided("use_tool", WorkOrderTool, a)
    BY <1>2 DEF WorkOrderDecision
  <2> HIDE DEF a, id, refused
  <2>4. QED
    BY <2>1, <2>2, <2>3 DEF Decided, Judged, Callable, Complete, PolicyTool, WorkOrderTool
<1>3. QED
  BY <1>1, <1>2

LEMMA PolicyDecisionIsJudged ==
    ASSUME NEW parsed, parsed.arguments \in RawArguments, parsed.action = "use_tool",
           parsed.tool_name = PolicyTool, PolicyTool \in AllowedTools
    PROVE  Judged(parsed, PolicyDecision(parsed.arguments))
<1> DEFINE raw == parsed.arguments
           refused == \/ raw.extra \/ raw.work_order_id # Missing \/ raw.issue_type = Unusable
                      \/ /\ raw.issue_type # Missing
                         /\ LowerCase[raw.issue_type] \notin AllowedIssueTypes
           issue == IF raw.issue_type = Missing THEN None ELSE LowerCase[raw.issue_type]
           a == [NoArguments EXCEPT !.issue_type = issue]
<1>1. CASE refused
  <2>1. PolicyDecision(raw) = Rejected(PolicyTool, raw)
    BY <1>1 DEF PolicyDecision
  <2>2. QED
    BY <2>1, RejectedIs DEF Judged
<1>2. CASE ~refused
  <2>1. /\ issue \in OrNone(AllowedIssueTypes) /\ issue \in OrNone(IssueTypes)
        /\ ~raw.extra /\ raw.work_order_id = Missing
    BY <1>2, GateAssumption DEF OrNone
  <2>2. a \in Arguments /\ a.work_order_id = None /\ a.issue_type = issue
    BY <2>1, NoArgumentsIs
  <2>3. PolicyDecision(raw) = Decided("use_tool", PolicyTool, a)
    BY <1>2 DEF PolicyDecision
  <2> HIDE DEF a, issue, refused
  <2>4. PolicyRequest(a) = a.issue_type
    BY <2>1, <2>2, AllowedIsAsked
  <2>5. QED
    BY <2>1, <2>2, <2>3, <2>4 DEF Decided, Judged, Callable, Complete, PolicyTool, WorkOrderTool
<1>3. QED
  BY <1>1, <1>2

LEMMA DecisionIsJudged ==
    ASSUME NEW parsed \in Outputs
    PROVE  Judged(parsed, DecisionOf(parsed, AllowedTools))
<1>1. parsed.action \in {"direct", "use_tool"} /\ parsed.arguments \in RawArguments
  BY RoutingAssumption
<1>2. CASE parsed.action = "direct"
  <2>1. CASE parsed.tool_name # None \/ parsed.arguments # NoRawArguments
    BY <1>2, <2>1, FailedIs DEF DecisionOf, Judged
  <2>2. CASE parsed.tool_name = None /\ parsed.arguments = NoRawArguments
    <3>1. ~parsed.arguments.extra
      BY <2>2 DEF NoRawArguments
    <3>2. DecisionOf(parsed, AllowedTools) = Decided("direct", None, NoArguments)
      BY <1>2, <2>2 DEF DecisionOf
    <3>3. parsed.arguments.issue_type = Missing /\ parsed.arguments.work_order_id = Missing
      BY <2>2 DEF NoRawArguments
    <3>4. QED
      BY <1>2, <2>2, <3>1, <3>2, <3>3, NoArgumentsIs DEF Decided, Judged, Callable, Complete
  <2>3. QED
    BY <2>1, <2>2
<1>3. CASE parsed.action = "use_tool"
  <2>1. CASE parsed.tool_name \notin AllowedTools \ {None}
    BY <1>1, <1>3, <2>1, RejectedIs DEF DecisionOf, Judged
  <2>2. CASE parsed.tool_name \in AllowedTools /\ parsed.tool_name = WorkOrderTool
    BY <1>1, <1>3, <2>2, RoutingAssumption, WorkOrderDecisionIsJudged DEF DecisionOf
  <2>3. CASE parsed.tool_name \in AllowedTools /\ parsed.tool_name = PolicyTool
    BY <1>1, <1>3, <2>3, RoutingAssumption, PolicyDecisionIsJudged
       DEF DecisionOf, PolicyTool, WorkOrderTool
  <2>4. CASE /\ parsed.tool_name \in AllowedTools
             /\ parsed.tool_name \notin {WorkOrderTool, PolicyTool}
    BY <1>1, <1>3, <2>4, RoutingAssumption, RejectedIs DEF DecisionOf, Judged
  <2>5. QED
    BY <2>1, <2>2, <2>3, <2>4
<1>4. QED
  BY <1>1, <1>2, <1>3

-----------------------------------------------------------------------------
(* The state.                                                              *)

Types ==
    /\ provider \in Providers
    /\ purpose \in OrNone({"answer", "route", "keyword"})
    /\ step \in {"idle", "native", "plain", "done"}
    /\ deadline \in {"none", "open", "expired"}
    /\ replies \in Seq(Replies)
    /\ output \in OrNone(Outputs)

\* What a call has behind it at each of its steps: a native request is the first, a plain
\* one follows a native one that failed exactly where the client has one of its own.
Progress ==
    /\ step = "idle" => deadline = "none" /\ replies = <<>> /\ output = None /\ outcome = None
    /\ step \in {"native", "plain"} =>
          /\ purpose \in {"answer", "route"} /\ deadline \in {"open", "expired"}
          /\ output = None /\ outcome = None
    /\ step = "native" => purpose = "route" /\ provider # "plain" /\ replies = <<>>
    /\ step = "plain" =>
          IF purpose = "route" /\ provider # "plain"
          THEN Len(replies) = 1 /\ replies[1] \in {"error", "empty"}
          ELSE replies = <<>>
    /\ step = "done" => deadline = "none"

Requests ==
    /\ Len(replies) <= 2
    /\ Len(replies) = 2 => /\ purpose = "route" /\ provider # "plain"
                           /\ replies[1] \in {"error", "empty"}

Outcome ==
    step = "done" =>
        /\ outcome.kind \in Kinds /\ outcome.arguments \in Arguments
        /\ purpose = "route" => outcome.kind \notin {"crashed", "answered"}
        /\ outcome.kind = "decision" =>
              /\ Callable(outcome)
              /\ output # None => Complete(output, outcome)
              /\ purpose = "route" /\ outcome.action # "direct" =>
                    outcome.tool_name \in AllowedTools

RoutingInvariant == Types /\ Progress /\ Requests /\ Outcome

\* A call that has been made comes back with a reply.
LEMMA AnswerArrives ==
    ASSUME RoutingInvariant, Awaiting, NEW reply \in Replies, replies' = Append(replies, reply)
    PROVE  /\ replies' \in Seq(Replies)
           /\ Len(replies') = Len(replies) + 1
           /\ step = "native" => Len(replies') = 1 /\ replies'[1] = reply
           /\ step = "plain" /\ ~(purpose = "route" /\ provider # "plain") => Len(replies') = 1
           /\ step = "plain" /\ purpose = "route" /\ provider # "plain" =>
                 Len(replies') = 2 /\ replies'[1] \in {"error", "empty"}
<1>1. replies \in Seq(Replies)
  BY DEF RoutingInvariant, Types
<1>2. CASE replies = <<>>
  BY <1>1, <1>2 DEF RoutingInvariant, Progress, Awaiting
<1>3. CASE Len(replies) = 1 /\ replies[1] \in {"error", "empty"} /\ step = "plain"
  <2>1. /\ Append(replies, reply) \in Seq(Replies)
        /\ Len(Append(replies, reply)) = Len(replies) + 1
        /\ \A i \in 1..Len(replies) : Append(replies, reply)[i] = replies[i]
    BY <1>1, AppendProperties
  <2>2. purpose = "route" /\ provider # "plain"
    BY <1>3 DEF RoutingInvariant, Progress
  <2>3. QED
    BY <1>3, <2>1, <2>2
<1>4. QED
  BY <1>1, <1>2, <1>3 DEF RoutingInvariant, Progress, Awaiting

\* The call ends with that reply, by an outcome that is no decision.
LEMMA ReplyEnds ==
    ASSUME RoutingInvariant, Awaiting, NEW reply \in Replies, NEW kind \in Kinds,
           kind # "decision", purpose = "route" => kind \notin {"crashed", "answered"},
           replies' = Append(replies, reply), Finish(Failed(kind)),
           UNCHANGED <<provider, purpose, output>>
    PROVE  RoutingInvariant'
<1>1. replies' \in Seq(Replies) /\ Len(replies') <= 2
  BY AnswerArrives DEF Awaiting
<1>2. Requests'
  BY <1>1, AnswerArrives DEF Requests, Awaiting
<1>3. /\ outcome' = Failed(kind) /\ step' = "done" /\ deadline' = "none"
      /\ Failed(kind).kind = kind /\ Failed(kind).arguments \in Arguments
  BY FailedIs DEF Finish
<1>4. Types' /\ Progress'
  BY <1>1, <1>3 DEF RoutingInvariant, Types, Progress
<1>5. Outcome'
  BY <1>3 DEF Outcome
<1>6. QED
  BY <1>2, <1>4, <1>5 DEF RoutingInvariant

\* The call ends without another reply, by an outcome that is no decision.
LEMMA CallerEnds ==
    ASSUME RoutingInvariant, NEW kind \in {"model_timeout", "cancelled"},
           Finish(Failed(kind)), UNCHANGED <<provider, purpose, replies, output>>
    PROVE  RoutingInvariant'
<1>1. /\ outcome' = Failed(kind) /\ step' = "done" /\ deadline' = "none"
      /\ Failed(kind).kind = kind /\ Failed(kind).arguments \in Arguments
  BY FailedIs DEF Finish
<1>2. Types' /\ Progress' /\ Requests'
  BY <1>1 DEF RoutingInvariant, Types, Progress, Requests
<1>3. Outcome'
  BY <1>1 DEF Outcome, Kinds
<1>4. QED
  BY <1>2, <1>3 DEF RoutingInvariant

LEMMA InitRouting == Init => RoutingInvariant
<1> SUFFICES ASSUME Init PROVE RoutingInvariant
  OBVIOUS
<1>1. Types /\ Progress /\ Outcome
  BY DEF Init, Types, Progress, Outcome, OrNone
<1>2. Requests
  BY DEF Init, Requests
<1>3. QED
  BY <1>1, <1>2 DEF RoutingInvariant

LEMMA NextRouting == RoutingInvariant /\ [Next]_vars => RoutingInvariant'
<1> SUFFICES ASSUME RoutingInvariant, [Next]_vars PROVE RoutingInvariant'
  OBVIOUS
<1>1. CASE UNCHANGED vars \/ Finished
  BY <1>1 DEF vars, Finished, RoutingInvariant, Types, Progress, Requests, Outcome
<1>2. ASSUME NEW message \in Messages, RouteByKeyword(message)
      PROVE  RoutingInvariant'
  <2> DEFINE d == KeywordDecision(message)
  <2>1. d.kind = "decision" /\ d.arguments \in Arguments /\ Callable(d)
    BY KeywordDecisionIsCallable
  <2>2. /\ step = "idle" /\ step' = "done" /\ purpose' = "keyword" /\ outcome' = d
        /\ UNCHANGED <<provider, deadline, replies, output>>
    BY <1>2 DEF RouteByKeyword
  <2> HIDE DEF d
  <2>3. replies = <<>> /\ output = None /\ deadline = "none"
    BY <2>2 DEF RoutingInvariant, Progress
  <2>4. Types' /\ Progress' /\ Requests'
    BY <2>2, <2>3 DEF RoutingInvariant, Types, Progress, Requests, OrNone
  <2>5. Outcome'
    BY <2>1, <2>2, <2>3 DEF Outcome, Kinds
  <2>6. QED
    BY <2>4, <2>5 DEF RoutingInvariant
<1>3. ASSUME NEW goal \in {"answer", "route"}, Begin(goal)
      PROVE  RoutingInvariant'
  BY <1>3 DEF Begin, RoutingInvariant, Types, Progress, Requests, Outcome, OrNone
<1>4. CASE CallTimesOut
  BY <1>4, ReplyEnds DEF CallTimesOut, Replies, Kinds
<1>5. ASSUME NEW reply \in {"error", "empty"}, CallFails(reply)
      PROVE  RoutingInvariant'
  <2>1. Awaiting /\ replies' = Append(replies, reply) /\ UNCHANGED <<provider, purpose, output>>
    BY <1>5 DEF CallFails
  <2>2. CASE step = "native"
    <3>1. /\ replies' \in Seq(Replies) /\ Len(replies') = 1 /\ replies'[1] = reply
      BY <2>1, <2>2, AnswerArrives DEF Replies
    <3>2. step' = "plain" /\ UNCHANGED <<deadline, outcome>>
      BY <1>5, <2>2 DEF CallFails, FallsBack
    <3>3. Types' /\ Progress' /\ Requests' /\ Outcome'
      BY <2>1, <2>2, <3>1, <3>2
         DEF RoutingInvariant, Types, Progress, Requests, Outcome
    <3>4. QED
      BY <3>3 DEF RoutingInvariant
  <2>3. CASE step # "native"
    <3>1. Finish(Failed("model_error"))
      BY <1>5, <2>3 DEF CallFails, FallsBack
    <3>2. QED
      BY <2>1, <3>1, ReplyEnds DEF Replies, Kinds
  <2>4. QED
    BY <2>2, <2>3
<1>6. CASE CallCrashes
  <2> DEFINE kind == IF purpose = "route" THEN "model_error" ELSE "crashed"
  <2>1. Awaiting /\ replies' = Append(replies, "crash") /\ UNCHANGED <<provider, purpose, output>>
        /\ Finish(Failed(kind))
    BY <1>6 DEF CallCrashes, UntypedException
  <2>2. kind \in Kinds /\ kind # "decision"
        /\ (purpose = "route" => kind \notin {"crashed", "answered"})
    BY DEF Kinds
  <2>3. QED
    BY <2>1, <2>2, ReplyEnds DEF Replies
<1>7. CASE TextArrives
  <2> DEFINE kind == IF purpose = "answer" THEN "answered" ELSE "model_error"
  <2>1. Awaiting /\ replies' = Append(replies, "text") /\ UNCHANGED <<provider, purpose, output>>
        /\ Finish(Failed(kind))
    BY <1>7 DEF TextArrives
  <2>2. kind \in Kinds /\ kind # "decision"
        /\ (purpose = "route" => kind \notin {"crashed", "answered"})
    BY DEF Kinds
  <2>3. QED
    BY <2>1, <2>2, ReplyEnds DEF Replies
<1>8. ASSUME NEW parsed \in Outputs, RoutingArrives(parsed)
      PROVE  RoutingInvariant'
  <2> DEFINE d == DecisionOf(parsed, AllowedTools)
  <2>1. /\ Awaiting /\ purpose = "route" /\ replies' = Append(replies, "text")
        /\ output' = parsed /\ outcome' = d /\ step' = "done" /\ deadline' = "none"
        /\ UNCHANGED <<provider, purpose>>
    BY <1>8 DEF RoutingArrives, Finish
  <2>2. Judged(parsed, d)
    BY DecisionIsJudged
  <2> HIDE DEF d
  <2>3. replies' \in Seq(Replies) /\ Len(replies') <= 2
    BY <2>1, AnswerArrives DEF Awaiting, Replies
  <2>4. Requests'
    BY <2>1, <2>3, AnswerArrives DEF Requests, Awaiting, Replies
  <2>5. Types' /\ Progress'
    BY <2>1, <2>3 DEF RoutingInvariant, Types, Progress, OrNone
  <2>6. Outcome'
    BY <2>1, <2>2 DEF Outcome, Judged, Kinds
  <2>7. QED
    BY <2>4, <2>5, <2>6 DEF RoutingInvariant
<1>9. CASE DeadlinePasses
  BY <1>9 DEF DeadlinePasses, RoutingInvariant, Types, Progress, Requests, Outcome
<1>10. CASE TimeoutDelivered
  BY <1>10, CallerEnds DEF TimeoutDelivered
<1>11. CASE Cancel
  BY <1>11, CallerEnds DEF Cancel
<1>12. QED
  BY <1>1, <1>2, <1>3, <1>4, <1>5, <1>6, <1>7, <1>8, <1>9, <1>10, <1>11 DEF Next

\* A call's requests, replies, deadline and outcome go together at every one of its steps
\* (llm/base.py, ollama.py:28-60, openai.py:48-90, llm_router.py:124-165).
THEOREM RoutingInvariantHolds == Spec => []RoutingInvariant
<1>1. QED
  BY InitRouting, NextRouting, PTL DEF Spec

\* The types the run checks hold whatever the providers, outputs and messages.
THEOREM TypeCorrect == Spec => []TypeOK
<1>1. RoutingInvariant => TypeOK
  <2> SUFFICES ASSUME RoutingInvariant PROVE TypeOK
    OBVIOUS
  <2>1. Types
    BY DEF RoutingInvariant
  <2>2. Len(replies) <= 2
    BY DEF RoutingInvariant, Requests
  <2>3. outcome # None => step = "done"
    BY DEF RoutingInvariant, Types, Progress
  <2>4. step = "done" => outcome.kind \in Kinds /\ outcome.arguments \in Arguments
    BY DEF RoutingInvariant, Outcome
  <2>5. QED
    BY <2>1, <2>2, <2>3, <2>4 DEF Types, TypeOK, Replies
<1>2. QED
  BY <1>1, RoutingInvariantHolds, PTL

\* Whichever router made it and whatever the model wrote, a decision is one the runtime
\* can carry out and nothing of the model's output was dropped on the way
\* (llm_router.py:34-121, router.py:49-70).
THEOREM DecisionsAreCallable == Spec => []DecisionIsCallable
<1>1. RoutingInvariant => DecisionIsCallable
  <2> SUFFICES ASSUME RoutingInvariant, Routed PROVE DecisionIsCallable
    BY DEF DecisionIsCallable
  <2>1. step = "done" /\ outcome.kind = "decision"
    BY DEF Routed, RoutingInvariant, Types, Progress
  <2>2. /\ Callable(outcome)
        /\ output # None => Complete(output, outcome)
        /\ purpose = "route" /\ outcome.action # "direct" => outcome.tool_name \in AllowedTools
    BY <2>1 DEF RoutingInvariant, Outcome
  <2>3. QED
    BY <2>2 DEF DecisionIsCallable, NothingIsDropped, Callable, Complete
<1>2. QED
  BY <1>1, RoutingInvariantHolds, PTL

\* A second request is made only for routing, and only after a first one that failed or
\* was empty, whichever the client and however the deadline falls (ollama.py:35-37,
\* openai.py:60-70).
THEOREM FallbackIsEarned == Spec => []OnlyFailedRoutingFallsBack
<1>1. RoutingInvariant => OnlyFailedRoutingFallsBack
  BY DEF RoutingInvariant, Progress, Requests, OnlyFailedRoutingFallsBack
<1>2. QED
  BY <1>1, RoutingInvariantHolds, PTL

\* The LLM router never lets an untyped exception through (llm_router.py:148-155).
THEOREM RoutingErrorsAreTyped == Spec => []RoutingFailsTyped
<1>1. RoutingInvariant => RoutingFailsTyped
  BY DEF RoutingInvariant, Outcome, RoutingFailsTyped
<1>2. QED
  BY <1>1, RoutingInvariantHolds, PTL
=============================================================================
