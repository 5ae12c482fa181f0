--------------------------- MODULE AgentOutcomeProofs ---------------------------
(***************************************************************************)
(* Proofs about what a run of AgentRun leaves behind, for every budget,    *)
(* registry, router and tool: its trace accounts for its attempts and ends *)
(* with its only terminal event, the caller sees nothing but the behaviour *)
(* of RunContract, class and token of a failed run tell what its last      *)
(* attempt came to, and the rows stored of the run are its events and      *)
(* never contradict them.                                                  *)
(***************************************************************************)
EXTENDS AgentRunProofs, PersistedTrace

-----------------------------------------------------------------------------
(* The trace: every step appends at most two events, and only the step     *)
(* into the end of the graph appends a terminal one.                       *)

\* s with event appended, stamped with its order.
Logged(s, event) == Append(s, [event EXCEPT !.order = Len(s)])

EventsNamed(s, names) == {i \in DOMAIN s : s[i].name \in names}

TerminalNames == {"run_completed", "run_failed"}

LEMMA LoggedFields ==
    ASSUME NEW s \in Seq(TraceEvent), NEW event \in TraceEvent
    PROVE  /\ Logged(s, event) \in Seq(TraceEvent)
           /\ Len(Logged(s, event)) = Len(s) + 1
           /\ DOMAIN Logged(s, event) = 1..(Len(s) + 1)
           /\ \A i \in 1..Len(s) : Logged(s, event)[i] = s[i]
           /\ LET last == Logged(s, event)[Len(s) + 1]
              IN  /\ last.name = event.name /\ last.status = event.status
                  /\ last.failure_class = event.failure_class
                  /\ last.attempt = event.attempt
<1> DEFINE stamped == [event EXCEPT !.order = Len(s)]
<1>1. Len(s) \in Nat
  OBVIOUS
<1>2. stamped \in TraceEvent
  BY <1>1 DEF TraceEvent
<1>3. /\ stamped.name = event.name /\ stamped.status = event.status
      /\ stamped.failure_class = event.failure_class /\ stamped.attempt = event.attempt
  BY DEF TraceEvent
<1> HIDE DEF stamped
<1>4. Logged(s, event) = Append(s, stamped)
  BY DEF Logged, stamped
<1>5. QED
  BY <1>1, <1>2, <1>3, <1>4

LEMMA LoggedNames ==
    ASSUME NEW s \in Seq(TraceEvent), NEW event \in TraceEvent, NEW names
    PROVE  /\ event.name \in names =>
                 EventsNamed(Logged(s, event), names) = EventsNamed(s, names) \cup {Len(s) + 1}
           /\ event.name \notin names =>
                 EventsNamed(Logged(s, event), names) = EventsNamed(s, names)
<1>1. Len(s) \in Nat /\ DOMAIN s = 1..Len(s)
  OBVIOUS
<1>2. \A i \in 1..(Len(s) + 1) : i \in 1..Len(s) \/ i = Len(s) + 1
  BY <1>1
<1>3. 1..Len(s) \subseteq 1..(Len(s) + 1) /\ Len(s) + 1 \in 1..(Len(s) + 1)
      /\ Len(s) + 1 \notin 1..Len(s)
  BY <1>1
<1> DEFINE t == Logged(s, event)
<1>4. /\ DOMAIN t = 1..(Len(s) + 1)
      /\ \A i \in 1..Len(s) : t[i] = s[i]
      /\ t[Len(s) + 1].name = event.name
  BY LoggedFields
<1> HIDE DEF t
<1>5. EventsNamed(t, names) = {i \in 1..(Len(s) + 1) : t[i].name \in names}
      /\ EventsNamed(s, names) = {i \in 1..Len(s) : s[i].name \in names}
  BY <1>1, <1>4 DEF EventsNamed
<1>6. QED
  BY <1>2, <1>3, <1>4, <1>5 DEF t

LEMMA LoggedKeeps ==
    ASSUME NEW s \in Seq(TraceEvent), NEW event \in TraceEvent, NEW names,
           NEW i \in EventsNamed(s, names)
    PROVE  Logged(s, event)[i] = s[i]
<1>1. i \in 1..Len(s)
  BY DEF EventsNamed
<1>2. QED
  BY <1>1, LoggedFields

LEMMA EventsAre ==
    /\ \A router : RunStarted(router).name = "run_started"
    /\ \A router, decision : RouteSelected(router, decision).name = "route_selected"
    /\ \A tool, n : /\ ToolStarted(tool, n).name = "tool_started"
                    /\ ToolStarted(tool, n).attempt = n
    /\ \A tool, result, class, n :
          ToolEvent(tool, result, class, n).name \in {"tool_completed", "tool_failed"}
    /\ \A verified : VerificationCompleted(verified).name = "verification_completed"
    /\ \A action : RecoveryDecided(action).name = "recovery_decision"
    /\ RunCompleted.name = "run_completed" /\ RunCompleted.status = "completed"
    /\ RunCompleted.failure_class = None
    /\ \A status, class : /\ RunFailed(status, class).name = "run_failed"
                          /\ RunFailed(status, class).status = status
                          /\ RunFailed(status, class).failure_class = class
<1>1. \A router : RunStarted(router).name = "run_started"
  BY DEF RunStarted, Event
<1>2. \A router, decision : RouteSelected(router, decision).name = "route_selected"
  BY DEF RouteSelected, Event
<1>3. \A tool, n : /\ ToolStarted(tool, n).name = "tool_started"
                   /\ ToolStarted(tool, n).attempt = n
  BY DEF ToolStarted, Event
<1>4. \A tool, result, class, n :
          ToolEvent(tool, result, class, n).name \in {"tool_completed", "tool_failed"}
  BY DEF ToolEvent, Event
<1>5. \A verified : VerificationCompleted(verified).name = "verification_completed"
  BY DEF VerificationCompleted, Event
<1>6. \A action : RecoveryDecided(action).name = "recovery_decision"
  BY DEF RecoveryDecided, Event
<1>7. RunCompleted.name = "run_completed" /\ RunCompleted.status = "completed"
      /\ RunCompleted.failure_class = None
  BY DEF RunCompleted, Event
<1>8. \A status, class : /\ RunFailed(status, class).name = "run_failed"
                         /\ RunFailed(status, class).status = status
                         /\ RunFailed(status, class).failure_class = class
  BY DEF RunFailed, Event
<1>9. QED
  BY <1>1, <1>2, <1>3, <1>4, <1>5, <1>6, <1>7, <1>8

Calling == node = "tool_node" /\ deadline # "none"

\* A deadline is open only over an await of the node.
DeadlineAccounted ==
    deadline # "none" =>
        \/ node \in {"route_node", "tool_node"}
        \/ node = "answer_node" /\ agent.decision.action = "direct"

LEMMA NextDeadline ==
    TypeOK /\ RunInvariant /\ Accounts /\ DeadlineAccounted /\ [Next]_vars => DeadlineAccounted'
<1> SUFFICES ASSUME TypeOK, RunInvariant, DeadlineAccounted, [Next]_vars
             PROVE  DeadlineAccounted'
  OBVIOUS
<1>1. CASE Start
  BY <1>1 DEF Start, DeadlineAccounted
<1>2. ASSUME NEW decision \in Decisions, RouteTo(decision)
      PROVE  DeadlineAccounted'
  BY <1>2 DEF RouteTo, DeadlineAccounted
<1>3. ASSUME NEW class \in ModelFailures, NEW decision \in OrNone(RejectedDecisions),
             RouteFails(class, decision)
      PROVE  DeadlineAccounted'
  BY <1>3 DEF RouteFails, DeadlineAccounted
<1>4. CASE ToolMissing
  BY <1>4, ToolMissingFields DEF DeadlineAccounted, RunInvariant
<1>5. CASE CallTool
  BY <1>5, CallToolFields DEF DeadlineAccounted
<1>6. CASE ToolCallEnds
  BY <1>6, ToolCallOutcome, AttemptFields DEF DeadlineAccounted
<1>7. CASE VerifyResult
  BY <1>7, VerifyFields DEF DeadlineAccounted
<1>8. CASE Recover
  BY <1>8, RecoverFields DEF DeadlineAccounted
<1>9. CASE ModelAnswers
  BY <1>9 DEF ModelAnswers, DeadlineAccounted
<1>10. ASSUME NEW class \in ModelFailures, ModelFails(class)
       PROVE  DeadlineAccounted'
  BY <1>10 DEF ModelFails, DeadlineAccounted
<1>11. CASE AnswerFromTool
  BY <1>11, AnswerFromToolFields DEF DeadlineAccounted
<1>12. CASE QuietStep
  BY <1>12, QuietStepFields
     DEF DeadlineAccounted, QuietStep, DeadlinePasses, CallModel, ModelCrashes, Return,
         Raise, Cancel, vars
<1>13. QED
  BY <1>1, <1>2, <1>3, <1>4, <1>5, <1>6, <1>7, <1>8, <1>9, <1>10, <1>11, <1>12, StepKinds

\* The events of a run that goes on.
RunningNames == {"run_started", "route_selected", "verification_completed", "recovery_decision"}

LogsRunning ==
    /\ RunUnderWay /\ node' \in Nodes
    /\ ~Calling /\ ~Calling' /\ UNCHANGED agent.attempts
    /\ \E event \in TraceEvent : /\ event.name \in RunningNames
                                 /\ agent'.events = Logged(agent.events, event)

LogsEnd ==
    /\ node \in Nodes /\ node' = "end"
    /\ ~Calling /\ ~Calling' /\ UNCHANGED agent.attempts
    /\ \E event \in TraceEvent, shown \in Seq(TraceEvent) :
          /\ \/ shown = agent.events
             \/ \E first \in TraceEvent : /\ first.name \in RunningNames
                                          /\ shown = Logged(agent.events, first)
          /\ agent'.events = Logged(shown, event)
          /\ event.name \in TerminalNames
          /\ event.status = agent'.status /\ event.failure_class = agent'.failure_class

LogsToolStart ==
    /\ node = "tool_node" /\ node' = "tool_node"
    /\ ~Calling /\ Calling' /\ UNCHANGED agent.attempts
    /\ \E event \in TraceEvent : /\ event.name = "tool_started"
                                 /\ event.attempt = agent.attempts + 1
                                 /\ agent'.events = Logged(agent.events, event)

LogsToolEnd ==
    /\ node = "tool_node" /\ node' = "verify_node"
    /\ Calling /\ ~Calling' /\ agent'.attempts = agent.attempts + 1
    /\ \E event \in TraceEvent : /\ event.name \in {"tool_completed", "tool_failed"}
                                 /\ agent'.events = Logged(agent.events, event)

LEMMA TraceSteps ==
    ASSUME TypeOK, RunInvariant, Accounts, DeadlineAccounted, [Next]_vars
    PROVE  LogsRunning \/ LogsEnd \/ LogsToolStart \/ LogsToolEnd \/ QuietStep
<1>0. /\ agent.events \in Seq(TraceEvent) /\ agent.attempts \in Nat
      /\ agent.router_type \in RouterTypes /\ agent \in AgentState
      /\ agent.failure_class \in OrNone(FailureClasses)
  BY StateTypes DEF TypeOK, AgentState
<1>a. AttemptsAccounted /\ CleanAccounted
  BY DEF Accounts
<1>1. CASE Start
  <2>1. RunStarted(agent.router_type) \in TraceEvent
    BY <1>0, RunStartedType
  <2>2. agent'.events = Logged(agent.events, RunStarted(agent.router_type))
    BY <1>1, StartFields DEF Appended, Logged
  <2>3. node = "start" /\ node' = "route_node" /\ UNCHANGED agent.attempts
    BY <1>1, StartFields
  <2>4. LogsRunning
    BY <2>1, <2>2, <2>3, EventsAre DEF LogsRunning, RunningNames, RunUnderWay, Nodes, Calling
  <2>5. QED
    BY <2>4
<1>2. ASSUME NEW decision \in Decisions, RouteTo(decision)
      PROVE  LogsRunning
  <2>1. /\ node = "route_node" /\ node' = AfterRoute(agent', pending_error)
        /\ deadline' = "none" /\ pending_error = None
        /\ UNCHANGED <<agent.status, agent.attempts>> /\ agent.status = "running"
        /\ decision \in AgentDecision
        /\ Appended(RouteSelected(agent.router_type, decision))
    BY <1>a, <1>2, RouteToFields DEF AttemptsAccounted, RunUnderWay, Nodes
  <2>2. node' \in Nodes
    BY <2>1 DEF AfterRoute, Nodes
  <2>3. RouteSelected(agent.router_type, decision) \in TraceEvent
    BY <1>0, <2>1, RouteSelectedType
  <2>4. agent'.events = Logged(agent.events, RouteSelected(agent.router_type, decision))
    BY <2>1 DEF Appended, Logged
  <2>5. QED
    BY <2>1, <2>2, <2>3, <2>4, EventsAre DEF LogsRunning, RunningNames, RunUnderWay, Nodes, Calling
<1>3. ASSUME NEW class \in ModelFailures, NEW decision \in OrNone(RejectedDecisions),
             RouteFails(class, decision)
      PROVE  LogsEnd
  <2> DEFINE first == RouteSelected(agent.router_type, decision)
             shown == IF decision = None THEN agent.events ELSE Logged(agent.events, first)
             event == RunFailed("failed", class)
  <2>1. /\ node = "route_node" /\ node' = "end" /\ UNCHANGED agent.attempts
        /\ agent'.status = "failed" /\ agent'.failure_class = class
        /\ agent'.events = Logged(shown, event)
        /\ decision # None => first \in TraceEvent
    BY <1>3, RouteFailsFields DEF Logged
  <2>2. event \in TraceEvent
    BY TerminalEventType DEF Statuses, FailureClasses, OrNone
  <2>3. shown \in Seq(TraceEvent)
    BY <1>0, <2>1, LoggedFields
  <2>4. first.name \in RunningNames
    BY EventsAre DEF RunningNames
  <2>5. /\ event.name \in TerminalNames /\ event.status = "failed"
        /\ event.failure_class = class
    BY EventsAre DEF TerminalNames
  <2> HIDE DEF first, event
  <2>6. shown = agent.events \/ (first \in TraceEvent /\ shown = Logged(agent.events, first))
    BY <2>1
  <2> HIDE DEF shown
  <2>7. QED
    BY <2>1, <2>2, <2>3, <2>4, <2>5, <2>6 DEF LogsEnd, Nodes, Calling
<1>4. CASE ToolMissing
  <2> DEFINE event == RunFailed("needs_human_review", "tool_error")
  <2>1. /\ node = "tool_node" /\ node' = "end" /\ UNCHANGED <<deadline, agent.attempts>>
        /\ agent'.status = "needs_human_review" /\ agent'.failure_class = "tool_error"
        /\ agent'.events = Logged(agent.events, event)
        /\ agent.decision.tool_name \notin Tools
    BY <1>4, ToolMissingFields DEF Appended, Logged
  <2>2. event \in TraceEvent
    BY TerminalEventType DEF Statuses, FailureClasses, ToolFailures, OrNone
  <2>3. /\ event.name \in TerminalNames /\ event.status = "needs_human_review"
        /\ event.failure_class = "tool_error"
    BY EventsAre DEF TerminalNames
  <2>4. ~Calling
    BY <2>1 DEF RunInvariant, Calling
  <2> HIDE DEF event
  <2>5. LogsEnd
    BY <1>0, <2>1, <2>2, <2>3, <2>4 DEF LogsEnd, Nodes, Calling
  <2>6. QED
    BY <2>5
<1>5. CASE CallTool
  <2> DEFINE event == ToolStarted(agent.decision.tool_name, agent.attempts + 1)
  <2>1. /\ node = "tool_node" /\ deadline = "none" /\ deadline' = "open" /\ node' = node
        /\ UNCHANGED agent.attempts /\ agent.decision.tool_name \in Tools
        /\ agent'.events = Logged(agent.events, event)
    BY <1>5, CallToolFields DEF Appended, Logged
  <2>2. event \in TraceEvent
    BY <1>0, <2>1, ToolStartedType
  <2>3. event.name = "tool_started" /\ event.attempt = agent.attempts + 1
    BY EventsAre
  <2> HIDE DEF event
  <2>4. LogsToolStart
    BY <2>1, <2>2, <2>3 DEF LogsToolStart, Calling
  <2>5. QED
    BY <2>4
<1>6. CASE ToolCallEnds
  <2>1. PICK result \in ToolResult, class \in OrNone(ToolFailures) : AttemptEnds(result, class)
    BY <1>6, ToolCallOutcome
  <2>2. /\ node = "tool_node" /\ deadline # "none" /\ agent.decision.tool_name \in Tools
        /\ agent.status = "running"
    BY <1>a, <1>6, ToolCallOutcome DEF AttemptsAccounted, Nodes
  <2> DEFINE event == ToolEvent(agent.decision.tool_name, result, class, agent.attempts + 1)
  <2>3. /\ node' = "verify_node" /\ agent'.attempts = agent.attempts + 1
        /\ agent'.events = Logged(agent.events, event)
    BY <2>1, <2>2, AttemptFields DEF Appended, Logged
  <2>4. event \in TraceEvent
    BY <1>0, <2>2, ToolEventType
  <2>5. event.name \in {"tool_completed", "tool_failed"}
    BY EventsAre
  <2> HIDE DEF event
  <2>6. LogsToolEnd
    BY <2>2, <2>3, <2>4, <2>5 DEF LogsToolEnd, Calling
  <2>7. QED
    BY <2>6
<1>7. CASE VerifyResult
  <2> DEFINE event == VerificationCompleted(Verdict)
  <2>1. /\ node = "verify_node" /\ node' \in {"answer_node", "recovery_node"}
        /\ UNCHANGED agent.attempts /\ Verdict \in BOOLEAN
        /\ agent'.events = Logged(agent.events, event)
    BY <1>7, VerifyFields DEF Appended, Logged
  <2>2. event \in TraceEvent
    BY <2>1, VerificationCompletedType
  <2>3. event.name \in RunningNames
    BY EventsAre DEF RunningNames
  <2> HIDE DEF event
  <2>4. LogsRunning
    BY <2>1, <2>2, <2>3 DEF LogsRunning, RunUnderWay, Nodes, Calling
  <2>5. QED
    BY <2>4
<1>8. CASE Recover
  <2> DEFINE first == RecoveryDecided(RecoveryAction)
             event == RunFailed("needs_human_review", agent.failure_class)
             shown == Logged(agent.events, first)
  <2>1. /\ node = "recovery_node" /\ deadline = "none" /\ deadline' = "none"
        /\ UNCHANGED <<agent.attempts, agent.failure_class>>
        /\ RecoveryAction \in RecoveryActions
    BY <1>8, RecoverFields DEF DeadlineAccounted
  <2>2. /\ first \in TraceEvent /\ event \in TraceEvent
    BY <1>0, <2>1, RecoveryDecidedType, TerminalEventType DEF Statuses
  <2>3. first.name \in RunningNames
    BY EventsAre DEF RunningNames
  <2>4. /\ event.name \in TerminalNames /\ event.status = "needs_human_review"
        /\ event.failure_class = agent.failure_class
    BY EventsAre DEF TerminalNames
  <2>5. shown \in Seq(TraceEvent)
    BY <1>0, <2>2, LoggedFields
  <2>6. RecoveryAction = "retry" => node' = "tool_node" /\ agent'.events = shown
    BY <1>8, RecoverFields DEF Appended, Logged
  <2>7. RecoveryAction # "retry" => /\ node' = "end" /\ agent'.events = Logged(shown, event)
                                    /\ agent'.status = "needs_human_review"
    BY <1>8, RecoverFields DEF Logged
  <2>8. shown = Logged(agent.events, first)
    OBVIOUS
  <2> HIDE DEF first, event, shown
  <2>9. RecoveryAction = "retry" => LogsRunning
    BY <2>1, <2>2, <2>3, <2>6, <2>8 DEF LogsRunning, RunUnderWay, Nodes, Calling
  <2>10. RecoveryAction # "retry" => LogsEnd
    BY <2>1, <2>2, <2>3, <2>4, <2>5, <2>7, <2>8 DEF LogsEnd, Nodes, Calling
  <2>11. QED
    BY <2>9, <2>10
<1>9. CASE ModelAnswers \/ AnswerFromTool
  <2>1. /\ node = "answer_node" /\ node' = "end" /\ UNCHANGED agent.attempts
        /\ agent'.status = "completed" /\ agent'.failure_class = None
        /\ agent'.events = Logged(agent.events, RunCompleted)
    BY <1>a, <1>9, ModelAnswersFields, AnswerFromToolFields
       DEF Appended, Logged, AttemptsAccounted, CleanAccounted
  <2>2. RunCompleted \in TraceEvent
    BY TerminalEventType DEF Statuses, OrNone
  <2>3. LogsEnd
    BY <1>0, <2>1, <2>2, EventsAre DEF LogsEnd, Nodes, Calling, TerminalNames
  <2>4. QED
    BY <2>3
<1>10. ASSUME NEW class \in ModelFailures, ModelFails(class)
       PROVE  LogsEnd
  <2> DEFINE event == RunFailed("failed", class)
  <2>1. /\ node = "answer_node" /\ node' = "end" /\ UNCHANGED agent.attempts
        /\ agent'.status = "failed" /\ agent'.failure_class = class
        /\ agent'.events = Logged(agent.events, event)
    BY <1>10, ModelFailsFields DEF Appended, Logged
  <2>2. event \in TraceEvent
    BY TerminalEventType DEF Statuses, FailureClasses, OrNone
  <2>3. /\ event.name \in TerminalNames /\ event.status = "failed"
        /\ event.failure_class = class
    BY EventsAre DEF TerminalNames
  <2> HIDE DEF event
  <2>4. QED
    BY <1>0, <2>1, <2>2, <2>3 DEF LogsEnd, Nodes, Calling
<1>11. QED
  BY <1>1, <1>2, <1>3, <1>4, <1>5, <1>6, <1>7, <1>8, <1>9, <1>10, StepKinds

LEMMA TerminalIndicesAre ==
    /\ TerminalIndices = EventsNamed(agent.events, TerminalNames)
    /\ Indices("tool_started") = EventsNamed(agent.events, {"tool_started"})
    /\ Indices("tool_completed") \cup Indices("tool_failed")
          = EventsNamed(agent.events, {"tool_completed", "tool_failed"})
BY DEF TerminalIndices, Indices, EventsNamed, TerminalNames

TraceClosed ==
    /\ EventsNamed(agent.events, TerminalNames) \subseteq {Len(agent.events)}
    /\ RunUnderWay => EventsNamed(agent.events, TerminalNames) = {}
    /\ node \in {"end", "returned"} =>
          /\ EventsNamed(agent.events, TerminalNames) # {}
          /\ agent.events[Len(agent.events)].status = agent.status
          /\ agent.events[Len(agent.events)].failure_class = agent.failure_class

LEMMA NextTraceClosed ==
    TypeOK /\ RunInvariant /\ Accounts /\ DeadlineAccounted /\ TraceClosed /\ [Next]_vars
        => TraceClosed'
<1> SUFFICES ASSUME TypeOK, RunInvariant, Accounts, DeadlineAccounted, TraceClosed, [Next]_vars
             PROVE  TraceClosed'
  OBVIOUS
<1>0. agent.events \in Seq(TraceEvent) /\ Len(agent.events) \in Nat
  BY StateTypes
<1>1. CASE LogsRunning
  <2>1. PICK event \in TraceEvent : /\ event.name \in RunningNames
                                    /\ agent'.events = Logged(agent.events, event)
    BY <1>1 DEF LogsRunning
  <2>2. event.name \notin TerminalNames
    BY <2>1 DEF RunningNames, TerminalNames
  <2>3. EventsNamed(agent'.events, TerminalNames) = EventsNamed(agent.events, TerminalNames)
    BY <1>0, <2>1, <2>2, LoggedNames
  <2>4. EventsNamed(agent.events, TerminalNames) = {}
    BY <1>1 DEF LogsRunning, TraceClosed
  <2>5. node' \notin {"end", "returned"}
    BY <1>1 DEF LogsRunning, Nodes
  <2>6. QED
    BY <2>3, <2>4, <2>5 DEF TraceClosed
<1>2. CASE LogsEnd
  <2>1. PICK event \in TraceEvent, shown \in Seq(TraceEvent) :
          /\ \/ shown = agent.events
             \/ \E first \in TraceEvent : /\ first.name \in RunningNames
                                          /\ shown = Logged(agent.events, first)
          /\ agent'.events = Logged(shown, event)
          /\ event.name \in TerminalNames
          /\ event.status = agent'.status /\ event.failure_class = agent'.failure_class
    BY <1>2 DEF LogsEnd
  <2>2. EventsNamed(agent.events, TerminalNames) = {}
    BY <1>2 DEF LogsEnd, TraceClosed, RunUnderWay
  <2>3. \A first \in TraceEvent : first.name \in RunningNames =>
           EventsNamed(Logged(agent.events, first), TerminalNames)
              = EventsNamed(agent.events, TerminalNames)
    BY <1>0, LoggedNames DEF RunningNames, TerminalNames
  <2>4. EventsNamed(shown, TerminalNames) = {}
    BY <2>1, <2>2, <2>3
  <2>5. EventsNamed(agent'.events, TerminalNames) = {Len(shown) + 1}
    BY <2>1, <2>4, LoggedNames
  <2>6. /\ Len(agent'.events) = Len(shown) + 1
        /\ agent'.events[Len(shown) + 1].status = event.status
        /\ agent'.events[Len(shown) + 1].failure_class = event.failure_class
    BY <2>1, LoggedFields
  <2>7. node' = "end" /\ ~RunUnderWay'
    BY <1>2 DEF LogsEnd, RunUnderWay, Nodes
  <2>8. QED
    BY <2>1, <2>5, <2>6, <2>7 DEF TraceClosed
<1>3. CASE LogsToolStart \/ LogsToolEnd
  <2>1. PICK event \in TraceEvent :
           /\ event.name \in {"tool_started", "tool_completed", "tool_failed"}
           /\ agent'.events = Logged(agent.events, event)
    BY <1>3 DEF LogsToolStart, LogsToolEnd
  <2>2. event.name \notin TerminalNames
    BY <2>1 DEF TerminalNames
  <2>3. EventsNamed(agent'.events, TerminalNames) = EventsNamed(agent.events, TerminalNames)
    BY <1>0, <2>1, <2>2, LoggedNames
  <2>4. EventsNamed(agent.events, TerminalNames) = {}
    BY <1>3 DEF LogsToolStart, LogsToolEnd, TraceClosed, RunUnderWay, Nodes
  <2>5. node' \notin {"end", "returned"}
    BY <1>3 DEF LogsToolStart, LogsToolEnd
  <2>6. QED
    BY <2>3, <2>4, <2>5 DEF TraceClosed
<1>4. CASE QuietStep
  <2>1. agent' = agent
    BY <1>4, QuietStepFields
  <2>2. /\ RunUnderWay' => RunUnderWay
        /\ node' \in {"end", "returned"} => node \in {"end", "returned"}
    BY <1>4 DEF QuietStep, DeadlinePasses, CallModel, ModelCrashes, Return, Raise, Cancel,
                vars, RunUnderWay, Nodes
  <2>3. QED
    BY <2>1, <2>2 DEF TraceClosed
<1>5. QED
  BY <1>1, <1>2, <1>3, <1>4, TraceSteps

-----------------------------------------------------------------------------
(* The attempts in the trace.  open stands for a call that was started and *)
(* has not ended.                                                          *)

ToolStarts(s) == EventsNamed(s, {"tool_started"})
ToolEnds(s) == EventsNamed(s, {"tool_completed", "tool_failed"})

TraceTells(s, attempts, open) ==
    /\ IsFiniteSet(ToolStarts(s)) /\ IsFiniteSet(ToolEnds(s))
    /\ Cardinality(ToolStarts(s)) = IF open THEN attempts + 1 ELSE attempts
    /\ Cardinality(ToolEnds(s)) = attempts
    /\ \A i \in ToolStarts(s) :
          /\ s[i].attempt = Cardinality({j \in ToolStarts(s) : j <= i})
          /\ i + 1 \in ToolEnds(s) \/ (open /\ i = Len(s))

\* An event that is no tool event changes nothing of the account.
LEMMA OtherEventTold ==
    ASSUME NEW s \in Seq(TraceEvent), NEW event \in TraceEvent, NEW n \in Nat,
           TraceTells(s, n, FALSE),
           event.name \notin {"tool_started", "tool_completed", "tool_failed"}
    PROVE  TraceTells(Logged(s, event), n, FALSE)
<1> DEFINE t == Logged(s, event)
<1>1. ToolStarts(t) = ToolStarts(s) /\ ToolEnds(t) = ToolEnds(s)
  BY LoggedNames DEF ToolStarts, ToolEnds
<1>2. \A i \in ToolStarts(s) : t[i] = s[i]
  BY LoggedKeeps DEF ToolStarts
<1> HIDE DEF t
<1>3. TraceTells(t, n, FALSE)
  BY <1>1, <1>2 DEF TraceTells
<1>4. QED
  BY <1>3 DEF t

LEMMA ToolStartTold ==
    ASSUME NEW s \in Seq(TraceEvent), NEW event \in TraceEvent, NEW n \in Nat,
           TraceTells(s, n, FALSE),
           event.name = "tool_started", event.attempt = n + 1
    PROVE  TraceTells(Logged(s, event), n, TRUE)
<1> DEFINE t == Logged(s, event)
           k == Len(s) + 1
<1>1. /\ ToolStarts(t) = ToolStarts(s) \cup {k} /\ ToolEnds(t) = ToolEnds(s)
  BY LoggedNames DEF ToolStarts, ToolEnds
<1>2. (\A i \in ToolStarts(s) : t[i] = s[i]) /\ t[k].attempt = n + 1 /\ Len(t) = k
  BY LoggedKeeps, LoggedFields DEF ToolStarts
<1>3. Len(s) \in Nat /\ \A i \in ToolStarts(s) : i \in Nat /\ i < k
  BY DEF ToolStarts, EventsNamed
<1>4. k \notin ToolStarts(s) /\ k \in Nat
  BY <1>3
<1>5. /\ IsFiniteSet(ToolStarts(s)) /\ IsFiniteSet(ToolEnds(s))
      /\ Cardinality(ToolStarts(s)) = n /\ Cardinality(ToolEnds(s)) = n
      /\ \A i \in ToolStarts(s) :
            /\ s[i].attempt = Cardinality({j \in ToolStarts(s) : j <= i})
            /\ i + 1 \in ToolEnds(s)
  BY DEF TraceTells
<1> HIDE DEF t, k
<1>6. IsFiniteSet(ToolStarts(t)) /\ Cardinality(ToolStarts(t)) = n + 1
  BY <1>1, <1>4, <1>5, FS_AddElement
<1>7. \A i \in ToolStarts(s) : {j \in ToolStarts(t) : j <= i} = {j \in ToolStarts(s) : j <= i}
  BY <1>1, <1>3, <1>4
<1>8. {j \in ToolStarts(t) : j <= k} = ToolStarts(t)
  BY <1>1, <1>3, <1>4
<1>9. \A i \in ToolStarts(t) :
         /\ t[i].attempt = Cardinality({j \in ToolStarts(t) : j <= i})
         /\ i + 1 \in ToolEnds(t) \/ i = Len(t)
  <2>1. ASSUME NEW i \in ToolStarts(s)
        PROVE  /\ t[i].attempt = Cardinality({j \in ToolStarts(t) : j <= i})
               /\ i + 1 \in ToolEnds(t)
    BY <1>1, <1>2, <1>5, <1>7
  <2>2. t[k].attempt = Cardinality({j \in ToolStarts(t) : j <= k}) /\ k = Len(t)
    BY <1>2, <1>6, <1>8
  <2>3. QED
    BY <1>1, <2>1, <2>2
<1>10. TraceTells(t, n, TRUE)
  BY <1>1, <1>5, <1>6, <1>9 DEF TraceTells
<1>11. QED
  BY <1>10 DEF t

LEMMA ToolEndTold ==
    ASSUME NEW s \in Seq(TraceEvent), NEW event \in TraceEvent, NEW n \in Nat,
           TraceTells(s, n, TRUE),
           event.name \in {"tool_completed", "tool_failed"}
    PROVE  TraceTells(Logged(s, event), n + 1, FALSE)
<1> DEFINE t == Logged(s, event)
           k == Len(s) + 1
<1>1. /\ ToolEnds(t) = ToolEnds(s) \cup {k} /\ ToolStarts(t) = ToolStarts(s)
  BY LoggedNames DEF ToolStarts, ToolEnds
<1>2. \A i \in ToolStarts(s) : t[i] = s[i]
  BY LoggedKeeps DEF ToolStarts
<1>3. k \notin ToolEnds(s)
  BY DEF ToolEnds, EventsNamed
<1>4. /\ IsFiniteSet(ToolStarts(s)) /\ IsFiniteSet(ToolEnds(s))
      /\ Cardinality(ToolStarts(s)) = n + 1 /\ Cardinality(ToolEnds(s)) = n
      /\ \A i \in ToolStarts(s) :
            /\ s[i].attempt = Cardinality({j \in ToolStarts(s) : j <= i})
            /\ i + 1 \in ToolEnds(s) \/ i + 1 = k
  BY DEF TraceTells
<1> HIDE DEF t, k
<1>5. IsFiniteSet(ToolEnds(t)) /\ Cardinality(ToolEnds(t)) = n + 1
  BY <1>1, <1>3, <1>4, FS_AddElement
<1>6. TraceTells(t, n + 1, FALSE)
  BY <1>1, <1>2, <1>4, <1>5 DEF TraceTells
<1>7. QED
  BY <1>6 DEF t

\* A cancelled run keeps the call it was cut off in.
TraceAccounted ==
    \E open \in BOOLEAN :
        /\ TraceTells(agent.events, agent.attempts, open)
        /\ open => agent.attempts < CallBudget
        /\ node # "cancelled" => (open <=> Calling)

LEMMA NextTraceAccounted ==
    TypeOK /\ RunInvariant /\ Accounts /\ DeadlineAccounted /\ TraceAccounted /\ [Next]_vars
        => TraceAccounted'
<1> SUFFICES ASSUME TypeOK, RunInvariant, Accounts, DeadlineAccounted, TraceAccounted, [Next]_vars
             PROVE  TraceAccounted'
  OBVIOUS
<1>0. /\ agent.events \in Seq(TraceEvent) /\ agent.attempts \in Nat
      /\ CallBudget \in Nat /\ CallBudget >= 1 /\ CallBudget >= MaxAttempts /\ MaxAttempts \in Nat
  BY StateTypes, RunAssumption DEF CallBudget
<1>1. PICK open \in BOOLEAN :
        /\ TraceTells(agent.events, agent.attempts, open)
        /\ open => agent.attempts < CallBudget
        /\ node # "cancelled" => (open <=> Calling)
  BY DEF TraceAccounted
<1>2. CASE LogsRunning
  <2>1. PICK event \in TraceEvent : /\ event.name \in RunningNames
                                    /\ agent'.events = Logged(agent.events, event)
    BY <1>2 DEF LogsRunning
  <2>2. event.name \notin {"tool_started", "tool_completed", "tool_failed"}
    BY <2>1 DEF RunningNames
  <2>3. ~Calling /\ ~Calling' /\ agent'.attempts = agent.attempts /\ node # "cancelled"
    BY <1>2 DEF LogsRunning, RunUnderWay, Nodes
  <2>4. TraceTells(agent.events, agent.attempts, FALSE)
    BY <1>1, <2>3
  <2>5. TraceTells(agent'.events, agent'.attempts, FALSE)
    BY <1>0, <2>1, <2>2, <2>3, <2>4, OtherEventTold
  <2>6. QED
    BY <2>3, <2>5 DEF TraceAccounted
<1>3. CASE LogsEnd
  <2>1. PICK event \in TraceEvent, shown \in Seq(TraceEvent) :
          /\ \/ shown = agent.events
             \/ \E first \in TraceEvent : /\ first.name \in RunningNames
                                          /\ shown = Logged(agent.events, first)
          /\ agent'.events = Logged(shown, event)
          /\ event.name \in TerminalNames
    BY <1>3 DEF LogsEnd
  <2>2. event.name \notin {"tool_started", "tool_completed", "tool_failed"}
    BY <2>1 DEF TerminalNames
  <2>3. ~Calling /\ ~Calling' /\ agent'.attempts = agent.attempts /\ node # "cancelled"
    BY <1>3 DEF LogsEnd, Nodes
  <2>4. TraceTells(agent.events, agent.attempts, FALSE)
    BY <1>1, <2>3
  <2>5. \A first \in TraceEvent : first.name \in RunningNames =>
           first.name \notin {"tool_started", "tool_completed", "tool_failed"}
    BY DEF RunningNames
  <2>6. TraceTells(shown, agent.attempts, FALSE)
    BY <1>0, <2>1, <2>4, <2>5, OtherEventTold
  <2>7. TraceTells(agent'.events, agent'.attempts, FALSE)
    BY <1>0, <2>1, <2>2, <2>3, <2>6, OtherEventTold
  <2>8. QED
    BY <2>3, <2>7 DEF TraceAccounted
<1>4. CASE LogsToolStart
  <2>1. PICK event \in TraceEvent : /\ event.name = "tool_started"
                                    /\ event.attempt = agent.attempts + 1
                                    /\ agent'.events = Logged(agent.events, event)
    BY <1>4 DEF LogsToolStart
  <2>2. /\ ~Calling /\ Calling' /\ agent'.attempts = agent.attempts /\ node = "tool_node"
    BY <1>4 DEF LogsToolStart
  <2>3. TraceTells(agent.events, agent.attempts, FALSE)
    BY <1>1, <2>2
  <2>4. TraceTells(agent'.events, agent'.attempts, TRUE)
    BY <1>0, <2>1, <2>2, <2>3, ToolStartTold
  <2>5. agent.attempts < CallBudget
    <3>1. agent.attempts > 0 => agent.attempts < MaxAttempts
      BY <2>2 DEF Accounts, AttemptsAccounted
    <3>2. QED
      BY <1>0, <3>1
  <2>6. QED
    BY <2>2, <2>4, <2>5 DEF TraceAccounted, CallBudget
<1>5. CASE LogsToolEnd
  <2>1. PICK event \in TraceEvent : /\ event.name \in {"tool_completed", "tool_failed"}
                                    /\ agent'.events = Logged(agent.events, event)
    BY <1>5 DEF LogsToolEnd
  <2>2. /\ Calling /\ ~Calling' /\ agent'.attempts = agent.attempts + 1 /\ node = "tool_node"
    BY <1>5 DEF LogsToolEnd
  <2>3. TraceTells(agent.events, agent.attempts, TRUE)
    BY <1>1, <2>2
  <2>4. TraceTells(agent'.events, agent'.attempts, FALSE)
    BY <1>0, <2>1, <2>2, <2>3, ToolEndTold
  <2>5. QED
    BY <2>2, <2>4 DEF TraceAccounted
<1>6. CASE QuietStep
  <2>1. agent' = agent
    BY <1>6, QuietStepFields
  <2>2. node' # "cancelled" => node # "cancelled" /\ (Calling <=> Calling')
    BY <1>6 DEF QuietStep, DeadlinePasses, CallModel, ModelCrashes, Return, Raise, Cancel,
                vars, Calling
  <2>3. /\ TraceTells(agent'.events, agent'.attempts, open)
        /\ open => agent'.attempts < CallBudget
        /\ node' # "cancelled" => (open <=> Calling')
    BY <1>1, <2>1, <2>2
  <2>4. QED
    BY <2>3 DEF TraceAccounted
<1>7. QED
  BY <1>2, <1>3, <1>4, <1>5, <1>6, TraceSteps

LEMMA InitTrace == Init => DeadlineAccounted /\ TraceClosed /\ TraceAccounted
<1> SUFFICES ASSUME Init PROVE DeadlineAccounted /\ TraceClosed /\ TraceAccounted
  OBVIOUS
<1>1. /\ node = "start" /\ deadline = "none" /\ agent.events = <<>> /\ agent.attempts = 0
  BY DEF Init, FreshState
<1>2. \A names : EventsNamed(<<>>, names) = {}
  BY DEF EventsNamed
<1>3. DeadlineAccounted /\ TraceClosed
  BY <1>1, <1>2 DEF DeadlineAccounted, TraceClosed
<1>4. ToolStarts(<<>>) = {} /\ ToolEnds(<<>>) = {}
  BY <1>2 DEF ToolStarts, ToolEnds
<1>5. IsFiniteSet({}) /\ Cardinality({}) = 0
  BY FS_EmptySet
<1>6. TraceTells(<<>>, 0, FALSE)
  BY <1>4, <1>5 DEF TraceTells
<1>7. QED
  BY <1>1, <1>3, <1>6 DEF TraceAccounted, Calling

LEMMA TraceHolds ==
    Spec => [](TypeOK /\ RunInvariant /\ Accounts /\ DeadlineAccounted /\ TraceClosed
                 /\ TraceAccounted)
<1> DEFINE Inv == TypeOK /\ RunInvariant /\ Accounts /\ DeadlineAccounted
<1>1. Init => DeadlineAccounted /\ TraceClosed /\ TraceAccounted
  BY InitTrace
<1>2. Inv /\ [Next]_vars => DeadlineAccounted'
  BY NextDeadline
<1>3. Inv /\ TraceClosed /\ [Next]_vars => TraceClosed'
  BY NextTraceClosed
<1>4. Inv /\ TraceAccounted /\ [Next]_vars => TraceAccounted'
  BY NextTraceAccounted
<1>5. QED
  BY <1>1, <1>2, <1>3, <1>4, AccountsHold, PTL DEF Spec

\* The trace has one terminal event, it is the last one, and it carries the status
\* and the class the run ended with; a run that is still looping has none
\* (async_runtime.py:233-257, 272-276, 407-411, 426-449).
THEOREM TerminalEventIsLast == Spec => []TerminalEventClosesTrace
<1>1. TraceClosed => TerminalEventClosesTrace
  BY TerminalIndicesAre DEF TraceClosed, TerminalEventClosesTrace, RunUnderWay
<1>2. QED
  BY <1>1, TraceHolds, PTL

\* The trace tells the attempts as they happened: the k-th start is attempt k, each
\* finished call has its outcome right behind its start, and there are never more
\* calls than the budget, retries, deadlines and cancellation included
\* (async_runtime.py:280-347).
THEOREM TraceAccounts == Spec => []TraceAccountsForAttempts
<1>1. TypeOK /\ RunInvariant /\ Accounts /\ TraceAccounted => TraceAccountsForAttempts
  <2> SUFFICES ASSUME TypeOK, Accounts, TraceAccounted
               PROVE  TraceAccountsForAttempts
    OBVIOUS
  <2>1. PICK open \in BOOLEAN :
          /\ TraceTells(agent.events, agent.attempts, open)
          /\ open => agent.attempts < CallBudget
          /\ node # "cancelled" => (open <=> Calling)
    BY DEF TraceAccounted
  <2>2. /\ Indices("tool_started") = ToolStarts(agent.events)
        /\ Indices("tool_completed") \cup Indices("tool_failed") = ToolEnds(agent.events)
    BY TerminalIndicesAre DEF ToolStarts, ToolEnds
  <2>3. \A i \in ToolStarts(agent.events) :
           /\ agent.events[i].attempt = Cardinality({j \in ToolStarts(agent.events) : j <= i})
           /\ \/ i + 1 \in ToolEnds(agent.events)
              \/ Calling /\ i = Len(agent.events)
              \/ node = "cancelled"
    BY <2>1 DEF TraceTells
  <2>4. Cardinality(ToolEnds(agent.events)) = agent.attempts
    BY <2>1 DEF TraceTells
  <2>5. Cardinality(ToolStarts(agent.events)) <= CallBudget
    <3>1. agent.attempts \in Nat /\ agent.attempts <= CallBudget /\ CallBudget \in Nat
      BY StateTypes, RunAssumption DEF Accounts, AttemptsAccounted, CallBudget
    <3>2. Cardinality(ToolStarts(agent.events)) = IF open THEN agent.attempts + 1
                                                  ELSE agent.attempts
      BY <2>1 DEF TraceTells
    <3>3. QED
      BY <2>1, <3>1, <3>2
  <2>6. Len(agent.observations) = agent.attempts
    BY DEF Accounts, AttemptsAccounted
  <2>7. QED
    BY <2>2, <2>3, <2>4, <2>5, <2>6 DEF TraceAccountsForAttempts, Calling, CallBudget
<1>2. QED
  BY <1>1, TraceHolds, PTL

-----------------------------------------------------------------------------
(* The refinement: what the caller sees is a behaviour of RunContract.     *)

ToolAnswersAreGrounded ==
    TypeOK /\ RunInvariant /\ Accounts /\ node = "returned" /\ response.source = "tool"
        => AnswerIsGrounded

LEMMA AnswerIsGroundedWhenReturned == ToolAnswersAreGrounded
<1> SUFFICES ASSUME TypeOK, RunInvariant, Accounts, node = "returned",
                    response.source = "tool"
             PROVE  AnswerIsGrounded
  BY DEF ToolAnswersAreGrounded
<1>1. response # None
  BY DEF Accounts, EvidenceAccounted
<1>2. /\ LastResultIsVerified /\ response.about = agent.tool_result.data
      /\ agent.tool_result # None
  BY <1>1 DEF RunInvariant
<1>3. agent.tool_result \in ToolResult
  BY <1>2, StateTypes DEF OrNone
<1>4. response.about # None
  BY <1>2, <1>3, RunAssumption DEF ToolResult
<1>5. Grounded(response.about)
  BY <1>2, <1>4
     DEF Grounded, LastResultIsVerified, Verify, WorkOrderIsValidFor, PolicyIsValidFor,
         WorkOrderRequest, PolicyRequest, InScope
<1>6. QED
  BY <1>5 DEF AnswerIsGrounded

\* How the run looks at work and when it ends.
Seen ==
    /\ node \notin Endings => VisiblePhase = "working" /\ AnswerIsGrounded = FALSE
    /\ node = "raised" => VisiblePhase = "failed" /\ AnswerIsGrounded = FALSE
    /\ node = "cancelled" => VisiblePhase = "cancelled" /\ AnswerIsGrounded = FALSE
    /\ node = "returned" =>
          VisiblePhase = IF response.source = "review" THEN "review" ELSE "answered"
    /\ node = "returned" /\ response.source # "tool" => AnswerIsGrounded = FALSE

LEMMA WhatIsSeen == Seen
BY DEF Seen, VisiblePhase, AnswerIsGrounded, Endings

LEMMA EveryRunStepMaps ==
    TypeOK /\ RunInvariant /\ Accounts /\ [Next]_vars
        => [Contract!ContractNext]_(Contract!contractVars)
<1> SUFFICES ASSUME TypeOK, RunInvariant, Accounts, [Next]_vars
             PROVE  [Contract!ContractNext]_(Contract!contractVars)
  OBVIOUS
<1>0. /\ AttemptsAccounted /\ EvidenceAccounted /\ agent.attempts \in Nat
      /\ TypeOK' /\ RunInvariant' /\ Accounts'
  BY StateTypes, NextTypeOK, NextRunInvariant, NextAccounts DEF Accounts
<1>1. /\ remembered \in BOOLEAN /\ remembered' \in BOOLEAN
      /\ remembered <=> node = "returned"
      /\ remembered' <=> node' = "returned"
  BY <1>0 DEF TypeOK, EvidenceAccounted, Accounts
<1>2. Seen /\ Seen'
  BY WhatIsSeen, PTL
<1>3. ASSUME node \notin Endings, node' \notin Endings, agent'.attempts = agent.attempts
      PROVE  UNCHANGED Contract!contractVars
  BY <1>1, <1>2, <1>3 DEF Seen, Endings, Contract!contractVars
<1>4. CASE Start \/ ToolMissing \/ CallTool \/ VerifyResult \/ Recover \/ ModelAnswers
            \/ AnswerFromTool \/ DeadlinePasses \/ CallModel
  <2>1. CASE Start
    BY <1>3, <2>1, StartFields DEF Endings
  <2>2. CASE ToolMissing
    BY <1>3, <2>2, ToolMissingFields DEF Endings
  <2>3. CASE CallTool
    BY <1>3, <2>3, CallToolFields DEF Endings
  <2>4. CASE VerifyResult
    BY <1>3, <2>4, VerifyFields DEF Endings
  <2>5. CASE Recover
    BY <1>3, <2>5, RecoverFields DEF Endings
  <2>6. CASE ModelAnswers
    BY <1>3, <2>6, ModelAnswersFields DEF Endings
  <2>7. CASE AnswerFromTool
    BY <1>3, <2>7, AnswerFromToolFields DEF Endings
  <2>8. CASE CallModel
    BY <1>3, <2>8 DEF CallModel, Endings
  <2>9. CASE DeadlinePasses
    <3>1. UNCHANGED <<node, agent, remembered, response, scope>>
      BY <2>9 DEF DeadlinePasses
    <3>2. QED
      BY <3>1 DEF Contract!contractVars, VisiblePhase, AnswerIsGrounded, Grounded
  <2>10. QED
    BY <1>4, <2>1, <2>2, <2>3, <2>4, <2>5, <2>6, <2>7, <2>8, <2>9
<1>5. ASSUME NEW decision \in Decisions, RouteTo(decision)
      PROVE  UNCHANGED Contract!contractVars
  <2>1. node = "route_node" /\ node' = AfterRoute(agent', pending_error)
        /\ agent'.attempts = agent.attempts
    BY <1>5, RouteToFields
  <2>2. node' \notin Endings
    BY <2>1 DEF AfterRoute, Endings
  <2>3. QED
    BY <1>3, <2>1, <2>2 DEF Endings
<1>6. ASSUME NEW class \in ModelFailures, NEW decision \in OrNone(RejectedDecisions),
             RouteFails(class, decision)
      PROVE  UNCHANGED Contract!contractVars
  BY <1>3, <1>6, RouteFailsFields DEF Endings
<1>7. ASSUME NEW class \in ModelFailures, ModelFails(class)
      PROVE  UNCHANGED Contract!contractVars
  BY <1>3, <1>7, ModelFailsFields DEF Endings
<1>8. CASE ToolCallEnds
  <2>1. PICK result \in ToolResult, class \in OrNone(ToolFailures) : AttemptEnds(result, class)
    BY <1>8, ToolCallOutcome
  <2>2. /\ node = "tool_node" /\ agent.decision.tool_name \in Tools
        /\ agent.status = "running"
    BY <1>0, <1>8, ToolCallOutcome DEF AttemptsAccounted, Nodes
  <2>3. node' = "verify_node" /\ agent'.attempts = agent.attempts + 1
    BY <2>1, <2>2, AttemptFields
  <2>4. agent.attempts < CallBudget
    <3>1. /\ MaxAttempts \in Nat /\ CallBudget \in Nat
          /\ CallBudget >= 1 /\ CallBudget >= MaxAttempts
      BY RunAssumption DEF CallBudget
    <3>2. agent.attempts > 0 => agent.attempts < MaxAttempts
      BY <1>0, <2>2 DEF AttemptsAccounted
    <3>3. QED
      BY <1>0, <3>1, <3>2
  <2>5. /\ VisiblePhase = "working" /\ VisiblePhase' = "working"
        /\ AnswerIsGrounded' = AnswerIsGrounded /\ remembered' = remembered
    BY <1>1, <1>2, <2>2, <2>3 DEF Seen, Endings
  <2>6. Contract!ToolCallEnds
    BY <2>3, <2>4, <2>5 DEF Contract!ToolCallEnds
  <2>7. QED
    BY <2>6 DEF Contract!ContractNext
<1>9. CASE Return
  <2>1. /\ node = "end" /\ node' = "returned" /\ pending_error = None
        /\ UNCHANGED <<agent, response>>
    BY <1>9 DEF Return
  <2>2. response # None /\ response.source \in {"model", "tool", "review"}
    BY <1>0, <2>1 DEF EvidenceAccounted, TypeOK, OrNone, Response
  <2>3. /\ VisiblePhase = "working" /\ AnswerIsGrounded = FALSE
        /\ VisiblePhase' = IF response.source = "review" THEN "review" ELSE "answered"
        /\ response.source # "tool" => AnswerIsGrounded' = FALSE
        /\ remembered' = TRUE /\ agent'.attempts = agent.attempts
    BY <1>1, <1>2, <2>1 DEF Seen, Endings
  <2>4. CASE response.source = "review"
    <3>1. Contract!Review
      BY <2>3, <2>4 DEF Contract!Review
    <3>2. QED
      BY <3>1 DEF Contract!ContractNext
  <2>5. CASE response.source = "model"
    <3>1. agent.attempts = 0
      BY <1>0, <2>1, <2>2, <2>5 DEF EvidenceAccounted, AttemptsAccounted
    <3>2. Contract!AnswerModel
      BY <2>3, <2>5, <3>1 DEF Contract!AnswerModel
    <3>3. QED
      BY <3>2 DEF Contract!ContractNext
  <2>6. CASE response.source = "tool"
    <3>1. agent.attempts > 0
      BY <1>0, <2>1, <2>2, <2>6 DEF EvidenceAccounted
    <3>2. ToolAnswersAreGrounded'
      BY AnswerIsGroundedWhenReturned, PTL
    <3>3. AnswerIsGrounded' = TRUE
      BY <1>0, <2>1, <2>6, <3>2 DEF ToolAnswersAreGrounded, AnswerIsGrounded
    <3>4. Contract!AnswerTool
      BY <2>3, <2>6, <3>1, <3>3 DEF Contract!AnswerTool
    <3>5. QED
      BY <3>4 DEF Contract!ContractNext
  <2>7. QED
    BY <2>2, <2>4, <2>5, <2>6
<1>10. CASE Raise \/ ModelCrashes
  <2>1. /\ node \in {"end", "answer_node"} /\ node' = "raised" /\ agent' = agent
        /\ \/ pending_error # None
           \/ agent.decision.action = "direct"
    BY <1>10 DEF Raise, ModelCrashes
  <2>2. agent.attempts = 0
    BY <1>0, <2>1 DEF AttemptsAccounted
  <2>3. /\ VisiblePhase = "working" /\ VisiblePhase' = "failed"
        /\ AnswerIsGrounded' = AnswerIsGrounded /\ remembered' = remembered
    BY <1>1, <1>2, <2>1 DEF Seen, Endings
  <2>4. Contract!Fail
    BY <2>1, <2>2, <2>3 DEF Contract!Fail
  <2>5. QED
    BY <2>4 DEF Contract!ContractNext
<1>11. CASE Cancel
  <2>1. node \in Nodes \cup {"end"} /\ node' = "cancelled" /\ agent' = agent
    BY <1>11 DEF Cancel
  <2>2. /\ VisiblePhase = "working" /\ VisiblePhase' = "cancelled"
        /\ AnswerIsGrounded' = AnswerIsGrounded /\ remembered' = remembered
    BY <1>1, <1>2, <2>1 DEF Seen, Endings, Nodes
  <2>3. Contract!Abandon
    BY <2>1, <2>2 DEF Contract!Abandon
  <2>4. QED
    BY <2>3 DEF Contract!ContractNext
<1>12. CASE UNCHANGED vars
  BY <1>12 DEF vars, Contract!contractVars, VisiblePhase, AnswerIsGrounded, Grounded
<1>13. QED
  BY <1>4, <1>5, <1>6, <1>7, <1>8, <1>9, <1>10, <1>11, <1>12, StepKinds DEF QuietStep

\* What the caller of run_detailed sees is what RunContract promises: a bounded number
\* of tool calls and then one ending, an answer of a tool only after a call and only
\* about a payload the caller may see, no exception once a tool has been called, and
\* the conversation remembered exactly when the run returns
\* (async_runtime.py:127-182, 233-257).
THEOREM RunContractIsKept == Spec => Contract!ContractSafety
<1>1. Init => Contract!ContractInit
  <2> SUFFICES ASSUME Init PROVE Contract!ContractInit
    OBVIOUS
  <2>1. node = "start" /\ agent.attempts = 0 /\ remembered = FALSE
    BY DEF Init, FreshState
  <2>2. QED
    BY <2>1, WhatIsSeen DEF Contract!ContractInit, Seen, Endings
<1>2. QED
  BY <1>1, EveryRunStepMaps, AccountsHold, PTL DEF Spec, Contract!ContractSafety

-----------------------------------------------------------------------------
(* The ExecutionTrace of a run that returned.                              *)

\* A run that is reported as a success carries nothing of the attempts it took, and
\* it was verified exactly if it used a tool, so that an operator who reads the trace
\* of a success need not ask what was retried on the way (trace.py:63-118).
THEOREM SuccessesAreClean == Spec => []SuccessIsClean
<1>1. TypeOK /\ RunInvariant /\ Accounts => SuccessIsClean
  <2> SUFFICES ASSUME TypeOK, RunInvariant, AttemptsAccounted, EvidenceAccounted,
                      CleanAccounted, Traced, Trace.outcome = "success"
               PROVE  /\ Trace.failure_class = None
                      /\ Trace.error_code = None
                      /\ Trace.decision = "use_tool" <=> Trace.verification_result = TRUE
                      /\ Trace.selected_tool # None <=> Trace.verification_result = TRUE
    BY DEF Accounts, SuccessIsClean
  <2>1. /\ Trace.outcome = Outcome(agent) /\ Trace.failure_class = agent.failure_class
        /\ Trace.error_code = TerminalErrorCode(agent)
        /\ Trace.verification_result = agent.verification_result
        /\ Trace.decision = IF agent.decision = None THEN None ELSE agent.decision.action
        /\ Trace.selected_tool =
              IF agent.decision = None \/ agent.decision.action # "use_tool"
              THEN None ELSE agent.decision.tool_name
    BY DEF Trace, TraceFromState
  <2> HIDE DEF Trace
  <2>2. agent.status = "completed"
    <3>1. CASE agent.status = "failed"
      <4>1. Outcome(agent) = "failure"
        BY <3>1, Zenon DEF Outcome
      <4>2. QED
        BY <2>1, <4>1
    <3>2. CASE agent.status # "completed" /\ agent.status # "failed"
      <4>1. Outcome(agent) = agent.status
        BY <3>2, Zenon DEF Outcome
      <4>2. QED
        BY <2>1, <4>1, StateTypes DEF Statuses
    <3>3. QED
      BY <3>1, <3>2
  <2>3. agent.failure_class = None /\ TerminalErrorCode(agent) = None
    BY <2>2 DEF CleanAccounted, TerminalErrorCode
  <2>4. node = "returned" /\ response # None /\ response.source \in {"tool", "model"}
    BY <2>2 DEF Traced, EvidenceAccounted, TypeOK, OrNone, Response
  <2>5. CASE response.source = "tool"
    <3>1. /\ agent.decision # None /\ agent.decision.action = "use_tool"
          /\ agent.verification_result = TRUE /\ agent.decision.tool_name \in Tools
      BY <2>4, <2>5 DEF RunInvariant, EvidenceAccounted, AttemptsAccounted
    <3>2. agent.decision.tool_name # None
      BY <3>1, RunAssumption DEF ToolNames
    <3>3. QED
      BY <2>1, <2>3, <3>1, <3>2
  <2>6. CASE response.source = "model"
    <3>1. /\ agent.decision # None /\ agent.decision.action = "direct"
          /\ agent.verification_result = None
      BY <2>4, <2>6, StateTypes DEF EvidenceAccounted, AttemptsAccounted
    <3>2. None # TRUE
      BY GateAssumption
    <3>3. QED
      BY <2>1, <2>3, <3>1, <3>2
  <2>7. QED
    BY <2>4, <2>5, <2>6
<1>2. QED
  BY <1>1, AccountsHold, PTL

-----------------------------------------------------------------------------
(* The error token of a run that failed after a tool call.                 *)

\* The latest tool_failed event of s bears token.
FailedWith(s, token) ==
    \E k \in EventsNamed(s, {"tool_failed"}) :
        /\ \A j \in EventsNamed(s, {"tool_failed"}) : j <= k
        /\ s[k].error = token

\* The token of a last attempt that failed is in the latest result and in the trace.
TokenAccounted ==
    agent.observations # <<>> /\ ~Last(agent.observations).success =>
        LET token == Last(agent.observations).data.error
        IN  /\ agent.tool_result # None
            /\ agent.tool_result.success = FALSE
            /\ agent.tool_result.data.error = token
            /\ FailedWith(agent.events, token)

LEMMA OtherEventKeepsToken ==
    ASSUME NEW s \in Seq(TraceEvent), NEW event \in TraceEvent, NEW token,
           event.name # "tool_failed", FailedWith(s, token)
    PROVE  FailedWith(Logged(s, event), token)
<1>1. EventsNamed(Logged(s, event), {"tool_failed"}) = EventsNamed(s, {"tool_failed"})
  BY LoggedNames
<1>2. QED
  BY <1>1, LoggedKeeps DEF FailedWith

LEMMA FailedEventGivesToken ==
    ASSUME NEW s \in Seq(TraceEvent), NEW event \in TraceEvent, event.name = "tool_failed"
    PROVE  FailedWith(Logged(s, event), event.error)
<1> DEFINE stamped == [event EXCEPT !.order = Len(s)]
           t == Logged(s, event)
<1>1. /\ Len(s) \in Nat /\ DOMAIN s = 1..Len(s)
      /\ EventsNamed(t, {"tool_failed"}) = EventsNamed(s, {"tool_failed"}) \cup {Len(s) + 1}
  BY LoggedNames
<1>2. stamped.error = event.error /\ stamped \in TraceEvent
  BY <1>1 DEF TraceEvent
<1> HIDE DEF stamped
<1>3. t = Append(s, stamped)
  BY DEF Logged, stamped
<1> HIDE DEF t
<1>4. t[Len(s) + 1].error = event.error
  BY <1>1, <1>2, <1>3
<1>5. \A j \in EventsNamed(t, {"tool_failed"}) : j <= Len(s) + 1
  BY <1>1 DEF EventsNamed
<1>6. QED
  BY <1>1, <1>4, <1>5 DEF FailedWith, t

\* Of the steps only the end of a tool call touches the result or logs a failure.
LEMMA OtherStepKeepsToken ==
    ASSUME TypeOK, RunInvariant, Accounts, DeadlineAccounted, [Next]_vars, ~ToolCallEnds,
           TokenAccounted
    PROVE  TokenAccounted'
<1>1. UNCHANGED <<agent.tool_result, agent.observations>> /\ agent'.attempts = agent.attempts
  BY StepKinds, StartFields, RouteToFields, RouteFailsFields, ToolMissingFields,
     CallToolFields, VerifyFields, RecoverFields, ModelAnswersFields, ModelFailsFields,
     AnswerFromToolFields, QuietStepFields
<1>2. agent.events \in Seq(TraceEvent) /\ agent.attempts \in Nat
  BY StateTypes
<1>3. ASSUME NEW token, FailedWith(agent.events, token)
      PROVE  FailedWith(agent'.events, token)
  <2>1. CASE LogsRunning
    BY <1>2, <1>3, <2>1, OtherEventKeepsToken DEF LogsRunning, RunningNames
  <2>2. CASE LogsEnd
    <3>1. PICK event \in TraceEvent, shown \in Seq(TraceEvent) :
             /\ \/ shown = agent.events
                \/ \E first \in TraceEvent : /\ first.name \in RunningNames
                                             /\ shown = Logged(agent.events, first)
             /\ agent'.events = Logged(shown, event)
             /\ event.name \in TerminalNames
      BY <2>2 DEF LogsEnd
    <3>2. FailedWith(shown, token)
      BY <1>2, <1>3, <3>1, OtherEventKeepsToken DEF RunningNames
    <3>3. QED
      BY <3>1, <3>2, OtherEventKeepsToken DEF TerminalNames
  <2>3. CASE LogsToolStart
    BY <1>2, <1>3, <2>3, OtherEventKeepsToken DEF LogsToolStart
  <2>4. CASE LogsToolEnd
    BY <1>1, <1>2, <2>4 DEF LogsToolEnd
  <2>5. CASE QuietStep
    BY <1>3, <2>5, QuietStepFields
  <2>6. QED
    BY <2>1, <2>2, <2>3, <2>4, <2>5, TraceSteps
<1>4. QED
  BY <1>1, <1>3 DEF TokenAccounted

LEMMA ToolCallGivesToken ==
    ASSUME TypeOK, RunInvariant, Accounts, ToolCallEnds
    PROVE  TokenAccounted'
<1>1. PICK result \in ToolResult, class \in OrNone(ToolFailures) : AttemptEnds(result, class)
  BY ToolCallOutcome
<1>2. agent.decision.tool_name \in Tools
  BY ToolCallOutcome
<1> DEFINE new == [tool_name |-> agent.decision.tool_name, success |-> result.success,
                   data |-> result.data]
           event == ToolEvent(agent.decision.tool_name, result, class, agent.attempts + 1)
<1>3. /\ agent'.tool_result = result
      /\ agent'.observations = Append(agent.observations, new)
      /\ agent'.events = Logged(agent.events, event)
  BY <1>1, <1>2, AttemptFields DEF Appended, Logged
<1>4. /\ agent.events \in Seq(TraceEvent) /\ event \in TraceEvent
      /\ agent.observations \in Seq(Observation) /\ new \in Observation
  BY <1>2, StateTypes, ToolEventType DEF Observation, ToolResult
<1>5. new.success = result.success /\ new.data = result.data /\ result.success \in BOOLEAN
      /\ None \notin ToolResult
  BY RunAssumption DEF ToolResult
<1>6. ~result.success => event.name = "tool_failed" /\ event.error = result.data.error
  BY DEF ToolEvent, Event
<1> HIDE DEF new, event
<1>7. Last(agent'.observations) = new
  BY <1>3, <1>4 DEF Last
<1>8. QED
  BY <1>3, <1>4, <1>5, <1>6, <1>7, FailedEventGivesToken DEF TokenAccounted

LEMMA TokenHolds == Spec => [](TypeOK /\ RunInvariant /\ Accounts /\ TokenAccounted)
<1> DEFINE Base == TypeOK /\ RunInvariant /\ Accounts /\ DeadlineAccounted
<1>1. Init => TokenAccounted
  BY DEF Init, FreshState, TokenAccounted
<1>2. Base /\ TokenAccounted /\ [Next]_vars => TokenAccounted'
  BY OtherStepKeepsToken, ToolCallGivesToken
<1>3. Spec => []Base
  BY TraceHolds, PTL
<1>4. QED
  BY <1>1, <1>2, <1>3, PTL DEF Spec

\* What terminal_error_code finds when the last attempt failed.
LEMMA TokenIsOfLast ==
    ASSUME TypeOK, TokenAccounted, agent.status # "completed",
           agent.observations # <<>>, ~Last(agent.observations).success
    PROVE  TerminalErrorCode(agent) = Last(agent.observations).data.error
<1> DEFINE token == Last(agent.observations).data.error
           failed == {i \in DOMAIN agent.events : agent.events[i].name = "tool_failed"}
<1>1. failed = EventsNamed(agent.events, {"tool_failed"}) /\ failed \subseteq Int
  BY StateTypes DEF EventsNamed
<1>2. PICK k \in failed : (\A j \in failed : j <= k) /\ agent.events[k].error = token
  BY <1>1 DEF TokenAccounted, FailedWith
<1>3. \A i \in failed : (\A j \in failed : j <= i) => i = k
  BY <1>1, <1>2
<1>4. (CHOOSE i \in failed : \A j \in failed : j <= i) = k
  BY <1>2, <1>3
<1>5. /\ agent.tool_result # None /\ ~agent.tool_result.success
      /\ agent.tool_result.data.error = token
  BY DEF TokenAccounted
<1>6. TerminalErrorCode(agent) =
         IF failed # {} /\ agent.events[k].error # None THEN agent.events[k].error
         ELSE IF agent.tool_result # None /\ ~agent.tool_result.success
         THEN agent.tool_result.data.error ELSE None
  <2> DEFINE latest == CHOOSE i \in failed : \A j \in failed : j <= i
  <2>1. TerminalErrorCode(agent) =
           IF agent.status = "completed" THEN None
           ELSE IF failed # {} /\ agent.events[latest].error # None
           THEN agent.events[latest].error
           ELSE IF agent.tool_result # None /\ ~agent.tool_result.success
           THEN agent.tool_result.data.error ELSE None
    BY Zenon DEF TerminalErrorCode
  <2>2. latest = k
    BY <1>4
  <2> HIDE DEF latest, failed
  <2>3. QED
    BY <2>1, <2>2
<1>7. QED
  BY <1>2, <1>5, <1>6

\* An operator tells a time-out from a refusal by the class and the token together,
\* whatever the attempts before the last one left in the trace: a token of a tool's
\* never comes with tool_timeout, and the runtime's own comes with nothing else unless
\* the last attempt succeeded and was not verified (docs/DESIGN.md:170, trace.py:101-124).
THEOREM PairTellsTimeouts ==
    ASSUME TimeoutTokenIsTheRuntimes
    PROVE  Spec => []PairTellsTimeout
<1>1. TypeOK /\ Accounts /\ TokenAccounted /\ FailureClassIsOfLastAttempt => PairTellsTimeout
  <2> SUFFICES ASSUME TypeOK, AttemptsAccounted, TokenAccounted,
                      FailureClassIsOfLastAttempt, Traced,
                      Trace.outcome # "success", agent.observations # <<>>
               PROVE  LET last == Last(agent.observations)
                      IN  IF last.success
                          THEN Trace.failure_class = "verification_failure"
                          ELSE /\ Trace.error_code = last.data.error
                               /\ Trace.failure_class \in ToolFailures
                               /\ Trace.failure_class = "tool_timeout" <=>
                                     Trace.error_code = "tool_timeout"
    BY DEF Accounts, PairTellsTimeout
  <2>1. /\ Trace.outcome = Outcome(agent) /\ Trace.failure_class = agent.failure_class
        /\ Trace.error_code = TerminalErrorCode(agent)
    BY DEF Trace, TraceFromState
  <2> HIDE DEF Trace
  <2>2. agent.status # "completed"
    <3>1. agent.status = "completed" => Outcome(agent) = "success"
      BY Zenon DEF Outcome
    <3>2. QED
      BY <2>1, <3>1
  <2>3. node = "returned" /\ pending_error = None
    <3>1. agent.attempts > 0
      BY StateTypes DEF AttemptsAccounted
    <3>2. QED
      BY <3>1 DEF AttemptsAccounted, Traced
  <2> DEFINE last == Last(agent.observations)
  <2>4. agent.failure_class =
           CASE agent.observations = <<>> -> "tool_error"
             [] agent.observations # <<>> /\ last.success -> "verification_failure"
             [] /\ agent.observations # <<>> /\ ~last.success
                /\ last.data.error = "tool_timeout" -> "tool_timeout"
             [] OTHER -> "tool_error"
    BY <2>2, <2>3 DEF FailureClassIsOfLastAttempt
  <2>5. /\ last.success => agent.failure_class = "verification_failure"
        /\ ~last.success /\ last.data.error = "tool_timeout" =>
              agent.failure_class = "tool_timeout"
        /\ ~last.success /\ last.data.error # "tool_timeout" =>
              agent.failure_class = "tool_error"
    BY <2>4, Zenon
  <2>6. ~last.success => TerminalErrorCode(agent) = last.data.error
    BY <2>2, TokenIsOfLast
  <2> HIDE DEF last
  <2>7. QED
    BY <2>1, <2>5, <2>6 DEF ToolFailures, last
<1>2. QED
  BY <1>1, TokenHolds, FailureClassIsOfLast, PTL

-----------------------------------------------------------------------------
(* An ordered SELECT gives back the sequence whose members it was given,   *)
(* if each knows its position.                                             *)

Numbered(s) == \A i \in DOMAIN s : s[i].event_order = i - 1

\* The rows before the one at position k + 1.
RowsUpTo(s, k) == {s[i] : i \in 1..k}

LEMMA RowsUpToSize ==
    ASSUME NEW s, NEW n \in Nat, DOMAIN s = 1..n, Numbered(s), NEW k \in 0..n
    PROVE  IsFiniteSet(RowsUpTo(s, k)) /\ Cardinality(RowsUpTo(s, k)) = k
<1> DEFINE f == [i \in 1..k |-> s[i]]
<1>1. 1..k \subseteq 1..n
  OBVIOUS
<1>2. \A i, j \in 1..k : s[i] = s[j] => i = j
  <2> SUFFICES ASSUME NEW i \in 1..k, NEW j \in 1..k, s[i] = s[j] PROVE i = j
    OBVIOUS
  <2>1. s[i].event_order = i - 1 /\ s[j].event_order = j - 1
    BY <1>1 DEF Numbered
  <2>2. QED
    BY <2>1
<1>3. f \in Bijection(1..k, RowsUpTo(s, k))
  BY <1>2 DEF Bijection, Injection, Surjection, IsInjective, RowsUpTo
<1>4. ExistsBijection(1..k, RowsUpTo(s, k))
  BY <1>3 DEF ExistsBijection
<1>5. IsFiniteSet(1..k) /\ Cardinality(1..k) = k
  BY FS_Interval
<1>6. QED
  BY <1>4, <1>5, FS_Bijection

LEMMA StoredInOrder ==
    ASSUME NEW s, NEW n \in Nat, DOMAIN s = 1..n, Numbered(s)
    PROVE  StoredEvents(RowsUpTo(s, n)) = [i \in 1..n |-> s[i]]
<1> DEFINE rows == RowsUpTo(s, n)
           before(row) == {other \in rows : other.event_order < row.event_order}
<1>1. Cardinality(rows) = n
  BY RowsUpToSize
<1>2. ASSUME NEW i \in 1..n
      PROVE  s[i] \in rows /\ Cardinality(before(s[i])) = i - 1
  <2>1. \A j \in 1..n : s[j].event_order = j - 1
    BY DEF Numbered
  <2>2. before(s[i]) = RowsUpTo(s, i - 1)
    BY <2>1 DEF RowsUpTo
  <2>3. i - 1 \in 0..n
    OBVIOUS
  <2>4. Cardinality(RowsUpTo(s, i - 1)) = i - 1
    BY <2>3, RowsUpToSize
  <2>5. QED
    BY <2>2, <2>4 DEF RowsUpTo
<1>3. ASSUME NEW i \in 1..n, NEW row \in rows, Cardinality(before(row)) = i - 1
      PROVE  row = s[i]
  <2>1. PICK j \in 1..n : row = s[j]
    BY DEF RowsUpTo
  <2>2. j - 1 = i - 1
    BY <1>2, <1>3, <2>1
  <2>3. QED
    BY <2>1, <2>2
<1>4. ASSUME NEW i \in 1..n
      PROVE  (CHOOSE row \in rows : Cardinality(before(row)) = i - 1) = s[i]
  BY <1>2, <1>3
<1>5. StoredEvents(rows) =
         [i \in 1..n |-> CHOOSE row \in rows : Cardinality(before(row)) = i - 1]
  BY <1>1 DEF StoredEvents
<1>6. QED
  BY <1>4, <1>5

-----------------------------------------------------------------------------
(* The rows of a trace.                                                    *)

\* What the runtime records is what the allow-list lets through.
LEMMA NothingIsBlanked ==
    ASSUME NEW event
    PROVE  Sanitized(Metadata(event)) = Metadata(event)
<1>1. /\ DOMAIN Metadata(event) \subseteq MetadataKeys
      /\ Metadata(event) = [key \in DOMAIN Metadata(event) |-> Metadata(event)[key]]
  BY DEF Metadata
<1>2. MetadataKeys \subseteq AllowedKeys /\ MetadataKeys \cap BlockedKeys = {}
  BY DEF MetadataKeys, AllowedKeys, BlockedKeys
<1>3. {key \in (DOMAIN Metadata(event) \cap AllowedKeys) \ BlockedKeys :
          Persistable(key, Metadata(event)[key])} = DOMAIN Metadata(event)
  BY <1>1, <1>2 DEF Persistable
<1>4. QED
  BY <1>1, <1>3 DEF Sanitized

\* The row of an event.
RowOf(event) ==
    [event_order |-> event.order, name |-> event.name, metadata |-> Metadata(event)]

LEMMA RowFields ==
    \A event : RowOf(event).name = event.name /\ RowOf(event).metadata = Metadata(event)
BY DEF RowOf

LEMMA StoredEventsAre ==
    ASSUME NEW events \in Seq(TraceEvent), agent.events = events,
           \A i \in DOMAIN events : events[i].order = i - 1
    PROVE  /\ Stored.events = [i \in 1..Len(events) |-> RowOf(events[i])]
           /\ Len(Stored.events) = Len(events)
           /\ Stored.run = RunRow(Trace)
<1> DEFINE n == Len(events)
           rows == [i \in 1..n |-> RowOf(events[i])]
<1>1. n \in Nat /\ DOMAIN events = 1..n /\ DOMAIN rows = 1..n
  OBVIOUS
<1>2. \A i \in 1..n : rows[i] = RowOf(events[i]) /\ rows[i].event_order = i - 1
  BY <1>1 DEF RowOf
<1>3. Numbered(rows)
  BY <1>1, <1>2 DEF Numbered
<1>4. Trace.events = events
  BY DEF Trace, TraceFromState
<1>5. EventRowsOf(Trace) = {RowOf(events[i]) : i \in 1..n}
  BY <1>1, <1>4, NothingIsBlanked DEF EventRowsOf, RowOf
<1>6. {RowOf(events[i]) : i \in 1..n} = RowsUpTo(rows, n)
  BY <1>2 DEF RowsUpTo
<1>7. StoredEvents(RowsUpTo(rows, n)) = [i \in 1..n |-> rows[i]]
  BY <1>1, <1>3, StoredInOrder
<1>8. [i \in 1..n |-> rows[i]] = rows
  OBVIOUS
<1>9. Stored.events = rows /\ Stored.run = RunRow(Trace)
  BY <1>5, <1>6, <1>7, <1>8 DEF Stored
<1>10. Len(rows) = n
  OBVIOUS
<1>11. QED
  BY <1>9, <1>10

\* A key is stored exactly when the event has a value for it.
LEMMA MetadataIs ==
    ASSUME NEW event
    PROVE  /\ event.action # None => Metadata(event)["action"] = event.action
           /\ event.status # None => Metadata(event)["status"] = event.status
           /\ event.verified # None => Metadata(event)["verified"] = event.verified
           /\ event.tool_name # None <=> "tool_name" \in DOMAIN Metadata(event)
           /\ event.tool_name # None => Metadata(event)["tool_name"] = event.tool_name
           /\ event.failure_class # None <=> "failure_class" \in DOMAIN Metadata(event)
           /\ event.failure_class # None =>
                 Metadata(event)["failure_class"] = event.failure_class
<1> DEFINE given == {key \in MetadataKeys :
                        event[key] # None /\ (key = "attempt" => event.attempt > 0)}
<1>1. Metadata(event) = [key \in given |-> event[key]]
  BY DEF Metadata
<1>2. \A key \in MetadataKeys \ {"attempt"} : key \in given <=> event[key] # None
  OBVIOUS
<1>3. {"action", "status", "verified", "tool_name", "failure_class"}
         \subseteq MetadataKeys \ {"attempt"}
  BY DEF MetadataKeys
<1> HIDE DEF given
<1>4. QED
  BY <1>1, <1>2, <1>3

-----------------------------------------------------------------------------
(* What the events tell: the route, the last verdict and the retries.      *)

Routes(s) == EventsNamed(s, {"route_selected"})
Verdicts(s) == EventsNamed(s, {"verification_completed"})
Recoveries(s) == EventsNamed(s, {"recovery_decision"})
Retries(s) == {i \in Recoveries(s) : s[i].action = "retry"}

InOrder(s) == \A i \in DOMAIN s : s[i].order = i - 1

\* decision is None as long as the run is not routed.
RouteTold(s, decision) ==
    IF decision = None
    THEN Routes(s) = {}
    ELSE \E k \in DOMAIN s : /\ Routes(s) = {k}
                             /\ s[k].action = decision.action
                             /\ s[k].tool_name = decision.tool_name

VerdictTold(s, verdict) ==
    IF verdict = None
    THEN Verdicts(s) = {}
    ELSE \E k \in Verdicts(s) : /\ \A j \in Verdicts(s) : j <= k
                                /\ s[k].verified = verdict

RetriesTold(s, n) ==
    /\ IsFiniteSet(Retries(s)) /\ Cardinality(Retries(s)) = n
    /\ \A i \in Recoveries(s) : s[i].action # None

Told(s, decision, verdict, n) ==
    InOrder(s) /\ RouteTold(s, decision) /\ VerdictTold(s, verdict) /\ RetriesTold(s, n)

LEMMA LoggedMetadata ==
    ASSUME NEW s \in Seq(TraceEvent), NEW event \in TraceEvent
    PROVE  LET last == Logged(s, event)[Len(s) + 1]
           IN  /\ last.order = Len(s) /\ last.action = event.action
               /\ last.tool_name = event.tool_name /\ last.verified = event.verified
<1> DEFINE stamped == [event EXCEPT !.order = Len(s)]
<1>1. Len(s) \in Nat
  OBVIOUS
<1>2. stamped \in TraceEvent
  BY <1>1 DEF TraceEvent
<1>3. /\ stamped.order = Len(s) /\ stamped.action = event.action
      /\ stamped.tool_name = event.tool_name /\ stamped.verified = event.verified
  BY DEF TraceEvent
<1> HIDE DEF stamped
<1>4. Logged(s, event) = Append(s, stamped)
  BY DEF Logged, stamped
<1>5. QED
  BY <1>1, <1>2, <1>3, <1>4

LEMMA LoggedInOrder ==
    ASSUME NEW s \in Seq(TraceEvent), NEW event \in TraceEvent, InOrder(s)
    PROVE  InOrder(Logged(s, event))
<1> DEFINE t == Logged(s, event)
           n == Len(s)
<1>1. n \in Nat /\ DOMAIN s = 1..n
  OBVIOUS
<1>2. DOMAIN t = 1..(n + 1) /\ (\A i \in 1..n : t[i] = s[i]) /\ t[n + 1].order = n
  BY LoggedFields, LoggedMetadata
<1> HIDE DEF t, n
<1>3. \A i \in 1..(n + 1) : i \in 1..n \/ i = n + 1
  BY <1>1
<1>4. InOrder(t)
  BY <1>1, <1>2, <1>3 DEF InOrder
<1>5. QED
  BY <1>4 DEF t

\* A sequence that agrees with s on some events has those events in the same places.
LEMMA OtherRoute ==
    ASSUME NEW s \in Seq(TraceEvent), NEW event \in TraceEvent, NEW decision,
           RouteTold(s, decision), event.name # "route_selected"
    PROVE  RouteTold(Logged(s, event), decision)
<1> DEFINE t == Logged(s, event)
<1>1. Routes(t) = Routes(s)
  BY LoggedNames DEF Routes
<1>2. \A i \in Routes(s) : t[i] = s[i]
  BY LoggedKeeps DEF Routes
<1>3. DOMAIN s = 1..Len(s) /\ DOMAIN t = 1..(Len(s) + 1) /\ Len(s) \in Nat
  BY LoggedFields
<1>4. DOMAIN s \subseteq DOMAIN t
  BY <1>3
<1> HIDE DEF t
<1>5. RouteTold(t, decision)
  BY <1>1, <1>2, <1>4 DEF RouteTold
<1>6. QED
  BY <1>5 DEF t

LEMMA NewRoute ==
    ASSUME NEW s \in Seq(TraceEvent), NEW event \in TraceEvent, NEW decision,
           decision # None, RouteTold(s, None), event.name = "route_selected",
           event.action = decision.action, event.tool_name = decision.tool_name
    PROVE  RouteTold(Logged(s, event), decision)
<1> DEFINE t == Logged(s, event)
           k == Len(s) + 1
<1>1. Routes(t) = {k}
  BY LoggedNames DEF Routes, RouteTold
<1>2. Len(s) \in Nat /\ DOMAIN t = 1..(Len(s) + 1)
  BY LoggedFields
<1>3. k \in DOMAIN t
  BY <1>2
<1>4. t[k].action = event.action /\ t[k].tool_name = event.tool_name
  BY LoggedMetadata
<1> HIDE DEF t, k
<1>5. RouteTold(t, decision)
  BY <1>1, <1>3, <1>4 DEF RouteTold
<1>6. QED
  BY <1>5 DEF t

LEMMA OtherVerdict ==
    ASSUME NEW s \in Seq(TraceEvent), NEW event \in TraceEvent, NEW verdict,
           VerdictTold(s, verdict), event.name # "verification_completed"
    PROVE  VerdictTold(Logged(s, event), verdict)
<1> DEFINE t == Logged(s, event)
<1>1. Verdicts(t) = Verdicts(s)
  BY LoggedNames DEF Verdicts
<1>2. \A i \in Verdicts(s) : t[i] = s[i]
  BY LoggedKeeps DEF Verdicts
<1> HIDE DEF t
<1>3. VerdictTold(t, verdict)
  BY <1>1, <1>2 DEF VerdictTold
<1>4. QED
  BY <1>3 DEF t

LEMMA NewVerdict ==
    ASSUME NEW s \in Seq(TraceEvent), NEW event \in TraceEvent, NEW verdict,
           verdict # None, event.name = "verification_completed", event.verified = verdict
    PROVE  VerdictTold(Logged(s, event), verdict)
<1> DEFINE t == Logged(s, event)
           k == Len(s) + 1
<1>1. Verdicts(t) = Verdicts(s) \cup {k}
  BY LoggedNames DEF Verdicts
<1>2. Len(s) \in Nat /\ \A i \in Verdicts(s) : i \in 1..Len(s)
  BY DEF Verdicts, EventsNamed
<1>3. t[k].verified = verdict
  BY LoggedMetadata
<1>4. \A i \in Verdicts(t) : i <= k
  BY <1>1, <1>2
<1> HIDE DEF t, k
<1>5. VerdictTold(t, verdict)
  BY <1>1, <1>3, <1>4 DEF VerdictTold
<1>6. QED
  BY <1>5 DEF t

LEMMA LoggedRetries ==
    ASSUME NEW s \in Seq(TraceEvent), NEW event \in TraceEvent, NEW n \in Nat, RetriesTold(s, n),
           event.name = "recovery_decision" => event.action # None
    PROVE  RetriesTold(Logged(s, event),
                       IF event.name = "recovery_decision" /\ event.action = "retry"
                       THEN n + 1 ELSE n)
<1> DEFINE t == Logged(s, event)
           k == Len(s) + 1
<1>1. /\ event.name = "recovery_decision" => Recoveries(t) = Recoveries(s) \cup {k}
      /\ event.name # "recovery_decision" => Recoveries(t) = Recoveries(s)
  BY LoggedNames DEF Recoveries
<1>2. \A i \in Recoveries(s) : t[i] = s[i]
  BY LoggedKeeps DEF Recoveries
<1>3. t[k].action = event.action
  BY LoggedMetadata
<1>4. k \notin Recoveries(s)
  BY DEF Recoveries, EventsNamed
<1>5. IsFiniteSet(Retries(s)) /\ Cardinality(Retries(s)) = n /\ k \notin Retries(s)
  BY <1>4 DEF RetriesTold, Retries
<1> HIDE DEF t, k
<1>6. \A i \in Recoveries(t) : t[i].action # None
  BY <1>1, <1>2, <1>3 DEF RetriesTold
<1>7. CASE event.name = "recovery_decision" /\ event.action = "retry"
  <2>1. Retries(t) = Retries(s) \cup {k}
    BY <1>1, <1>2, <1>3, <1>7 DEF Retries
  <2>2. RetriesTold(t, n + 1)
    BY <1>5, <1>6, <2>1, FS_AddElement DEF RetriesTold
  <2>3. QED
    BY <1>7, <2>2 DEF t
<1>8. CASE ~(event.name = "recovery_decision" /\ event.action = "retry")
  <2>1. Retries(t) = Retries(s)
    BY <1>1, <1>2, <1>3, <1>8 DEF Retries
  <2>2. RetriesTold(t, n)
    BY <1>5, <1>6, <2>1 DEF RetriesTold
  <2>3. QED
    BY <1>8, <2>2 DEF t
<1>9. QED
  BY <1>7, <1>8

\* Most events tell nothing of the three.
LEMMA OtherTold ==
    ASSUME NEW s \in Seq(TraceEvent), NEW event \in TraceEvent, NEW decision, NEW verdict,
           NEW n \in Nat, Told(s, decision, verdict, n),
           event.name \notin {"route_selected", "verification_completed", "recovery_decision"}
    PROVE  Told(Logged(s, event), decision, verdict, n)
<1>1. InOrder(Logged(s, event))
  BY LoggedInOrder DEF Told
<1>2. RouteTold(Logged(s, event), decision)
  BY OtherRoute DEF Told
<1>3. VerdictTold(Logged(s, event), verdict)
  BY OtherVerdict DEF Told
<1>4. RetriesTold(Logged(s, event), n)
  BY LoggedRetries DEF Told
<1>5. QED
  BY <1>1, <1>2, <1>3, <1>4 DEF Told

-----------------------------------------------------------------------------
(* The inductive invariant: while a run may still return, its events tell  *)
(* the route, the last verdict and the retries that its state holds.       *)

\* On its way into tool_node a run has as many retries behind it as attempts.
RetriesSoFar ==
    IF node = "tool_node" \/ agent.attempts = 0 THEN agent.attempts ELSE agent.attempts - 1

MayReturn == pending_error = None /\ node # "cancelled"

SummaryAccounted ==
    MayReturn =>
        /\ agent.decision = None <=> node \in {"start", "route_node"}
        /\ agent.decision # None => agent.decision \in Decisions
        /\ Told(agent.events, agent.decision, agent.verification_result, RetriesSoFar)

LEMMA InitSummary == Init => SummaryAccounted
<1> SUFFICES ASSUME Init PROVE SummaryAccounted
  OBVIOUS
<1>1. /\ node = "start" /\ agent.decision = None /\ agent.events = <<>>
      /\ agent.verification_result = None /\ agent.attempts = 0
  BY DEF Init, FreshState
<1>2. \A names : EventsNamed(<<>>, names) = {}
  BY DEF EventsNamed
<1>3. Recoveries(<<>>) = {} /\ Retries(<<>>) = {} /\ Routes(<<>>) = {} /\ Verdicts(<<>>) = {}
  BY <1>2 DEF Retries, Recoveries, Routes, Verdicts
<1>4. IsFiniteSet({}) /\ Cardinality({}) = 0
  BY FS_EmptySet
<1>5. RetriesTold(<<>>, 0) /\ RouteTold(<<>>, None) /\ VerdictTold(<<>>, None)
  BY <1>3, <1>4 DEF RetriesTold, RouteTold, VerdictTold
<1>6. InOrder(<<>>)
  BY DEF InOrder
<1>7. QED
  BY <1>1, <1>5, <1>6 DEF SummaryAccounted, Told, RetriesSoFar

\* A step that logs one event which tells nothing of the three keeps the account if
\* it keeps what the account is about.
LEMMA OtherLogged ==
    ASSUME TypeOK, SummaryAccounted, MayReturn, NEW event \in TraceEvent,
           Appended(event),
           event.name \notin {"route_selected", "verification_completed", "recovery_decision"},
           UNCHANGED <<agent.decision, agent.verification_result>>, RetriesSoFar' = RetriesSoFar,
           node \in {"start", "route_node"} <=> node' \in {"start", "route_node"}
    PROVE  SummaryAccounted'
<1>1. agent.events \in Seq(TraceEvent) /\ RetriesSoFar \in Nat
  BY StateTypes DEF RetriesSoFar
<1>2. Told(agent.events, agent.decision, agent.verification_result, RetriesSoFar)
  BY DEF SummaryAccounted
<1>3. agent'.events = Logged(agent.events, event)
  BY DEF Appended, Logged
<1>4. Told(agent'.events, agent'.decision, agent'.verification_result, RetriesSoFar')
  BY <1>1, <1>2, <1>3, OtherTold
<1>5. QED
  BY <1>4 DEF SummaryAccounted

LEMMA EventMetadata ==
    /\ \A router, decision :
          /\ RouteSelected(router, decision).action = decision.action
          /\ RouteSelected(router, decision).tool_name = decision.tool_name
    /\ \A verified : VerificationCompleted(verified).verified = verified
    /\ \A action : RecoveryDecided(action).action = action
<1>1. \A router, decision :
         /\ RouteSelected(router, decision).action = decision.action
         /\ RouteSelected(router, decision).tool_name = decision.tool_name
  BY DEF RouteSelected, Event
<1>2. \A verified : VerificationCompleted(verified).verified = verified
  BY DEF VerificationCompleted, Event
<1>3. \A action : RecoveryDecided(action).action = action
  BY DEF RecoveryDecided, Event
<1>4. QED
  BY <1>1, <1>2, <1>3

Inv == TypeOK /\ RunInvariant /\ Accounts

LEMMA UnderWayMayReturn ==
    ASSUME Inv, node \in {"start"} \cup Nodes
    PROVE  MayReturn
BY DEF Inv, Accounts, AttemptsAccounted, RunUnderWay, MayReturn, Nodes

LEMMA StartSummary ==
    ASSUME Inv, SummaryAccounted, Start
    PROVE  SummaryAccounted'
<1>1. /\ node = "start" /\ node' = "route_node"
      /\ Appended(RunStarted(agent.router_type))
      /\ UNCHANGED <<agent.decision, agent.verification_result, agent.attempts>>
  BY StartFields DEF Inv
<1>2. RunStarted(agent.router_type) \in TraceEvent
  BY RunStartedType DEF Inv, TypeOK, AgentState
<1>3. RunStarted(agent.router_type).name = "run_started"
  BY EventsAre
<1>4. MayReturn
  BY <1>1, UnderWayMayReturn
<1>5. RetriesSoFar' = RetriesSoFar
  BY <1>1 DEF RetriesSoFar
<1>6. QED
  BY <1>1, <1>2, <1>3, <1>4, <1>5, OtherLogged DEF Inv

LEMMA RouteToSummary ==
    ASSUME Inv, SummaryAccounted, NEW decision \in Decisions, RouteTo(decision)
    PROVE  SummaryAccounted'
<1> DEFINE event == RouteSelected(agent.router_type, decision)
           s == agent.events
<1>1. /\ node = "route_node" /\ node' = AfterRoute(agent', pending_error)
      /\ Appended(event) /\ agent'.decision = decision /\ decision \in AgentDecision
      /\ UNCHANGED <<agent.status, agent.verification_result, agent.attempts, pending_error>>
  BY RouteToFields DEF Inv
<1>2. decision # None
  BY <1>1, RunAssumption
<1>3. event \in TraceEvent
  BY <1>1, RouteSelectedType DEF Inv, TypeOK, AgentState
<1>4. /\ event.name = "route_selected" /\ event.action = decision.action
      /\ event.tool_name = decision.tool_name
  BY EventsAre, EventMetadata
<1> HIDE DEF event, s
<1>5. MayReturn /\ agent.attempts = 0 /\ agent.status = "running" /\ agent.events \in Seq(TraceEvent)
  BY <1>1, UnderWayMayReturn, StateTypes DEF Inv, Accounts, AttemptsAccounted, Nodes
<1>6. node' \in {"tool_node", "answer_node"}
  BY <1>1, <1>5 DEF AfterRoute, MayReturn
<1>7. RetriesSoFar = 0 /\ RetriesSoFar' = 0
  BY <1>1, <1>5 DEF RetriesSoFar
<1>8. agent.decision = None /\ Told(s, None, agent.verification_result, 0)
  BY <1>1, <1>5, <1>7 DEF SummaryAccounted, s
<1>9. s \in Seq(TraceEvent) /\ agent'.events = Logged(s, event)
  BY <1>1, <1>5 DEF Appended, Logged, s
<1>10. InOrder(Logged(s, event))
  BY <1>3, <1>8, <1>9, LoggedInOrder DEF Told
<1>11. RouteTold(Logged(s, event), decision)
  BY <1>2, <1>3, <1>4, <1>8, <1>9, NewRoute DEF Told
<1>12. VerdictTold(Logged(s, event), agent.verification_result)
  BY <1>3, <1>4, <1>8, <1>9, OtherVerdict DEF Told
<1>13. RetriesTold(Logged(s, event), 0)
  BY <1>3, <1>4, <1>8, <1>9, LoggedRetries DEF Told
<1>14. Told(agent'.events, agent'.decision, agent'.verification_result, RetriesSoFar')
  BY <1>1, <1>7, <1>9, <1>10, <1>11, <1>12, <1>13 DEF Told
<1>15. QED
  BY <1>1, <1>2, <1>6, <1>14 DEF SummaryAccounted

LEMMA ToolMissingSummary ==
    ASSUME Inv, SummaryAccounted, ToolMissing
    PROVE  SummaryAccounted'
<1> DEFINE event == RunFailed("needs_human_review", "tool_error")
<1>1. /\ node = "tool_node" /\ node' = "end" /\ agent.decision.tool_name \notin Tools
      /\ Appended(event)
      /\ UNCHANGED <<agent.decision, agent.verification_result, agent.attempts>>
  BY ToolMissingFields DEF Inv
<1>2. event \in TraceEvent /\ event.name = "run_failed"
  BY TerminalEventType, EventsAre DEF Statuses, FailureClasses, ToolFailures, OrNone
<1> HIDE DEF event
<1>3. agent.attempts = 0
  BY <1>1, StateTypes DEF Inv, Accounts, AttemptsAccounted
<1>4. RetriesSoFar' = RetriesSoFar
  BY <1>1, <1>3 DEF RetriesSoFar
<1>5. MayReturn
  BY <1>1, UnderWayMayReturn DEF Nodes
<1>6. QED
  BY <1>1, <1>2, <1>4, <1>5, OtherLogged DEF Inv

LEMMA CallToolSummary ==
    ASSUME Inv, SummaryAccounted, CallTool
    PROVE  SummaryAccounted'
<1> DEFINE event == ToolStarted(agent.decision.tool_name, agent.attempts + 1)
<1>1. /\ node = "tool_node" /\ node' = node /\ agent.decision.tool_name \in Tools
      /\ Appended(event)
      /\ UNCHANGED <<agent.decision, agent.verification_result, agent.attempts>>
  BY CallToolFields DEF Inv
<1>2. event \in TraceEvent /\ event.name = "tool_started"
  BY <1>1, StateTypes, ToolStartedType, EventsAre DEF Inv
<1> HIDE DEF event
<1>3. RetriesSoFar' = RetriesSoFar
  BY <1>1 DEF RetriesSoFar
<1>4. MayReturn
  BY <1>1, UnderWayMayReturn DEF Nodes
<1>5. QED
  BY <1>1, <1>2, <1>3, <1>4, OtherLogged DEF Inv

LEMMA ToolCallSummary ==
    ASSUME Inv, SummaryAccounted, ToolCallEnds
    PROVE  SummaryAccounted'
<1>1. PICK result \in ToolResult, class \in OrNone(ToolFailures) : AttemptEnds(result, class)
  BY ToolCallOutcome DEF Inv
<1> DEFINE event == ToolEvent(agent.decision.tool_name, result, class, agent.attempts + 1)
<1>2. node = "tool_node" /\ agent.decision.tool_name \in Tools /\ agent.attempts \in Nat
  BY ToolCallOutcome, StateTypes DEF Inv
<1>3. /\ node' = IF agent.status = "needs_human_review" THEN "end" ELSE "verify_node"
      /\ Appended(event) /\ agent'.attempts = agent.attempts + 1
      /\ UNCHANGED <<agent.decision, agent.verification_result>>
  BY <1>1, <1>2, AttemptFields DEF Inv
<1>4. event \in TraceEvent /\ event.name \in {"tool_completed", "tool_failed"}
  BY <1>2, ToolEventType, EventsAre
<1> HIDE DEF event
<1>5. RetriesSoFar' = RetriesSoFar
  BY <1>2, <1>3 DEF RetriesSoFar
<1>6. MayReturn
  BY <1>2, UnderWayMayReturn DEF Nodes
<1>7. QED
  BY <1>2, <1>3, <1>4, <1>5, <1>6, OtherLogged DEF Inv

LEMMA VerifySummary ==
    ASSUME Inv, SummaryAccounted, VerifyResult
    PROVE  SummaryAccounted'
<1> DEFINE event == VerificationCompleted(Verdict)
           s == agent.events
<1>1. /\ node = "verify_node" /\ node' \in {"answer_node", "recovery_node"}
      /\ Appended(event) /\ Verdict \in BOOLEAN /\ agent'.verification_result = Verdict
      /\ UNCHANGED <<agent.decision, agent.attempts>>
  BY VerifyFields DEF Inv
<1>2. Verdict # None
  BY <1>1, GateAssumption
<1>3. event \in TraceEvent
  BY <1>1, VerificationCompletedType
<1>4. event.name = "verification_completed" /\ event.verified = Verdict
  BY EventsAre, EventMetadata
<1> HIDE DEF event, s
<1>5. MayReturn /\ agent.events \in Seq(TraceEvent) /\ agent.attempts \in Nat
  BY <1>1, UnderWayMayReturn, StateTypes DEF Inv, Nodes
<1>6. RetriesSoFar' = RetriesSoFar /\ RetriesSoFar \in Nat
  BY <1>1, <1>5 DEF RetriesSoFar
<1>7. Told(s, agent.decision, agent.verification_result, RetriesSoFar)
  BY <1>5 DEF SummaryAccounted, s
<1>8. s \in Seq(TraceEvent) /\ agent'.events = Logged(s, event)
  BY <1>1, <1>5 DEF Appended, Logged, s
<1>9. InOrder(Logged(s, event))
  BY <1>3, <1>7, <1>8, LoggedInOrder DEF Told
<1>10. RouteTold(Logged(s, event), agent.decision)
  BY <1>3, <1>4, <1>7, <1>8, OtherRoute DEF Told
<1>11. VerdictTold(Logged(s, event), Verdict)
  BY <1>2, <1>3, <1>4, <1>8, NewVerdict
<1>12. RetriesTold(Logged(s, event), RetriesSoFar)
  BY <1>3, <1>4, <1>6, <1>7, <1>8, LoggedRetries DEF Told
<1>13. Told(agent'.events, agent'.decision, agent'.verification_result, RetriesSoFar')
  BY <1>1, <1>6, <1>8, <1>9, <1>10, <1>11, <1>12 DEF Told
<1>14. QED
  BY <1>1, <1>5, <1>13 DEF SummaryAccounted

LEMMA RecoverSummary ==
    ASSUME Inv, SummaryAccounted, Recover
    PROVE  SummaryAccounted'
<1> DEFINE event == RecoveryDecided(RecoveryAction)
           closing == RunFailed("needs_human_review", agent.failure_class)
           s == agent.events
           n == agent.attempts - 1
           m == IF RecoveryAction = "retry" THEN n + 1 ELSE n
<1>1. /\ node = "recovery_node" /\ RecoveryAction \in RecoveryActions
      /\ RecoveryAction = "retry" => node' = "tool_node" /\ agent'.events = Logged(s, event)
      /\ RecoveryAction # "retry" =>
            node' = "end" /\ agent'.events = Logged(Logged(s, event), closing)
      /\ UNCHANGED <<agent.decision, agent.verification_result, agent.attempts>>
  BY RecoverFields DEF Inv, Appended, Logged
<1>2. /\ event \in TraceEvent /\ event.name = "recovery_decision"
      /\ event.action = RecoveryAction /\ event.action # None
  BY <1>1, RunAssumption, RecoveryDecidedType, EventsAre, EventMetadata
<1>3. closing \in TraceEvent /\ closing.name = "run_failed"
  BY StateTypes, TerminalEventType, EventsAre DEF Inv, Statuses
<1> HIDE DEF event, closing
<1>4. /\ MayReturn /\ s \in Seq(TraceEvent) /\ agent.attempts \in Nat /\ agent.attempts > 0
  BY <1>1, UnderWayMayReturn, StateTypes DEF Inv, Nodes, Accounts, AttemptsAccounted
<1>5. n \in Nat /\ RetriesSoFar = n /\ RetriesSoFar' = m
  BY <1>1, <1>4 DEF RetriesSoFar
<1>6. Told(s, agent.decision, agent.verification_result, n)
  BY <1>4, <1>5 DEF SummaryAccounted
<1> HIDE DEF s, n
<1>7. Told(Logged(s, event), agent.decision, agent.verification_result, m)
  <2>1. InOrder(Logged(s, event))
    BY <1>2, <1>4, <1>6, LoggedInOrder DEF Told
  <2>2. RouteTold(Logged(s, event), agent.decision)
    BY <1>2, <1>4, <1>6, OtherRoute DEF Told
  <2>3. VerdictTold(Logged(s, event), agent.verification_result)
    BY <1>2, <1>4, <1>6, OtherVerdict DEF Told
  <2>4. RetriesTold(Logged(s, event), m)
    BY <1>2, <1>4, <1>5, <1>6, LoggedRetries DEF Told
  <2>5. QED
    BY <2>1, <2>2, <2>3, <2>4 DEF Told
<1>8. m \in Nat /\ Logged(s, event) \in Seq(TraceEvent)
  BY <1>2, <1>4, <1>5, LoggedFields
<1> HIDE DEF m
<1>9. Told(agent'.events, agent'.decision, agent'.verification_result, RetriesSoFar')
  <2>1. CASE RecoveryAction = "retry"
    BY <1>1, <1>5, <1>7, <2>1
  <2>2. CASE RecoveryAction # "retry"
    BY <1>1, <1>3, <1>5, <1>7, <1>8, <2>2, OtherTold
  <2>3. QED
    BY <2>1, <2>2
<1>10. QED
  BY <1>1, <1>4, <1>9 DEF SummaryAccounted

LEMMA AnswerSummary ==
    ASSUME Inv, SummaryAccounted, ModelAnswers \/ AnswerFromTool
    PROVE  SummaryAccounted'
<1>1. /\ node = "answer_node" /\ node' = "end" /\ Appended(RunCompleted)
      /\ UNCHANGED <<agent.decision, agent.verification_result, agent.attempts>>
  BY ModelAnswersFields, AnswerFromToolFields DEF Inv
<1>2. RunCompleted \in TraceEvent /\ RunCompleted.name = "run_completed"
  BY TerminalEventType, EventsAre DEF Statuses, OrNone
<1>3. RetriesSoFar' = RetriesSoFar /\ MayReturn
  BY <1>1, UnderWayMayReturn DEF RetriesSoFar, Nodes
<1>4. QED
  BY <1>1, <1>2, <1>3, OtherLogged DEF Inv

LEMMA QuietSummary ==
    ASSUME Inv, SummaryAccounted, QuietStep
    PROVE  SummaryAccounted'
<1>1. agent' = agent
  BY QuietStepFields
<1>2. ModelCrashes => ~MayReturn'
  BY RunAssumption DEF ModelCrashes, MayReturn, FailureClasses
<1>3. Cancel => ~MayReturn'
  BY DEF Cancel, MayReturn
<1>4. ASSUME MayReturn', ~ModelCrashes, ~Cancel
      PROVE  /\ MayReturn
             /\ node \in {"start", "route_node"} <=> node' \in {"start", "route_node"}
             /\ node = "tool_node" <=> node' = "tool_node"
  BY <1>4 DEF QuietStep, DeadlinePasses, CallModel, Return, Raise, vars, MayReturn
<1>5. QED
  BY <1>1, <1>2, <1>3, <1>4 DEF SummaryAccounted, RetriesSoFar

LEMMA NextSummary == Inv /\ SummaryAccounted /\ [Next]_vars => SummaryAccounted'
<1> SUFFICES ASSUME Inv, SummaryAccounted, [Next]_vars PROVE SummaryAccounted'
  OBVIOUS
<1>1. ASSUME NEW class \in ModelFailures, NEW decision \in OrNone(RejectedDecisions),
             RouteFails(class, decision)
      PROVE  SummaryAccounted'
  BY <1>1, RouteFailsFields DEF Inv, SummaryAccounted, MayReturn
<1>2. ASSUME NEW class \in ModelFailures, ModelFails(class)
      PROVE  SummaryAccounted'
  BY <1>2, ModelFailsFields DEF Inv, SummaryAccounted, MayReturn
<1>3. QED
  BY <1>1, <1>2, StartSummary, RouteToSummary, ToolMissingSummary, CallToolSummary,
     ToolCallSummary, VerifySummary, RecoverSummary, AnswerSummary, QuietSummary, StepKinds

LEMMA SummaryHolds == Spec => []SummaryAccounted
<1>1. Init => SummaryAccounted
  BY InitSummary
<1>2. Inv /\ SummaryAccounted /\ [Next]_vars => SummaryAccounted'
  BY NextSummary
<1>3. Spec => []Inv
  BY AccountsHold, PTL DEF Inv
<1>4. QED
  BY <1>1, <1>2, <1>3, PTL DEF Spec

-----------------------------------------------------------------------------
(* What is stored.                                                         *)

LEMMA TracedIsAccounted ==
    ASSUME Inv, SummaryAccounted, Traced
    PROVE  /\ agent.decision \in Decisions /\ agent.decision # None
           /\ Told(agent.events, agent.decision, agent.verification_result,
                   IF agent.attempts = 0 THEN 0 ELSE agent.attempts - 1)
<1>1. node = "returned" /\ MayReturn
  BY DEF Inv, Accounts, EvidenceAccounted, Traced, MayReturn
<1>2. QED
  BY <1>1 DEF SummaryAccounted, RetriesSoFar

\* The rows of agent_run_events are the events of the run: none is lost, doubled,
\* moved or blanked between the runtime's trace and what GET /runs/{run_id} gives
\* back, however many attempts the run took (events.py:57-104, repo.py:63-76,
\* 151-163).
THEOREM StoredRunIsTheRun == Spec => []StoredEventsAreTheRuns
<1>1. ASSUME Inv, SummaryAccounted PROVE StoredEventsAreTheRuns
  <2> SUFFICES ASSUME Traced
               PROVE  /\ Len(Stored.events) = Len(agent.events)
                      /\ \A i \in DOMAIN agent.events :
                            /\ Stored.events[i].event_order = i - 1
                            /\ Stored.events[i].name = agent.events[i].name
                            /\ Stored.events[i].metadata = Metadata(agent.events[i])
    BY DEF StoredEventsAreTheRuns
  <2>1. agent.events \in Seq(TraceEvent) /\ DOMAIN agent.events = 1..Len(agent.events)
    BY <1>1, StateTypes DEF Inv
  <2>2. \A i \in DOMAIN agent.events : agent.events[i].order = i - 1
    BY <1>1, TracedIsAccounted DEF Told, InOrder
  <2>3. /\ Stored.events = [i \in 1..Len(agent.events) |-> RowOf(agent.events[i])]
        /\ Len(Stored.events) = Len(agent.events)
    BY <2>1, <2>2, StoredEventsAre
  <2>4. QED
    BY <2>1, <2>2, <2>3 DEF RowOf
<1>2. Spec => []Inv
  BY AccountsHold, PTL DEF Inv
<1>3. QED
  BY <1>1, <1>2, SummaryHolds, PTL

LEMMA StoredIndices ==
    ASSUME Inv, SummaryAccounted, Traced, NEW name
    PROVE  /\ StoredOf(name) = EventsNamed(agent.events, {name})
           /\ \A i \in StoredOf(name) :
                 Stored.events[i].metadata = Metadata(agent.events[i])
<1> DEFINE s == agent.events
<1>1. s \in Seq(TraceEvent) /\ DOMAIN s = 1..Len(s)
  BY StateTypes DEF Inv
<1>2. \A i \in DOMAIN s : s[i].order = i - 1
  BY TracedIsAccounted DEF Told, InOrder
<1>3. Stored.events = [i \in 1..Len(s) |-> RowOf(s[i])]
  BY <1>1, <1>2, StoredEventsAre
<1> HIDE DEF s
<1>4. DOMAIN Stored.events = DOMAIN s /\ \A i \in DOMAIN s : Stored.events[i] = RowOf(s[i])
  BY <1>1, <1>3
<1>5. \A i \in DOMAIN s : /\ Stored.events[i].name = s[i].name
                         /\ Stored.events[i].metadata = Metadata(s[i])
  BY <1>4, RowFields, Zenon
<1>6. StoredOf(name) = EventsNamed(s, {name})
  BY <1>4, <1>5 DEF StoredOf, EventsNamed
<1>7. \A i \in StoredOf(name) : Stored.events[i].metadata = Metadata(s[i])
  BY <1>5, <1>6 DEF EventsNamed
<1>8. QED
  BY <1>6, <1>7 DEF s

\* The latest event of a kind is the one with the greatest index.
LEMMA LatestOfIs ==
    ASSUME NEW name, NEW k \in StoredOf(name), \A j \in StoredOf(name) : j <= k,
           StoredOf(name) \subseteq Int
    PROVE  LatestOf(name) = Stored.events[k]
<1>1. \A i \in StoredOf(name) : (\A j \in StoredOf(name) : j <= i) => i = k
  OBVIOUS
<1>2. (CHOOSE i \in StoredOf(name) : \A j \in StoredOf(name) : j <= i) = k
  BY <1>1
<1>3. QED
  BY <1>2 DEF LatestOf

LEMMA RowOfRun ==
    ASSUME Traced
    PROVE  LET run == RunRow(Trace)
           IN  /\ run.terminal_status = agent.status
               /\ run.failure_class = agent.failure_class
               /\ run.decision = IF agent.decision = None THEN None ELSE agent.decision.action
               /\ run.selected_tool =
                     IF agent.decision = None \/ agent.decision.action # "use_tool"
                     THEN None ELSE agent.decision.tool_name
               /\ run.verification_result = agent.verification_result
               /\ run.attempts = agent.attempts
               /\ run.retry_count = RetryCount(agent)
BY DEF RunRow, Trace, TraceFromState

ClosingAgrees ==
    LET run == Stored.run
        closing == Stored.events[Len(Stored.events)].metadata
    IN  /\ run.terminal_status = closing["status"]
        /\ run.failure_class # None <=> "failure_class" \in DOMAIN closing
        /\ run.failure_class # None => run.failure_class = closing["failure_class"]

RouteAgrees ==
    LET run == Stored.run
        routed == LatestOf("route_selected").metadata
    IN  /\ run.decision = routed["action"]
        /\ run.selected_tool # None <=> "tool_name" \in DOMAIN routed
        /\ run.selected_tool # None => run.selected_tool = routed["tool_name"]

AttemptsAgree ==
    LET run == Stored.run
    IN  /\ run.attempts = Cardinality(StoredOf("tool_started"))
        /\ run.retry_count =
              Cardinality({i \in StoredOf("recovery_decision") :
                  Stored.events[i].metadata["action"] = "retry"})

VerdictAgrees ==
    LET run == Stored.run
    IN  /\ run.verification_result = None <=> StoredOf("verification_completed") = {}
        /\ StoredOf("verification_completed") # {} =>
              run.verification_result =
                  LatestOf("verification_completed").metadata["verified"]

LEMMA ClosingIsOfRun ==
    ASSUME Inv, SummaryAccounted, TraceClosed, Traced
    PROVE  ClosingAgrees
<1> DEFINE s == agent.events
           n == Len(s)
<1>1. s \in Seq(TraceEvent) /\ n \in Nat /\ DOMAIN s = 1..n
  BY StateTypes DEF Inv
<1>2. \A i \in DOMAIN s : s[i].order = i - 1
  BY TracedIsAccounted DEF Told, InOrder
<1>3. /\ Stored.events = [i \in 1..n |-> RowOf(s[i])] /\ Len(Stored.events) = n
      /\ Stored.run = RunRow(Trace)
  BY <1>1, <1>2, StoredEventsAre
<1>4. n \in DOMAIN s
  BY DEF TraceClosed, Traced, EventsNamed
<1>5. s[n].status = agent.status /\ s[n].failure_class = agent.failure_class
  BY DEF TraceClosed, Traced
<1>6. agent.status # None
  BY StateTypes, RunAssumption DEF Inv
<1> HIDE DEF s, n
<1>7. Stored.events[n].metadata = Metadata(s[n])
  BY <1>1, <1>3, <1>4 DEF RowOf
<1>8. /\ Stored.run.terminal_status = s[n].status
      /\ Stored.run.failure_class = s[n].failure_class
  BY <1>3, <1>5, RowOfRun
<1>9. s[n].status # None
  BY <1>5, <1>6
<1>10. Stored.events[Len(Stored.events)].metadata = Metadata(s[n])
  BY <1>3, <1>7
<1>11. QED
  BY <1>8, <1>9, <1>10, MetadataIs, Zenon DEF ClosingAgrees

LEMMA RouteIsOfRun ==
    ASSUME Inv, SummaryAccounted, Traced
    PROVE  RouteAgrees
<1> DEFINE s == agent.events
           d == agent.decision
<1>1. d \in Decisions /\ d # None /\ RouteTold(s, d)
  BY TracedIsAccounted DEF Told
<1>2. PICK k \in DOMAIN s : /\ Routes(s) = {k}
                            /\ s[k].action = d.action /\ s[k].tool_name = d.tool_name
  BY <1>1 DEF RouteTold
<1>3. d \in AgentDecision /\ (d.action = "direct" => d.tool_name = None)
  BY <1>1, RunAssumption
<1>4. d.action \in {"direct", "use_tool"} /\ d.action # None
  BY <1>3, RunAssumption DEF AgentDecision
<1>5. k \in Int
  BY <1>2, StateTypes DEF Inv
<1>6. StoredOf("route_selected") = {k} /\ Stored.events[k].metadata = Metadata(s[k])
  BY <1>2, StoredIndices DEF Routes
<1>7. LatestOf("route_selected") = Stored.events[k]
  BY <1>5, <1>6, LatestOfIs
<1>8. Stored.run.decision = d.action /\ Stored.run.selected_tool = d.tool_name
  BY <1>1, <1>3, <1>4, RowOfRun DEF Stored
<1> HIDE DEF s, d
<1>9. QED
  BY <1>2, <1>4, <1>6, <1>7, <1>8, MetadataIs DEF RouteAgrees

LEMMA AttemptsAreOfRun ==
    ASSUME Inv, SummaryAccounted, DeadlineAccounted, TraceAccounted, Traced
    PROVE  AttemptsAgree
<1> DEFINE s == agent.events
<1>1. Cardinality(ToolStarts(s)) = agent.attempts
  BY DEF TraceAccounted, Traced, Calling, TraceTells
<1>2. StoredOf("tool_started") = ToolStarts(s)
  BY StoredIndices DEF ToolStarts
<1>3. RetriesTold(s, IF agent.attempts = 0 THEN 0 ELSE agent.attempts - 1)
  BY TracedIsAccounted DEF Told
<1>4. /\ StoredOf("recovery_decision") = Recoveries(s)
      /\ \A i \in Recoveries(s) : Stored.events[i].metadata = Metadata(s[i])
  BY StoredIndices DEF Recoveries
<1>5. \A i \in Recoveries(s) : Metadata(s[i])["action"] = s[i].action
  BY <1>3, MetadataIs DEF RetriesTold
<1>6. {i \in StoredOf("recovery_decision") : Stored.events[i].metadata["action"] = "retry"}
         = Retries(s)
  BY <1>4, <1>5 DEF Retries
<1>7. agent.attempts \in Nat
  BY StateTypes DEF Inv
<1>8. RetryCount(agent) = IF agent.attempts = 0 THEN 0 ELSE agent.attempts - 1
  BY <1>7 DEF RetryCount, Max0
<1>9. Cardinality(Retries(s)) = RetryCount(agent)
  BY <1>3, <1>8 DEF RetriesTold
<1>10. Stored.run.attempts = agent.attempts /\ Stored.run.retry_count = RetryCount(agent)
  BY RowOfRun DEF Stored
<1>11. QED
  BY <1>1, <1>2, <1>6, <1>9, <1>10 DEF AttemptsAgree

LEMMA VerdictIsOfRun ==
    ASSUME Inv, SummaryAccounted, Traced
    PROVE  VerdictAgrees
<1> DEFINE s == agent.events
           v == agent.verification_result
<1>1. VerdictTold(s, v)
  BY TracedIsAccounted DEF Told
<1>2. /\ StoredOf("verification_completed") = Verdicts(s)
      /\ \A i \in Verdicts(s) : Stored.events[i].metadata = Metadata(s[i])
  BY StoredIndices DEF Verdicts
<1>3. Verdicts(s) \subseteq Int
  BY StateTypes DEF Inv, Verdicts, EventsNamed
<1>4. Stored.run.verification_result = v
  BY RowOfRun DEF Stored
<1> HIDE DEF s, v
<1>5. CASE v = None
  BY <1>1, <1>2, <1>4, <1>5 DEF VerdictTold, VerdictAgrees
<1>6. CASE v # None
  <2>1. PICK k \in Verdicts(s) : (\A j \in Verdicts(s) : j <= k) /\ s[k].verified = v
    BY <1>1, <1>6 DEF VerdictTold
  <2>2. LatestOf("verification_completed") = Stored.events[k]
    BY <1>2, <1>3, <2>1, LatestOfIs
  <2>3. LatestOf("verification_completed").metadata["verified"] = v
    BY <1>2, <1>6, <2>1, <2>2, MetadataIs
  <2>4. QED
    BY <1>2, <1>4, <1>6, <2>1, <2>3 DEF VerdictAgrees
<1>7. QED
  BY <1>5, <1>6

\* The two accounts of a run in the database never contradict each other: the row of
\* agent_runs, made of the final state, has the status, class, route, attempts,
\* retries and verdict that the rows of agent_run_events tell (trace.py:47-100,
\* repo.py:49-76).
THEOREM SummaryIsOfTheEvents == Spec => []SummaryAgreesWithEvents
<1>1. ASSUME Inv, SummaryAccounted, DeadlineAccounted, TraceClosed, TraceAccounted
      PROVE  SummaryAgreesWithEvents
  <2>1. Traced => ClosingAgrees
    BY <1>1, ClosingIsOfRun
  <2>2. Traced => RouteAgrees
    BY <1>1, RouteIsOfRun
  <2>3. Traced => AttemptsAgree
    BY <1>1, AttemptsAreOfRun
  <2>4. Traced => VerdictAgrees
    BY <1>1, VerdictIsOfRun
  <2>5. QED
    BY <2>1, <2>2, <2>3, <2>4
       DEF SummaryAgreesWithEvents, ClosingAgrees, RouteAgrees, AttemptsAgree, VerdictAgrees
<1>2. Spec => [](Inv /\ DeadlineAccounted /\ TraceClosed /\ TraceAccounted)
  BY TraceHolds, PTL DEF Inv
<1>3. QED
  BY <1>1, <1>2, SummaryHolds, PTL
=============================================================================
