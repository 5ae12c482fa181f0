--------------------------- MODULE PersistedTrace ---------------------------
(***************************************************************************)
(* The rows that save_chat_and_trace writes of a finished run and the      *)
(* answer that GET /runs/{run_id} makes of them: sanitisation of event     *)
(* metadata (observability/events.py) and the mapping to and from the      *)
(* tables agent_runs and agent_run_events (db/repo.py).                    *)
(*                                                                         *)
(* A metadata dict is a function from the keys it has; JSON gives back     *)
(* the scalars it was given.  Timestamps are left out.                     *)
(***************************************************************************)
EXTENDS RunTrace

MetadataKeys ==
    {"router_type", "action", "tool_name", "attempt", "verified", "status",
     "failure_class", "error"}
\* MUTANT: the allow-list as it was before tool_failed carried a token.
AllowedKeysButError ==
    {"router_type", "action", "tool_name", "status", "failure_class", "attempt", "verified"}

AllowedKeys ==
    {"router_type", "action", "tool_name", "status", "failure_class", "attempt", "error",
     "verified"}
BlockedKeys ==
    {"tenant_id", "property_id", "trusted_scope", "data", "payload", "arguments",
     "message", "prompt", "response", "observations", "evidence"}

\* append_event: a key whose value is None is left out.
Metadata(event) ==
    LET given == {key \in MetadataKeys :
                     event[key] # None /\ (key = "attempt" => event.attempt > 0)}
    IN  [key \in given |-> event[key]]

\* Every value the runtime records is a text, a number or a flag.
Persistable(key, value) == TRUE

\* sanitize_event_metadata
Sanitized(metadata) ==
    LET safe == {key \in (DOMAIN metadata \cap AllowedKeys) \ BlockedKeys :
                    Persistable(key, metadata[key])}
    IN  [key \in safe |-> metadata[key]]

\* _agent_run: the columns of agent_runs.
RunRow(trace) ==
    [terminal_status |-> trace.terminal_status, decision |-> trace.decision,
     selected_tool |-> trace.selected_tool,
     verification_result |-> trace.verification_result,
     attempts |-> trace.attempts, retry_count |-> trace.retry_count,
     outcome |-> trace.outcome, failure_class |-> trace.failure_class]

\* _event_rows: a table has no order of its own.
EventRowsOf(trace) ==
    {[event_order |-> trace.events[i].order, name |-> trace.events[i].name,
      metadata |-> Sanitized(Metadata(trace.events[i]))] : i \in DOMAIN trace.events}

\* SELECT ... ORDER BY event_order
StoredEvents(rows) ==
    [i \in 1..Cardinality(rows) |->
        CHOOSE row \in rows :
            Cardinality({other \in rows : other.event_order < row.event_order}) = i - 1]

\* What get_trace gives the operator.
Stored == [run |-> RunRow(Trace), events |-> StoredEvents(EventRowsOf(Trace))]

-----------------------------------------------------------------------------
(* Properties.                                                             *)

StoredOf(name) ==
    {i \in DOMAIN Stored.events : Stored.events[i].name = name}
LatestOf(name) ==
    Stored.events[CHOOSE i \in StoredOf(name) : \A j \in StoredOf(name) : j <= i]

\* No step of a run is lost, doubled, moved or blanked between the runtime's trace
\* and the operator's: the unique key (run_id, event_order) is kept, the allow-list
\* knows every key the runtime records, and the order is that of the run
\* (events.py:57-104, repo.py:63-76, 151-163, models.py:61-65).
StoredEventsAreTheRuns ==
    Traced =>
        /\ Len(Stored.events) = Len(agent.events)
        /\ \A i \in DOMAIN agent.events :
              /\ Stored.events[i].event_order = i - 1
              /\ Stored.events[i].name = agent.events[i].name
              /\ Stored.events[i].metadata = Metadata(agent.events[i])

\* The summary row comes from the final state and the event rows from the steps: the
\* two accounts of a run in the database never contradict each other; retry_count,
\* which is derived from the attempts, is the number of retries that were decided
\* (trace.py:47-100, repo.py:49-76).
SummaryAgreesWithEvents ==
    Traced =>
        LET run == Stored.run
            closing == Stored.events[Len(Stored.events)].metadata
            routed == LatestOf("route_selected").metadata
        IN  /\ run.terminal_status = closing["status"]
            /\ run.failure_class # None <=> "failure_class" \in DOMAIN closing
            /\ run.failure_class # None => run.failure_class = closing["failure_class"]
            /\ run.decision = routed["action"]
            /\ run.selected_tool # None <=> "tool_name" \in DOMAIN routed
            /\ run.selected_tool # None => run.selected_tool = routed["tool_name"]
            /\ run.attempts = Cardinality(StoredOf("tool_started"))
            /\ run.retry_count =
                  Cardinality({i \in StoredOf("recovery_decision") :
                      Stored.events[i].metadata["action"] = "retry"})
            /\ run.verification_result = None <=> StoredOf("verification_completed") = {}
            /\ StoredOf("verification_completed") # {} =>
                  run.verification_result =
                      LatestOf("verification_completed").metadata["verified"]
=============================================================================
