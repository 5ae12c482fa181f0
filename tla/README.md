# Formal model of llm-agent-api

TLA+ specifications of the agent service in `app/`, the TLC runs that check
them on small instances, and TLAPS proofs of the safety properties for every instance. Paths below are
relative to `src/app/` unless they start with `docs/`.

## 1. The system

A FastAPI process answers `POST /chat` with an agent run: route the message,
perhaps call a tool, verify what the tool said, retry or give up, answer; then
it stores the chat and the trace of the run. `GET /runs/{run_id}` reads a trace
back.

| Component | State it keeps | Operations | Talks to |
|---|---|---|---|
| Agent runtime and graph (`agent/async_runtime.py`, `agent/graph.py`, `agent/state.py`) | per run: `GraphState` (agent state, response, pending error, attempt class) | `run_detailed`, five graph nodes | router, tools, verifier, recovery, model, history |
| Verification and typed data (`agent/verification.py`, `tools/work_order.py`, `tools/maintenance_policy.py`) | none | `from_arguments`, `from_data`, `is_valid_for`, `verify` | called by runtime and tools |
| Recovery (`agent/recovery.py`) | the budget `max_attempts` | `decide` | called by the runtime |
| Context and history (`agent/context.py`) | per runtime: turns of each thread | `turns`, `record`, `truncate_history`, `assemble` | read at the start of a run, written at its end |
| Routers (`agent/router.py`, `agent/llm_router.py`) | none | `route` | model (LLM router only) |
| Model providers (`llm/`) | an HTTP client | `generate`, `generate_structured` | Ollama, OpenAI |
| Stores and catalog (`tools/store.py`, `tools/catalog.py`) | fixed records | `get` | called by the tools |
| Trace and events (`observability/`) | none | `append_event`, `trace_from_state`, sanitisation | runtime, persistence |
| API (`api/`) | none | `/chat`, `/runs/{id}`, `/health`, `/ready` | runtime, persistence |
| Persistence (`db/`) | three tables, a connection pool | `save_chat_and_trace`, `get_trace` | the database |
| Lifecycle (`main.py`, `infra/container.py`, `infra/config.py`) | `settings`, the runtime singleton, the engine | startup, `get_agent`, shutdown | environment, runtime, database |
| Migrations (`db/migrate.py`, `../alembic/`) | `alembic_version` in the database | `init_db` at startup | the database, and every other replica through it |
| Evaluation (`evaluation/`) | the call counter of a scripted tool | `run_case`, trajectories, score, routing comparison | a runtime per case |
| Logging (`infra/logging.py`, `middleware/observability.py`) | none that others read | - | - |

What is hard here, and what makes each part correct:

- **A run** interleaves awaits with deadlines and cancellation, and it loops. The
  envelope of the graph carries fields from one attempt to the next. Correct
  means: only a vetted payload reaches the caller, and the state says what the
  *last* attempt was.
- **History** is shared by overlapping runs that read early and write late.
  Correct means: no exchange lost, reordered, halved or leaked.
- **Routing** turns untrusted text into a decision under one deadline, with a
  second request after some failures. Correct means: a decision the runtime can
  carry out, or a typed error.
- **Persistence** may fail or be cut off anywhere, with the commit's
  acknowledgement apart from the commit. Correct means: all rows or none, a run
  id only for a durable run, no connection lost. What is stored of a run is
  filtered and split over two tables: correct means that nothing of the trace is
  lost and that summary and events never contradict each other.
- **Startup and shutdown** share globals with worker threads that test and set the
  runtime singleton without a lock, and any of their steps may fail. Correct
  means: one open runtime, as configured, never found closed by a handler, and a
  shutdown that ends.
- **Migration at startup** is run by every replica at once on one database, and any
  of them may die between two statements. Correct means: traffic only on a
  complete schema, and every replica serves in the end.
- **Evaluation** runs many cases, each with its own fakes. Correct means: a case is
  judged by its own run only, and two routers are compared on what they did.

`PROJECT.json` lists the hazards one by one, each at its line with the
properties that cover it.

## 2. Modules

```
RunContract <==== AgentRunContract --> AgentRun --> ToolGate <-- RouterRules <-- Routing
                                        ^    ^
                     RunTrace ----------+    |
                        ^                    |
                  PersistedTrace        CatalogRun
                                             ^
    RoutingComparison --> EvaluationRun --> EvaluationCases --> RouterRules
                                |
                                +---> RunTrace

ChatContract <==== ChatServiceContract --> ChatService
SchemaInstall <==== Migration
Lifecycle          ThreadHistory

AgentOutcomeProofs --> AgentRunProofs <------ CatalogRunProofs
      |                      |                       |
      v                      v                       v
PersistedTrace        AgentRunContract    EvaluationRun --> ... --> CatalogRun
```

(`-->` reads "extends", `====>` and `<====` "instantiates"; each `MC...` module is
the TLC instance of the module in its name, `MCSmallRun` that of AgentRunContract
and PersistedTrace together, `MCEvaluation` that of RoutingComparison; each `...Proofs`
module extends the modules it is about: `AgentRunProofs` and `ChatServiceProofs` the
two `...Contract` modules, `AgentOutcomeProofs` and `CatalogRunProofs` those drawn
here, the others the module in their name)

| Module | Models | Correspondence |
|---|---|---|
| `ToolGate` | the payload of a tool call and the gates before it is trusted | `Verify` is `ToolVerifier.verify`; `WorkOrderIsValidFor` and `PolicyIsValidFor` the two `is_valid_for`; `ParsesAs...` the two `from_data`; `...Request` the two `from_arguments` |
| `AgentRun` | one `run_detailed` | `agent`, `response`, `pending_error`, `attempt_class` are the fields of `GraphState`; `node` the node being executed; `deadline` the `asyncio.timeout` around its await. A node that awaits is entered by one action (`Start`, `CallTool`, `CallModel`) and left by another (`RouteTo`, `RouteFails`, `ToolReturns`, `ToolTimesOut`, `ToolRaises`, `ModelAnswers`, `ModelFails`, `ModelCrashes`); `VerifyResult`, `Recover`, `AnswerFromTool`, `ToolMissing` are whole nodes. `Return` and `Raise` are the end of `_execute` and `run_detailed`. Each event carries the metadata the code records |
| `RunContract` | the abstract promise of `run_detailed` | a bounded number of tool calls, then one ending; after a tool call no exception; a tool answer is grounded; the conversation is remembered exactly when the run returns |
| `AgentRunContract` | the refinement mapping | `grounded` is computed from the response and the caller's scope, not from the verdict |
| `RunTrace` | `trace_from_state`, `terminal_error_code` | operators over the final `agent` |
| `PersistedTrace` | what is stored of a trace, and what `GET /runs/{run_id}` reads back | `Sanitized` is `sanitize_event_metadata`, `RunRow` and `EventRowsOf` the row builders of `repo.py`, `StoredEvents` the ordered SELECT |
| `CatalogRun` | the shipped tools, stores and records under the control loop | `Execute` is `execute` of both tools, `GetWorkOrder` and `GetPolicy` the two `get`, `TrustedScopeFromHeaders` the scope of a request. The stores await nothing, so a call is not interrupted. Records are those of `catalog.py`; an enumerated text stands as `AllowedStatus` or `AllowedTerms`. `CatalogNext` is `Next` with `CatalogReturns` in the place of the ways an arbitrary call ends |
| `RouterRules` | what both routers decide | `DecisionOf` is `decision_from_routing_output`, `KeywordDecision` is `AgentRouter.decide` |
| `Routing` | one model call and its fallback, under the rules | `step` is the native or plain request in flight; `CallFails` holds the fallback of both providers |
| `ThreadHistory` | `ThreadHistoryBuffer` under overlapping runs | `turns` is `_turns`; `Cleaned` is the generator of `truncate_history`, an `AnyTurn` a turn a caller may pass; `Begin` is `_start_state`; `Succeed` is the record after `_execute`, atomic because it awaits nothing |
| `ChatService` | `POST /chat`, `GET /runs/{run_id}` and `GET /ready` over the database | one step per await of a handler; `Flush` the INSERTs, `Commit` the server's commit, `Acknowledge` the return of `commit()`; the tables hold only committed rows |
| `ChatContract` | the abstract store of runs that clients see | no connection, transaction, pool or crash: a run is stored as a whole or not at all and stays, a client is told the truth or left in doubt, a read sees the store as it is when it looks |
| `ChatServiceContract` | the refinement mapping | `stored` is read off the three tables, `told` and `found` off the replies |
| `Lifecycle` | `lifespan`, `validate_startup`, the runtime singleton | `phase` is where the lifespan stands; `CheckRuntime`, `BuildRuntime`, `AssignRuntime`, `ReturnRuntime` are the reads and writes of `_runtime` in `get_agent`, by a worker thread each; `TakeRuntime` and `CloseClient` the two halves of `close_runtime`, `CloseDb` is `close_db` |
| `Migration` | `init_db` of replicas that boot together | one step per statement of the revision, of Alembic's bookkeeping and of the boot around it; `url` tells the dialect, and `Create` what a CREATE does in it |
| `SchemaInstall` | what migrating is for | the schema appears and stays, at one instant where the database can do that; a replica is ready only when all of it is there |
| `EvaluationCases` | the 23 golden cases | one record per case of `agent_cases.py` |
| `EvaluationRun` | the runner over the modelled control loop | `BeginCase` is `_runtime_for_case`, `RunStep` the steps of `AgentRun` with the fakes of the case, `TrajectoryFromState` and `Passed` the judgement |
| `RoutingComparison` | the six comparison scenarios and the metrics | `RoutingAccuracy` and `RoutingAgreement` of `metrics.py` |

The operators commented `MUTANT` in these modules are plausible bugs. No
specification uses them; each shows that a property notices when the definition
after it is changed that way.

## 3. Runs, bounds, and what they show

| Run | Instance | Shows |
|---|---|---|
| `agent_run` | five callers (right, other tenant, other property, two unscoped), six decisions, rejected decisions, 34 results: for either tool the right payload and variants wrong in one respect, retryable or not; two attempts as shipped (`container.py:85`); 238,144 states | vetting, evidence, trace and failure class over every mix of results of two attempts, with time-outs, exceptions and cancellation between any steps |
| `small_run` | three attempts, a registry without the policy tool; 4,064 states | termination under fairness, refinement of `RunContract`, truth of the trace and of the rows made of it; that class and error token together tell a time-out from a refusal. Three attempts let a middle attempt differ from both neighbours |
| `thread_history` | three runs, two threads or none, room for four turns; 190,432 states | three exchanges overflow one thread, two runs overlap while the third records; questions, answers and histories passed by the caller may be blank |
| `chat_service` | two chats, two readers or probes, two connections, two faults; 101,729 states | refinement of `ChatContract` with its fairness, so a client is told the truth and nobody waits for ever; the connections come back. A second fault can hit the handling of a first, readers overlap the writers they read, and four handlers share two connections |
| `routing` | three kinds of client, both purposes, every combination of action, tool name and argument forms; 1,786 states | the domain rules for every schema-valid output, and the fallback |
| `catalog_run` | the shipped records; every pair of scope headers, absent or blank ones included, every id and issue type, known or not; 3,372 states | who is answered and what a refusal says in the shipped configuration, exhaustively |
| `lifecycle` | environments right or wrong in each setting and in either spelling, time-outs that are no number, zero, finite or infinite; two requests, two lives of a process; 1,344 states | one open runtime as configured, found open by every handler; nothing left open; a shutdown that ends. The second life meets what the first left in the globals |
| `migration` | PostgreSQL and SQLite; a database that is empty, downgraded, at head or older than Alembic; three replicas, two crashes; 6,132 states | refinement of `SchemaInstall`, and that all replicas serve in the end unless autocommitted DDL was cut off. A third replica can boot between the failure of one and the commit of another |
| `evaluation` | the 23 golden cases in their order and backwards, the six comparison scenarios with both routers; 485 states | the modelled control loop takes exactly the paths the repository records for the real one, which also validates `AgentRun`, `CatalogRun` and `RouterRules` against the repository's own expectations; and that a scripted case plays its own script from the beginning |

Attempts, runs, requests, lives, crashes and faults are the only counters;
`MaxAttempts`, `Runs`, `Requests`, `MaxBoots`, `MaxCrashes` and `MaxFaults` bound
them. A model value stands for each text that is only compared, so two of each kind
show every match and mismatch. Faults in `ChatService` act on one handler or on the
process, and no property relates more than two handlers. Symmetry is used in
`thread_history` only, whose two threads are interchangeable.

Two runs are expected to find a violation; each checks a sentence of the
documentation against the code:

| Run | Documentation | Code |
|---|---|---|
| `failed_write` | `docs/api-contract.md:51, 63`: after a failed write no rows are committed | an acknowledgement lost after the commit is a 503 too (`repo.py:102-104`) |
| `model_failure` | `docs/DESIGN.md:135`: an upstream model failure is a 502 | JSON that is no object raises `AttributeError` in the Ollama client (`ollama.py:60`); on the answer path that is a 500. The LLM router does map it |

`docs/DESIGN.md:170` tells a time-out from a refusal by `error_code` *and*
`failure_class`, and `PairTellsTimeout` is that claim. Both are needed: the token
comes from the latest *failed* attempt (`trace.py:115`), so a run that timed out and
then got a record that did not verify is reported with the token `tool_timeout` and the
class `verification_failure`.

`docs/observability.md:5-8` can be read as saying that the trace of every run is
persisted. A run whose model failed raises before its trace is built
(`async_runtime.py:179-181`), and the contract of `ChatService` demands that the
client who was told so finds nothing of it.

`CHECK_DEADLOCK FALSE` is set for `ThreadHistory` and `ChatService` only: when all
runs and requests are over the process is idle. The other modules have an explicit
last step (`Finished`, `Gone`, `AllServe`, `AllRun`) and are checked for deadlock.

## 4. Fairness

- `AgentRun`, `Routing`: weak fairness of what the event loop does by itself:
  ready steps run, an armed timer fires, the exception of an expired one is
  delivered. Nothing is assumed of models and tools, so an endless await is a
  behaviour of the model and `RunEnds` and `CallEnds` rest on the deadlines. A
  tool or client is taken to let a cancellation through; one that swallows it,
  or blocks the event loop, would defeat `asyncio.timeout`, and the code has no
  answer to it.
- `ChatService`: weak fairness of each handler's own steps. That an agent run
  ends is `RunEnds`; that a database call returns or fails is the driver's. The
  pool's wait is a choice between a free connection and its time-out. No fault
  is fair, and no client has to send anything. Under it the refinement checks
  the fairness of `ChatContract`: a request that was taken is settled, a read that
  was asked is answered. The refinement in `small_run` likewise checks the fairness
  of `RunContract`: working for ever is excluded.
- `Lifecycle`: the lifespan's own steps run, worker threads are scheduled, and a
  deadline passes if the runtime's time-out is finite (each await of a run is
  under one: `RunEnds`). Models and tools may stay silent and nobody has to send a
  request or stop the service. `ShutdownEnds` therefore rests on the rejection of
  `inf` and `nan` in `config.py`.
- `Migration`: each replica that runs gets on with its work and one that is down is
  started again, which is the restart policy of the deployment. Crashes are bounded
  and not fair.
- `EvaluationRun` has safety properties only; a case that hung would fail the
  deadlock check or leave its result out of `AllRun`.

## 5. Proofs

Eight modules prove what the runs check on small instances for every value of the
constants: any number of attempts, requests, readers, connections, faults, lives,
replicas, crashes, runs and threads, any registry and results, histories of any
length. A step of a proof that is about an action is a lemma of its own, and the
proof that `Next` keeps an invariant only collects them.

| Module | About | Checked properties it proves |
|---|---|---|
| `AgentRunProofs` | what a run may answer, and what its state says of the last attempt | `AgentRun!TypeOK`, `AnswerIsVetted`, `EvidenceMatchesAnswer`, `RetriesAreEarned`, `FailureClassIsOfLastAttempt` |
| `AgentOutcomeProofs` | the trace of a run, its outcome and what is stored of it | `TerminalEventClosesTrace`, `TraceAccountsForAttempts`, `SuccessIsClean`, `PairTellsTimeout`, `StoredEventsAreTheRuns`, `SummaryAgreesWithEvents`; the steps of `ImplementsContract` |
| `CatalogRunProofs` | a run with the shipped tools, and one with scripted tools | `ForeignDataStaysInStore`, `AnsweredExactlyWhenEntitled`, `TokenTellsTruth`; `ScriptIsPlayedInOrder` |
| `ThreadHistoryProofs` | the history under overlapping runs | `ThreadHistory!TypeOK`, `BufferIsRecentConversation`, `ContextIsOwnThreadAtStart`, `ContextIsPresentable` |
| `ChatServiceProofs` | the handlers over the database | `ChatService!TypeOK`, `ConnectionsComeBack`, `ReplyMatchesTables`; the steps of the refinement of `ChatContract` |
| `RoutingProofs` | both routers | `Routing!TypeOK`, `DecisionIsCallable`, `OnlyFailedRoutingFallsBack`, `RoutingFailsTyped` |
| `LifecycleProofs` | startup, requests, shutdown | `OneRuntime`, `HandlersShareOpenRuntime`, `NothingLeftOpen`, `RunsAsConfigured` |
| `MigrationProofs` | replicas that migrate together | `Migration!TypeOK`; the steps of the refinement of `SchemaInstall` |

*Assumptions.* Each is a named ASSUME of the module that declares the constants, and
TLC evaluates it in every run. They say that the sets have the right type and that
`None` (or `Missing`, `Lifespan`, `NoThread`) is apart from the values next to it.
Four say more:

- `RunAssumption`: a decision to answer directly names no tool, which both routers see
  to (`llm_router.py:44-50`, `router.py:49-71`). Otherwise the summary row, which shows
  a tool only for `use_tool`, would differ from the routing event.
- `RulesAssumption`: the allowed issue types are in lower case, as in
  `maintenance_policy.py`, and `LongestFirst` lists just them.
- `DeploymentAssumption`: the database a service is pointed at may be in any state but
  these: at head with part of the schema missing, or, where DDL is transactional, with
  part of it and no version. Nothing in the service writes such a database.

- `CatalogAssumption`: the texts of the shipped records are among the texts of the model,
  and what the shipped tools return is among `Results`, which is what any tool may
  return. It is about how the constants are chosen, not about the code. `CatalogSpec`
  itself never mentions `Results`.

Two theorems have a hypothesis that is not an ASSUME: `FailureClassIsOfLast` and
`PairTellsTimeouts` need `TimeoutTokenIsTheRuntimes`, that no tool writes the token `tool_timeout` into a failed
result. The shipped tools do not. Without it a tool could pass off its own failure as a
time-out.

*Arguments.* Few of these properties are inductive; what each invariant adds:

- **Vetting.** The verifier judges `tool_result`, two steps later the answer is made from
  `observations[-1]`, and the property does not say that these are one payload.
  `RunInvariant` says what each node finds: from the tool node on there is a decision, a
  call in progress names a registered tool, at `verify_node` and `recovery_node` the last
  observation is `tool_result`, at `answer_node` it has been verified against the
  arguments and scope the run still holds, and the response is that payload.
- **Outcome.** Three accounts, by node. `AttemptsAccounted`: as many observations as
  attempts, within the budget; a run that has made an attempt no longer raises.
  `EvidenceAccounted`: evidence belongs to the present verdict. `CleanAccounted`: where
  there is no failure class. `ClassAccounted` and `TraceAccounted` build on them: the
  class is that of the last observation, and a started call that has no outcome yet is
  the one in progress. `TokenAccounted`: if the last observation is of a failed attempt,
  its token is that of the latest `tool_failed` event, because no step but the end of a
  tool call logs one or writes an observation.
- **Stored trace.** `SummaryAccounted`: while a run may still return, its events hold one
  route, which is the decision's, a last verdict, which is the state's, and one retry
  for each attempt but the last, or for each attempt on the way into `tool_node`. That each event
  carries its position makes the ordered SELECT give back the sequence
  (`StoredInOrder`, by counting the rows before each).
- **Catalog.** That a step with the shipped tools is a step of `AgentRun`
  (`CatalogStepIsRunStep`) needs to know that a call in progress is one for a decision
  of a router and a caller's scope, for only then `CatalogAssumption` speaks of its
  result. With that step by step, the invariants of `AgentRun` hold here too and need no
  second proof. `CatalogAccounted` adds that the last result is what the stores give for
  the decision and the scope the run still holds (`ResultIsLookedUp`) and that the run
  ends as the verifier judged it (`EndIsAsJudged`). The rest is about operators:
  `GetWorkOrderGives` and `GetPolicyGives` say which record a store returns or why none,
  `WorkOrderEntitled` and `PolicyEntitled` that the verifier lets pass just what a caller
  is entitled to. They rest on `CatalogKeys`: no two of the shipped records have the same
  key, so the last of a key is the only one. A catalog with two tenants' records under
  one work order id would break `AnsweredExactlyWhenEntitled`.
- **Scripts.** `ScriptAccounted`: the tool of the running case has counted as many calls
  as the run has observations, unless every call is late and none is counted; and a call
  whose tool is not late meets no expired deadline. Nothing is assumed of the cases of a
  suite or their number.
- **History.** The heart is `TruncateOnce`: truncating what was truncated before, with
  one exchange added, is truncating the whole once. It needs facts about the recursive
  function `Cleaned` on sequences of any length. They are proved without an induction
  theorem, by a least counterexample (`LeastNatural`, which `RoutingProofs` also uses
  for the first issue type that a message mentions). The invariant then is that each
  buffer is the truncation of all that was said on its thread and that each run holds
  the truncation of a prefix of it.
- **Chat service.** `PoolInvariant` counts connections by the set of handlers that hold
  one; `RequestInvariant` and `ReaderInvariant` say of each handler, by its step, which
  of its rows are pending, committed or absent, and that it touches no other's.
- **Lifecycle.** A build under way excludes an open runtime, and all building is the
  lifespan's own: it has run `init_runtime` before the first request, so no request ever
  finds the singleton missing. That is what makes the unlocked test-and-set safe.
- **Migration.** The version is at head only when every table and the index are there;
  where DDL is transactional nothing of the revision is without it; no object is in two
  open transactions; a replica at the n-th statement finds the ones before it done.

The refinements are proved as far as safety goes: the initial states are the abstract
ones and every step is an abstract step or changes nothing the abstract state shows
(`RunContractIsKept`, `ContractIsKept`, `InstallationIsKept`). Each inductive
invariant was checked by TLC before it was proved. `RunInvariant`
and the type invariant of `Lifecycle` are proved only: on an instance, what they add to
`AnswerIsVetted` and `RunsAsConfigured` is of interest to the proofs alone.

*Only model-checked.* Liveness is beyond the prover: `RunEnds`, `CallEnds`,
`ShutdownEnds`, `CatchUpUnlessTorn` and the fairness that the three refinements
demand. `GoldenTrajectories` and `ComparisonTellsStrategiesApart` compare concrete cases
with what the repository expects of them; TLC goes through all of these, and there is
nothing more general to prove.

## 6. Abstractions and what is not modelled

- Texts are known up to the code's conversions: blank, absent or of another type is
  `None`; surrounding blanks do not count; lower case is the function
  `LowerCase`. Timestamps that do not parse, or have no zone, are `None`. A
  payload's required remaining texts are one field, `details`.
- A tool returns a `ToolResult` whose `data` is a dict, or raises. Custom routers
  are not modelled; the keyword router does not fail. A registry files a tool
  under its own name, as `build_default_tools` does.
- A rejected decision keeps its arguments as far as the evaluation reads them; an
  argument of another type than text is `None` there.
- The branch for an action of a third kind (`async_runtime.py:249-259`) is
  unreachable: the enumeration has two. LangGraph's own limit of 25 steps is not
  reached with the shipped two attempts.
- The HTTP route passes no thread id, so `ThreadHistory` concerns callers of the
  runtime itself.
- The database applies a transaction at once when it commits. A commit that
  outlives a cancelled or crashed client is the order commit, then fault, which
  the model has. Pool and driver are external.
- The frozen clock of the catalog is the constant `FrozenNow`, at the precision
  of a day: no record begins or ends on that day.
- Event timestamps and `routing_duration_ms`, a difference of clock readings that
  only logs use, are left out.
- The HTTP server takes requests after startup and, told to stop, lets those it has
  taken end before the lifespan goes on. A forced exit is the crash of
  `ChatService` or `Migration`. An empty `DATABASE_URL` fails when `repo.py` is
  imported, before any lifespan.
- That PostgreSQL runs the DDL of a revision in one transaction, that a CREATE waits
  for another transaction that has created the same object, that SQLite commits
  each DDL statement, and how Alembic keeps its version table are facts about
  external software; the map marks the definitions that carry them.
- The evaluation knows a message by what the keyword router finds in it and times as
  the milliseconds that decide which of two passes first. A case's
  `scripted_tool_name` is always the default.

Not modelled:

- `GET /health`, which answers a constant, and FastAPI's own 422;
- `save_chat` and `save_trace`, which nothing calls;
- Alembic's offline mode and `downgrade`, which the service never runs;
- `setup_logging` and the middleware: log lines, a request id and latency, which no
  other part reads;
- the words of prompts and replies.

## 7. Plan

Modelled, in this order: the run and its gate, the contract, the trace, the history,
the chat service, routing, the shipped catalog; then the persisted trace, the
lifecycle, migrations, the contract of the chat service and the offline evaluation.
Proved: the type invariants and the safety properties of all of these, except for the
two comparisons with recorded cases named in section 5.

Nothing of the plan is left open. What would extend it: a catalog whose records are a
constant instead of the shipped ones, with the uniqueness of keys as its assumption, if
the stores come to be filled from elsewhere; and a case runner with the types of
`AgentRun`, if its fakes come to be shared with the service.
