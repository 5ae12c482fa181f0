------------------------------ MODULE Lifecycle ------------------------------
(***************************************************************************)
(* The life of the service process: main.lifespan, the settings it starts  *)
(* from (infra/config.py) and the runtime singleton of infra/container.py. *)
(*                                                                         *)
(* A lifespan is entered again in a process that has left it, as the test  *)
(* client does: the singleton, the settings and the engine are globals of  *)
(* their modules and survive.  POST /chat gets its runtime in a worker     *)
(* thread (get_agent is a synchronous dependency), so the reads and writes *)
(* of the singleton by different threads interleave.  The HTTP server      *)
(* takes requests only after startup and, told to stop, answers those it   *)
(* has taken before it lets the lifespan go on.                            *)
(***************************************************************************)
EXTENDS Integers, Sequences, FiniteSets

CONSTANTS
    None, Infinite,
    Requests,       \* POST /chat requests that may be in flight together
    Environments,   \* what the process environment may hold: the raw settings
    Normalised,     \* str.strip().lower() on the texts of the environment
    MaxBoots        \* bound: how often one process enters the lifespan

Providers == {"ollama", "openai"}
RouterModes == {"keyword", "llm"}

\* A timeout is a text until validate_startup turns it into a number; `number` is
\* what float() makes of it: None if it raises, Infinite for inf and nan.
Setting(environment) ==
    environment \in
        [llm_provider : DOMAIN Normalised, router_mode : DOMAIN Normalised,
         llm_timeout_seconds : [kind : {"text", "float"}, number : Int \cup {None, Infinite}],
         openai_api_key : BOOLEAN]

Lifespan == "lifespan"
Callers == Requests \cup {Lifespan}

ASSUME LifecycleAssumption ==
    /\ MaxBoots \in Nat \ {0}
    /\ \A environment \in Environments : Setting(environment)
    /\ \A text \in DOMAIN Normalised :
          /\ Normalised[text] \in DOMAIN Normalised
          /\ Normalised[Normalised[text]] = Normalised[text]
    /\ Lifespan \notin Requests
    /\ None \notin Int

VARIABLES
    phase,      \* where the lifespan stands
    boots,      \* how often it was entered
    settings,   \* config.settings
    _runtime,   \* container._runtime: the number of a build, or None
    builds,     \* the runtimes built: what they were built from, and their client
    engine,     \* repo.engine: whether its pool may hold connections
    at,         \* the step of get_agent, or of the handler, each caller is at
    got,        \* the caller's runtime: built and not yet assigned, then returned
    closing     \* the local `runtime` of close_runtime

vars == <<phase, boots, settings, _runtime, builds, engine, at, got, closing>>

-----------------------------------------------------------------------------
(* Settings.validate_startup.                                              *)

SupportedProvider(s) == Normalised[s.llm_provider] \in Providers

\* MUTANT: validate_startup without math.isfinite.
PositiveOrInfiniteTimeout(s) ==
    /\ s.llm_timeout_seconds.number # None
    /\ s.llm_timeout_seconds.number = Infinite \/ s.llm_timeout_seconds.number > 0

PositiveTimeout(s) ==
    /\ s.llm_timeout_seconds.number \notin {None, Infinite}
    /\ s.llm_timeout_seconds.number > 0

SupportedRouterMode(s) == Normalised[s.router_mode] \in RouterModes
KeyPresent(s) == Normalised[s.llm_provider] = "openai" => s.openai_api_key

\* An empty DATABASE_URL has failed before, when repo.py was imported.
Accepted(s) ==
    SupportedProvider(s) /\ PositiveTimeout(s) /\ SupportedRouterMode(s) /\ KeyPresent(s)

\* MUTANT: the settings checked and not normalised.
ValidatedOnly(s) == s

\* Each setting is written back as soon as it has passed, so a later failure
\* leaves the earlier ones normalised.
Validated(s) ==
    LET provider == IF SupportedProvider(s)
                    THEN [s EXCEPT !.llm_provider = Normalised[s.llm_provider]] ELSE s
        timeout == IF SupportedProvider(s) /\ PositiveTimeout(s)
                   THEN [provider EXCEPT !.llm_timeout_seconds.kind = "float"] ELSE provider
    IN  IF SupportedProvider(s) /\ PositiveTimeout(s) /\ SupportedRouterMode(s)
        THEN [timeout EXCEPT !.router_mode = Normalised[s.router_mode]] ELSE timeout

\* build_runtime, _build_llm and create_router: every provider but "ollama" gets
\* OpenAI's client, and the router mode is normalised once more.
RuntimeFrom(s) ==
    [client |-> IF s.llm_provider = "ollama" THEN "ollama" ELSE "openai",
     router |-> IF Normalised[s.router_mode] = "llm" THEN "llm" ELSE "keyword",
     timeout |-> s.llm_timeout_seconds.number,
     http |-> "open"]

-----------------------------------------------------------------------------
(* Startup.                                                                *)

Init ==
    /\ phase = "boot"
    /\ boots = 1
    /\ settings \in Environments
    /\ _runtime = None
    /\ builds = <<>>
    /\ engine = "open"
    /\ at = [c \in Callers |-> "idle"]
    /\ got = [c \in Callers |-> None]
    /\ closing = None

ValidateStartup ==
    /\ phase = "boot"
    /\ settings' = Validated(settings)
    /\ phase' = IF Accepted(settings) THEN "init_db" ELSE "failed"
    /\ UNCHANGED <<boots, _runtime, builds, engine, at, got, closing>>

\* MUTANT: a lifespan that leaves the runtime to the first request.
InitDbAndServe ==
    /\ phase = "init_db"
    /\ engine' = "open"
    /\ phase' = "serving"
    /\ UNCHANGED <<boots, settings, _runtime, builds, at, got, closing>>

\* Migration.tla models what happens inside.
InitDb ==
    /\ phase = "init_db"
    /\ engine' = "open"
    /\ \/ phase' = "init_runtime" /\ at' = [at EXCEPT ![Lifespan] = "check"]
       \/ phase' = "failed" /\ UNCHANGED at
    /\ UNCHANGED <<boots, settings, _runtime, builds, got, closing>>

InitRuntimeReturns ==
    /\ phase = "init_runtime"
    /\ at[Lifespan] = "using"
    /\ at' = [at EXCEPT ![Lifespan] = "idle"]
    /\ got' = [got EXCEPT ![Lifespan] = None]
    /\ phase' = "serving"
    /\ UNCHANGED <<boots, settings, _runtime, builds, engine, closing>>

-----------------------------------------------------------------------------
(* get_agent, in a worker thread for a request and on the event loop for   *)
(* the lifespan: test, build, assign, and read the global again.           *)

RequestArrives(r) ==
    /\ phase = "serving"
    /\ at[r] = "idle"
    /\ at' = [at EXCEPT ![r] = "check"]
    /\ UNCHANGED <<phase, boots, settings, _runtime, builds, engine, got, closing>>

CheckRuntime(c) ==
    /\ at[c] = "check"
    /\ at' = [at EXCEPT ![c] = IF _runtime = None THEN "build" ELSE "return"]
    /\ UNCHANGED <<phase, boots, settings, _runtime, builds, engine, got, closing>>

\* _build_llm validates once more; what passed at startup passes here.
BuildRuntime(c) ==
    /\ at[c] = "build"
    /\ settings' = Validated(settings)
    /\ builds' = Append(builds, RuntimeFrom(settings'))
    /\ got' = [got EXCEPT ![c] = Len(builds')]
    /\ at' = [at EXCEPT ![c] = "assign"]
    /\ UNCHANGED <<phase, boots, _runtime, engine, closing>>

AssignRuntime(c) ==
    /\ at[c] = "assign"
    /\ _runtime' = got[c]
    /\ at' = [at EXCEPT ![c] = "return"]
    /\ UNCHANGED <<phase, boots, settings, builds, engine, got, closing>>

ReturnRuntime(c) ==
    /\ at[c] = "return"
    /\ got' = [got EXCEPT ![c] = _runtime]
    /\ at' = [at EXCEPT ![c] = "using"]
    /\ UNCHANGED <<phase, boots, settings, _runtime, builds, engine, closing>>

\* The models and the tools answer, or fail.
RequestEnds(r) ==
    /\ at[r] = "using"
    /\ at' = [at EXCEPT ![r] = "idle"]
    /\ got' = [got EXCEPT ![r] = None]
    /\ UNCHANGED <<phase, boots, settings, _runtime, builds, engine, closing>>

\* Each await of a run ends at the runtime's timeout at the latest.
DeadlineEndsRequest(r) ==
    /\ at[r] = "using"
    /\ builds[got[r]].timeout # Infinite
    /\ RequestEnds(r)

-----------------------------------------------------------------------------
(* Shutdown.                                                               *)

ShutdownSignal ==
    /\ phase = "serving"
    /\ phase' = "draining"
    /\ UNCHANGED <<boots, settings, _runtime, builds, engine, at, got, closing>>

\* MUTANT: the runtime taken down when the signal arrives.
TakeRuntimeAtOnce ==
    /\ phase = "draining"
    /\ closing' = _runtime
    /\ _runtime' = None
    /\ phase' = "close_runtime"
    /\ UNCHANGED <<boots, settings, builds, engine, at, got>>

\* MUTANT: the singleton kept until its client is closed.
TakeRuntimeKeeping ==
    /\ phase = "draining"
    /\ \A r \in Requests : at[r] = "idle"
    /\ closing' = _runtime
    /\ phase' = "close_runtime"
    /\ UNCHANGED <<boots, settings, _runtime, builds, engine, at, got>>

\* The lifespan goes on after its yield; no thread is in get_agent any more, so
\* the two halves of `runtime, _runtime = _runtime, None` are one step.
TakeRuntime ==
    /\ phase = "draining"
    /\ \A r \in Requests : at[r] = "idle"
    /\ closing' = _runtime
    /\ _runtime' = None
    /\ phase' = "close_runtime"
    /\ UNCHANGED <<boots, settings, builds, engine, at, got>>

CloseClient ==
    /\ phase = "close_runtime"
    /\ builds' = IF closing = None THEN builds ELSE [builds EXCEPT ![closing].http = "closed"]
    /\ closing' = None
    /\ phase' = "close_db"
    /\ UNCHANGED <<boots, settings, _runtime, engine, at, got>>

\* aclose raises: there is no finally, and close_db is not reached.
CloseClientFails ==
    /\ phase = "close_runtime"
    /\ closing # None
    /\ builds' = [builds EXCEPT ![closing].http = "broken"]
    /\ closing' = None
    /\ phase' = "aborted"
    /\ UNCHANGED <<boots, settings, _runtime, engine, at, got>>

CloseDb ==
    /\ phase = "close_db"
    /\ engine' = "disposed"
    /\ phase' = "stopped"
    /\ UNCHANGED <<boots, settings, _runtime, builds, at, got, closing>>

AtRest == phase \in {"stopped", "aborted", "failed"}

EnterAgain ==
    /\ AtRest
    /\ boots < MaxBoots
    /\ boots' = boots + 1
    /\ phase' = "boot"
    /\ UNCHANGED <<settings, _runtime, builds, engine, at, got, closing>>

Gone == AtRest /\ boots = MaxBoots /\ UNCHANGED vars

Next ==
    \/ ValidateStartup
    \/ InitDb
    \/ InitRuntimeReturns
    \/ \E r \in Requests : RequestArrives(r) \/ RequestEnds(r)
    \/ \E c \in Callers :
          CheckRuntime(c) \/ BuildRuntime(c) \/ AssignRuntime(c) \/ ReturnRuntime(c)
    \/ ShutdownSignal
    \/ TakeRuntime
    \/ CloseClient
    \/ CloseClientFails
    \/ CloseDb
    \/ EnterAgain
    \/ Gone

Spec == Init /\ [][Next]_vars

(***************************************************************************)
(* The lifespan's own steps run, threads are scheduled, and a deadline     *)
(* passes (RunEnds of AgentRun); models and tools may stay silent for ever,*)
(* and nobody has to stop the service.                                     *)
(***************************************************************************)
Fairness ==
    /\ WF_vars(ValidateStartup)
    /\ WF_vars(InitDb)
    /\ WF_vars(InitRuntimeReturns)
    /\ \A c \in Callers :
          WF_vars(CheckRuntime(c) \/ BuildRuntime(c) \/ AssignRuntime(c) \/ ReturnRuntime(c))
    /\ \A r \in Requests : WF_vars(DeadlineEndsRequest(r))
    /\ WF_vars(TakeRuntime)
    /\ WF_vars(CloseClient \/ CloseClientFails)
    /\ WF_vars(CloseDb)

FairSpec == Spec /\ Fairness

-----------------------------------------------------------------------------
(* Properties.                                                             *)

Open == {b \in DOMAIN builds : builds[b].http = "open"}

TypeOK ==
    /\ phase \in {"boot", "init_db", "init_runtime", "serving", "draining",
                  "close_runtime", "close_db", "stopped", "aborted", "failed"}
    /\ boots \in 1..MaxBoots
    /\ Setting(settings)
    /\ builds \in Seq([client : Providers, router : RouterModes, timeout : Int,
                       http : {"open", "closed", "broken"}])
    /\ _runtime \in DOMAIN builds \cup {None}
    /\ engine \in {"open", "disposed"}
    /\ at \in [Callers -> {"idle", "check", "build", "assign", "return", "using"}]
    /\ got \in [Callers -> DOMAIN builds \cup {None}]
    /\ closing \in DOMAIN builds \cup {None}

\* However many first requests race through get_agent's unlocked test-and-set, one
\* runtime is built for each time the lifespan is entered, and two never hold open
\* clients: init_runtime has run before the first request (container.py:90-98,
\* main.py:14).
OneRuntime == Cardinality(Open) <= 1 /\ Len(builds) <= boots

\* A handler's runtime is the singleton, and its client is open until the handler
\* is done: close_runtime, and an earlier shutdown whose aclose raised, leave no
\* closed runtime for a request to find (container.py:94, 101-105).
HandlersShareOpenRuntime ==
    \A r \in Requests : at[r] = "using" => got[r] = _runtime /\ got[r] \in Open

\* Every client that was built has been closed, or its close has failed, once the
\* lifespan is over; and the engine keeps its connections only if startup failed or
\* the close before it did (main.py:16-19).
NothingLeftOpen ==
    AtRest => /\ Open = {}
              /\ _runtime = None
              /\ phase = "stopped" => engine = "disposed"

\* A service that answers requests runs on the provider, the router and the finite
\* positive timeout that its environment names in any spelling, with a key if the
\* provider wants one, and however often it was validated before (config.py:43-72,
\* container.py:16-36, 43-59).
RunsAsConfigured ==
    phase \in {"serving", "draining"} =>
        LET runtime == builds[_runtime]
        IN  /\ runtime.client = Normalised[settings.llm_provider]
            /\ runtime.router = Normalised[settings.router_mode]
            /\ runtime.timeout \in Nat \ {0}
            /\ runtime.client = "openai" => settings.openai_api_key

\* Told to stop, the process gets through its shutdown although a model may never
\* answer the requests in flight: for that the timeout it was started with must be
\* one that passes (config.py:61, container.py:75-83, main.py:17-19).
ShutdownEnds == (phase = "draining") ~> AtRest
=============================================================================
