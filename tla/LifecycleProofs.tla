---------------------------- MODULE LifecycleProofs ----------------------------
(***************************************************************************)
(* Proofs about Lifecycle for any number of requests, any environment and  *)
(* any number of boots of one process.                                     *)
(***************************************************************************)
EXTENDS Lifecycle, FiniteSetTheorems, SequenceTheorems, TLAPS

-----------------------------------------------------------------------------
(* The settings.                                                           *)

\* The settings after validate_startup has accepted them.
Valid(s) ==
    /\ Setting(s)
    /\ s.llm_provider \in Providers /\ Normalised[s.llm_provider] = s.llm_provider
    /\ s.router_mode \in RouterModes /\ Normalised[s.router_mode] = s.router_mode
    /\ s.llm_timeout_seconds.number \in Nat \ {0}
    /\ s.llm_provider = "openai" => s.openai_api_key

\* The runtime is the one its settings name.
Configured(runtime, s) ==
    /\ runtime.client = Normalised[s.llm_provider]
    /\ runtime.router = Normalised[s.router_mode]
    /\ runtime.timeout \in Nat \ {0}
    /\ runtime.client = "openai" => s.openai_api_key

Runtimes ==
    [client : Providers, router : RouterModes, timeout : Int,
     http : {"open", "closed", "broken"}]

LEMMA ValidatedFields ==
    ASSUME NEW s, Setting(s)
    PROVE  LET t == Validated(s)
           IN  /\ Setting(t)
               /\ t.openai_api_key = s.openai_api_key
               /\ t.llm_timeout_seconds.number = s.llm_timeout_seconds.number
               /\ t.llm_provider = IF SupportedProvider(s) THEN Normalised[s.llm_provider]
                                   ELSE s.llm_provider
               /\ t.router_mode =
                     IF SupportedProvider(s) /\ PositiveTimeout(s) /\ SupportedRouterMode(s)
                     THEN Normalised[s.router_mode] ELSE s.router_mode
<1> DEFINE provider == IF SupportedProvider(s)
                       THEN [s EXCEPT !.llm_provider = Normalised[s.llm_provider]] ELSE s
           timed == [provider EXCEPT !.llm_timeout_seconds.kind = "float"]
           timeout == IF SupportedProvider(s) /\ PositiveTimeout(s) THEN timed ELSE provider
           routed == [timeout EXCEPT !.router_mode = Normalised[s.router_mode]]
<1>1. /\ Normalised[s.llm_provider] \in DOMAIN Normalised
      /\ Normalised[s.router_mode] \in DOMAIN Normalised
  BY LifecycleAssumption DEF Setting
<1>2. Validated(s) = IF SupportedProvider(s) /\ PositiveTimeout(s) /\ SupportedRouterMode(s)
                     THEN routed ELSE timeout
  BY DEF Validated
<1>3. /\ Setting(provider) /\ provider.openai_api_key = s.openai_api_key
      /\ provider.llm_timeout_seconds = s.llm_timeout_seconds
      /\ provider.router_mode = s.router_mode
      /\ provider.llm_provider = IF SupportedProvider(s) THEN Normalised[s.llm_provider]
                                 ELSE s.llm_provider
  BY <1>1 DEF Setting
<1> HIDE DEF provider
<1>4. /\ Setting(timed) /\ timed.openai_api_key = provider.openai_api_key
      /\ timed.llm_timeout_seconds.number = provider.llm_timeout_seconds.number
      /\ timed.router_mode = provider.router_mode
      /\ timed.llm_provider = provider.llm_provider
  BY <1>3 DEF Setting
<1> HIDE DEF timed
<1>5. /\ Setting(timeout) /\ timeout.openai_api_key = provider.openai_api_key
      /\ timeout.llm_timeout_seconds.number = provider.llm_timeout_seconds.number
      /\ timeout.router_mode = provider.router_mode
      /\ timeout.llm_provider = provider.llm_provider
  BY <1>3, <1>4
<1> HIDE DEF timeout
<1>6. /\ Setting(routed) /\ routed.openai_api_key = timeout.openai_api_key
      /\ routed.llm_timeout_seconds = timeout.llm_timeout_seconds
      /\ routed.router_mode = Normalised[s.router_mode]
      /\ routed.llm_provider = timeout.llm_provider
  BY <1>1, <1>5 DEF Setting
<1> HIDE DEF routed
<1>7. QED
  BY <1>2, <1>3, <1>5, <1>6

\* What validate_startup accepts is normalised by it, once and for all.
LEMMA AcceptedIsValid ==
    ASSUME NEW s, Setting(s), Accepted(s)
    PROVE  Valid(Validated(s))
<1> DEFINE t == Validated(s)
<1>1. /\ SupportedProvider(s) /\ PositiveTimeout(s) /\ SupportedRouterMode(s) /\ KeyPresent(s)
  BY DEF Accepted
<1>2. /\ Setting(t) /\ t.openai_api_key = s.openai_api_key
      /\ t.llm_timeout_seconds.number = s.llm_timeout_seconds.number
      /\ t.llm_provider = Normalised[s.llm_provider]
      /\ t.router_mode = Normalised[s.router_mode]
  BY <1>1, ValidatedFields
<1> HIDE DEF t
<1>3. /\ Normalised[Normalised[s.llm_provider]] = Normalised[s.llm_provider]
      /\ Normalised[Normalised[s.router_mode]] = Normalised[s.router_mode]
  BY LifecycleAssumption DEF Setting
<1>4. s.llm_timeout_seconds.number \in Nat \ {0}
  BY <1>1 DEF PositiveTimeout, Setting
<1>5. Valid(t)
  BY <1>1, <1>2, <1>3, <1>4 DEF Valid, SupportedProvider, SupportedRouterMode, KeyPresent
<1>6. QED
  BY <1>5 DEF t

\* _build_llm validates once more and changes nothing.
LEMMA ValidStays ==
    ASSUME NEW s, Valid(s)
    PROVE  /\ Valid(Validated(s))
           /\ Validated(s).llm_provider = s.llm_provider
           /\ Validated(s).router_mode = s.router_mode
           /\ Validated(s).openai_api_key = s.openai_api_key
<1> DEFINE t == Validated(s)
<1>1. /\ Setting(t) /\ t.openai_api_key = s.openai_api_key
      /\ t.llm_timeout_seconds.number = s.llm_timeout_seconds.number
      /\ t.llm_provider = s.llm_provider /\ t.router_mode = s.router_mode
  BY ValidatedFields DEF Valid
<1> HIDE DEF t
<1>2. Valid(t)
  BY <1>1 DEF Valid
<1>3. QED
  BY <1>1, <1>2 DEF t

LEMMA RuntimeIsConfigured ==
    ASSUME NEW s, Valid(s)
    PROVE  /\ RuntimeFrom(s) \in Runtimes
           /\ RuntimeFrom(s).http = "open"
           /\ Configured(RuntimeFrom(s), s)
BY DEF Valid, RuntimeFrom, Runtimes, Configured, Providers, RouterModes

-----------------------------------------------------------------------------
(* The inductive invariant.                                                *)

Types ==
    /\ phase \in {"boot", "init_db", "init_runtime", "serving", "draining",
                  "close_runtime", "close_db", "stopped", "aborted", "failed"}
    /\ boots \in 1..MaxBoots
    /\ Setting(settings)
    /\ builds \in Seq(Runtimes)
    /\ _runtime \in DOMAIN builds \cup {None}
    /\ engine \in {"open", "disposed"}
    /\ at \in [Callers -> {"idle", "check", "build", "assign", "return", "using"}]
    /\ got \in [Callers -> DOMAIN builds \cup {None}]
    /\ closing \in DOMAIN builds \cup {None}

\* b is the one runtime whose client is open, and it was built from the settings.
InUse(b) ==
    /\ b \in DOMAIN builds
    /\ Open = {b}
    /\ Configured(builds[b], settings)

Nothing == _runtime = None /\ Open = {}

\* A runtime is there exactly between the lifespan's assignment and its shutdown.
RuntimeInvariant ==
    /\ phase \in {"boot", "init_db", "close_db", "stopped", "aborted", "failed"} => Nothing
    /\ phase = "init_runtime" =>
          /\ at[Lifespan] \in {"check", "build"} => Nothing
          /\ at[Lifespan] = "assign" => _runtime = None /\ InUse(got[Lifespan])
          /\ at[Lifespan] \in {"return", "using"} => InUse(_runtime)
          /\ at[Lifespan] # "idle"
    /\ phase \in {"serving", "draining"} => InUse(_runtime)
    /\ phase = "close_runtime" =>
          _runtime = None /\ closing \in DOMAIN builds /\ Open = {closing}

\* So no request ever finds the singleton missing: all building is the lifespan's.
CallerInvariant ==
    /\ phase # "init_runtime" => at[Lifespan] = "idle"
    /\ \A r \in Requests :
          /\ at[r] \in {"idle", "check", "return", "using"}
          /\ at[r] # "idle" => phase \in {"serving", "draining"}
          /\ at[r] = "using" => got[r] = _runtime

BootInvariant ==
    /\ phase \in {"init_db", "init_runtime"} => Valid(settings)
    /\ Len(builds) <= boots
    /\ phase \in {"boot", "init_db"} => Len(builds) < boots
    /\ phase = "init_runtime" /\ at[Lifespan] \in {"check", "build"} => Len(builds) < boots
    /\ phase = "stopped" => engine = "disposed"

LifecycleInvariant == Types /\ RuntimeInvariant /\ CallerInvariant /\ BootInvariant

LEMMA Basics ==
    /\ None \notin Int /\ Lifespan \notin Requests
    /\ Lifespan \in Callers /\ Requests \subseteq Callers
    /\ \A c \in Callers : c = Lifespan \/ c \in Requests
    /\ MaxBoots \in Nat /\ MaxBoots >= 1
BY LifecycleAssumption DEF Callers

LEMMA BuildsDomain ==
    ASSUME Types
    PROVE  /\ DOMAIN builds = 1..Len(builds) /\ Len(builds) \in Nat
           /\ None \notin DOMAIN builds /\ boots \in Nat
           /\ \A b \in DOMAIN builds : builds[b] \in Runtimes
<1>1. builds \in Seq(Runtimes) /\ boots \in 1..MaxBoots
  BY DEF Types
<1>2. DOMAIN builds = 1..Len(builds) /\ Len(builds) \in Nat
  BY <1>1
<1>3. QED
  BY <1>1, <1>2, Basics

\* What a step that builds and closes nothing keeps.
LEMMA KeepsBuilds ==
    ASSUME UNCHANGED <<builds, settings>>
    PROVE  /\ Open' = Open
           /\ \A b : InUse(b) <=> InUse(b)'
BY DEF Open, InUse

LEMMA InitLifecycle == Init => LifecycleInvariant
<1> SUFFICES ASSUME Init PROVE LifecycleInvariant
  OBVIOUS
<1>1. /\ phase = "boot" /\ boots = 1 /\ settings \in Environments /\ _runtime = None
      /\ builds = <<>> /\ engine = "open" /\ closing = None
      /\ at = [c \in Callers |-> "idle"] /\ got = [c \in Callers |-> None]
  BY DEF Init
<1>2. Types
  BY <1>1, Basics, LifecycleAssumption DEF Types
<1>3. Open = {}
  BY <1>1 DEF Open
<1>4. RuntimeInvariant /\ CallerInvariant /\ BootInvariant
  BY <1>1, <1>3, Basics DEF RuntimeInvariant, Nothing, CallerInvariant, BootInvariant
<1>5. QED
  BY <1>2, <1>4 DEF LifecycleInvariant

LEMMA NextLifecycle == LifecycleInvariant /\ [Next]_vars => LifecycleInvariant'
<1> SUFFICES ASSUME Types, RuntimeInvariant, CallerInvariant, BootInvariant, [Next]_vars
             PROVE  LifecycleInvariant'
  BY DEF LifecycleInvariant
<1>0. /\ DOMAIN builds = 1..Len(builds) /\ Len(builds) \in Nat /\ boots \in Nat
      /\ None \notin DOMAIN builds
  BY BuildsDomain
<1> USE DEF LifecycleInvariant
<1>1. CASE ValidateStartup
  <2>1. /\ phase = "boot" /\ settings' = Validated(settings)
        /\ phase' = IF Accepted(settings) THEN "init_db" ELSE "failed"
        /\ UNCHANGED <<boots, _runtime, builds, engine, at, got, closing>>
    BY <1>1 DEF ValidateStartup
  <2>2. Setting(settings) /\ Setting(settings')
    BY <2>1, ValidatedFields DEF Types
  <2>3. Types'
    BY <2>1, <2>2 DEF Types
  <2>4. phase' = "init_db" => Valid(settings')
    BY <2>1, <2>2, AcceptedIsValid
  <2>5. Open' = Open
    BY <2>1 DEF Open
  <2>6. RuntimeInvariant' /\ CallerInvariant'
    BY <2>1, <2>5 DEF RuntimeInvariant, CallerInvariant, Nothing
  <2>7. BootInvariant'
    BY <2>1, <2>4 DEF BootInvariant
  <2>8. QED
    BY <2>3, <2>6, <2>7
<1>2. CASE InitDb
  <2>1. /\ phase = "init_db" /\ engine' = "open"
        /\ UNCHANGED <<boots, settings, _runtime, builds, got, closing>>
        /\ \/ phase' = "init_runtime" /\ at' = [at EXCEPT ![Lifespan] = "check"]
           \/ phase' = "failed" /\ at' = at
    BY <1>2 DEF InitDb
  <2>2. Types'
    BY <2>1, Basics DEF Types
  <2>3. /\ at'[Lifespan] \in {"check", at[Lifespan]}
        /\ phase' = "init_runtime" => at'[Lifespan] = "check"
        /\ phase' = "failed" => at' = at
        /\ \A r \in Requests : at'[r] = at[r]
    BY <2>1, Basics DEF Types
  <2>4. RuntimeInvariant'
    BY <2>1, <2>3, KeepsBuilds DEF RuntimeInvariant, Nothing
  <2>5. CallerInvariant'
    BY <2>1, <2>3 DEF CallerInvariant
  <2>6. BootInvariant'
    BY <2>1, <2>3 DEF BootInvariant
  <2>7. QED
    BY <2>2, <2>4, <2>5, <2>6
<1>3. CASE InitRuntimeReturns
  <2>1. /\ phase = "init_runtime" /\ at[Lifespan] = "using" /\ phase' = "serving"
        /\ at' = [at EXCEPT ![Lifespan] = "idle"] /\ got' = [got EXCEPT ![Lifespan] = None]
        /\ UNCHANGED <<boots, settings, _runtime, builds, engine, closing>>
    BY <1>3 DEF InitRuntimeReturns
  <2>2. Types'
    BY <2>1, Basics DEF Types
  <2>3. /\ at'[Lifespan] = "idle"
        /\ \A r \in Requests : at'[r] = at[r] /\ got'[r] = got[r]
    BY <2>1, Basics DEF Types
  <2>4. RuntimeInvariant'
    BY <2>1, <2>3, KeepsBuilds DEF RuntimeInvariant
  <2>5. CallerInvariant' /\ BootInvariant'
    BY <2>1, <2>3 DEF CallerInvariant, BootInvariant
  <2>6. QED
    BY <2>2, <2>4, <2>5
<1>4. ASSUME NEW r \in Requests, RequestArrives(r) \/ RequestEnds(r)
      PROVE  LifecycleInvariant'
  <2>1. /\ \E step \in {"check", "idle"} : at' = [at EXCEPT ![r] = step]
        /\ got' = got \/ got' = [got EXCEPT ![r] = None]
        /\ phase = "serving" \/ at[r] = "using"
        /\ UNCHANGED <<phase, boots, settings, _runtime, builds, engine, closing>>
    BY <1>4 DEF RequestArrives, RequestEnds
  <2>2. phase \in {"serving", "draining"} /\ r \in Callers /\ r # Lifespan
    BY <2>1, Basics DEF CallerInvariant
  <2>3. Types'
    BY <2>1, <2>2 DEF Types
  <2>4. /\ at'[Lifespan] = at[Lifespan] /\ at'[r] \in {"check", "idle"}
        /\ \A q \in Requests \ {r} : at'[q] = at[q] /\ got'[q] = got[q]
    BY <2>1, <2>2, Basics DEF Types
  <2>5. RuntimeInvariant'
    BY <2>1, <2>2, <2>4, KeepsBuilds DEF RuntimeInvariant
  <2>6. CallerInvariant' /\ BootInvariant'
    BY <2>1, <2>2, <2>4 DEF CallerInvariant, BootInvariant
  <2>7. QED
    BY <2>3, <2>5, <2>6
<1>5. ASSUME NEW c \in Callers, CheckRuntime(c)
      PROVE  LifecycleInvariant'
  <2>1. /\ at[c] = "check"
        /\ at' = [at EXCEPT ![c] = IF _runtime = None THEN "build" ELSE "return"]
        /\ UNCHANGED <<phase, boots, settings, _runtime, builds, engine, got, closing>>
    BY <1>5 DEF CheckRuntime
  <2>2. Types'
    BY <2>1 DEF Types
  <2>3. /\ at'[c] = IF _runtime = None THEN "build" ELSE "return"
        /\ \A d \in Callers \ {c} : at'[d] = at[d]
    BY <2>1 DEF Types
  <2>4. CASE c = Lifespan
    <3>1. phase = "init_runtime" /\ _runtime = None /\ Open = {}
      BY <2>1, <2>4 DEF CallerInvariant, RuntimeInvariant, Nothing
    <3>2. at'[Lifespan] = "build" /\ \A r \in Requests : at'[r] = at[r]
      BY <2>3, <2>4, <3>1, Basics
    <3>3. RuntimeInvariant'
      BY <2>1, <3>1, <3>2, KeepsBuilds DEF RuntimeInvariant, Nothing
    <3>4. CallerInvariant' /\ BootInvariant'
      BY <2>1, <2>4, <3>1, <3>2 DEF CallerInvariant, BootInvariant
    <3>5. QED
      BY <2>2, <3>3, <3>4
  <2>5. CASE c \in Requests
    <3>1. phase \in {"serving", "draining"} /\ InUse(_runtime)
      BY <2>1, <2>5 DEF CallerInvariant, RuntimeInvariant
    <3>2. at'[c] = "return"
      BY <1>0, <2>3, <3>1 DEF InUse
    <3>3. at'[Lifespan] = at[Lifespan] /\ \A r \in Requests \ {c} : at'[r] = at[r]
      BY <2>3, <2>5, Basics
    <3>4. RuntimeInvariant'
      BY <2>1, <3>1, <3>3, KeepsBuilds DEF RuntimeInvariant
    <3>5. CallerInvariant' /\ BootInvariant'
      BY <2>1, <3>1, <3>2, <3>3 DEF CallerInvariant, BootInvariant
    <3>6. QED
      BY <2>2, <3>4, <3>5
  <2>6. QED
    BY <2>4, <2>5, Basics
<1>6. ASSUME NEW c \in Callers, BuildRuntime(c)
      PROVE  LifecycleInvariant'
  <2>1. /\ at[c] = "build" /\ settings' = Validated(settings)
        /\ builds' = Append(builds, RuntimeFrom(settings'))
        /\ got' = [got EXCEPT ![c] = Len(builds')] /\ at' = [at EXCEPT ![c] = "assign"]
        /\ UNCHANGED <<phase, boots, _runtime, engine, closing>>
    BY <1>6 DEF BuildRuntime
  <2>2. c = Lifespan /\ phase = "init_runtime"
    BY <2>1, Basics DEF CallerInvariant
  <2>3. /\ _runtime = None /\ Open = {} /\ Valid(settings) /\ Len(builds) < boots
    BY <2>1, <2>2 DEF RuntimeInvariant, Nothing, BootInvariant
  <2>4. Valid(settings') /\ Setting(settings')
    BY <2>1, <2>3, ValidStays DEF Valid
  <2> DEFINE b == Len(builds) + 1
             runtime == RuntimeFrom(settings')
  <2>5. runtime \in Runtimes /\ runtime.http = "open" /\ Configured(runtime, settings')
    BY <2>4, RuntimeIsConfigured
  <2> HIDE DEF runtime
  <2>6. /\ builds' \in Seq(Runtimes) /\ Len(builds') = b /\ DOMAIN builds' = 1..b
        /\ builds'[b] = runtime /\ \A i \in DOMAIN builds : builds'[i] = builds[i]
        /\ DOMAIN builds \subseteq DOMAIN builds' /\ b \in DOMAIN builds'
    <3>1. builds' = Append(builds, runtime) /\ builds \in Seq(Runtimes)
      BY <2>1 DEF runtime, Types
    <3>2. QED
      BY <1>0, <2>5, <3>1
  <2>7. Open' = {b}
    <3>1. \A i \in 1..b : i = b \/ i \in DOMAIN builds
      BY <1>0
    <3>2. \A i \in DOMAIN builds : builds[i].http # "open"
      BY <2>3 DEF Open
    <3>3. QED
      BY <2>5, <2>6, <3>1, <3>2 DEF Open
  <2>8. /\ at'[Lifespan] = "assign" /\ got'[Lifespan] = b
        /\ \A r \in Requests : at'[r] = at[r] /\ got'[r] = got[r]
    BY <2>1, <2>2, <2>6, Basics DEF Types
  <2>9. InUse(got[Lifespan])'
    BY <2>5, <2>6, <2>7, <2>8 DEF InUse
  <2>10. Types'
    <3>1. got' \in [Callers -> DOMAIN builds' \cup {None}]
      BY <2>1, <2>6 DEF Types
    <3>2. at' \in [Callers -> {"idle", "check", "build", "assign", "return", "using"}]
      BY <2>1 DEF Types
    <3>3. QED
      BY <2>1, <2>4, <2>6, <3>1, <3>2 DEF Types
  <2>11. RuntimeInvariant'
    BY <2>1, <2>2, <2>3, <2>8, <2>9 DEF RuntimeInvariant
  <2>12. CallerInvariant' /\ BootInvariant'
    BY <1>0, <2>1, <2>2, <2>3, <2>4, <2>6, <2>8 DEF CallerInvariant, BootInvariant
  <2>13. QED
    BY <2>10, <2>11, <2>12
<1>7. ASSUME NEW c \in Callers, AssignRuntime(c)
      PROVE  LifecycleInvariant'
  <2>1. /\ at[c] = "assign" /\ _runtime' = got[c] /\ at' = [at EXCEPT ![c] = "return"]
        /\ UNCHANGED <<phase, boots, settings, builds, engine, got, closing>>
    BY <1>7 DEF AssignRuntime
  <2>2. c = Lifespan /\ phase = "init_runtime"
    BY <2>1, Basics DEF CallerInvariant
  <2>3. InUse(_runtime')
    BY <2>1, <2>2 DEF RuntimeInvariant
  <2>4. InUse(_runtime)'
    BY <2>1, <2>3, KeepsBuilds DEF InUse
  <2>5. Types'
    BY <2>1 DEF Types
  <2>6. /\ at'[Lifespan] = "return"
        /\ \A r \in Requests : at'[r] = at[r]
    BY <2>1, <2>2, Basics DEF Types
  <2>7. RuntimeInvariant'
    BY <2>1, <2>2, <2>4, <2>6 DEF RuntimeInvariant
  <2>8. CallerInvariant' /\ BootInvariant'
    BY <2>1, <2>2, <2>6 DEF CallerInvariant, BootInvariant
  <2>9. QED
    BY <2>5, <2>7, <2>8
<1>8. ASSUME NEW c \in Callers, ReturnRuntime(c)
      PROVE  LifecycleInvariant'
  <2>1. /\ at[c] = "return" /\ got' = [got EXCEPT ![c] = _runtime]
        /\ at' = [at EXCEPT ![c] = "using"]
        /\ UNCHANGED <<phase, boots, settings, _runtime, builds, engine, closing>>
    BY <1>8 DEF ReturnRuntime
  <2>2. Types'
    BY <2>1 DEF Types
  <2>3. /\ at'[c] = "using" /\ got'[c] = _runtime
        /\ \A d \in Callers \ {c} : at'[d] = at[d] /\ got'[d] = got[d]
    BY <2>1 DEF Types
  <2>4. c = Lifespan => phase = "init_runtime"
    BY <2>1 DEF CallerInvariant
  <2>5. RuntimeInvariant'
    BY <2>1, <2>3, <2>4, Basics, KeepsBuilds DEF RuntimeInvariant, Nothing
  <2>6. CallerInvariant'
    BY <2>1, <2>3, <2>4, Basics DEF CallerInvariant
  <2>7. BootInvariant'
    BY <2>1, <2>3, <2>4, Basics DEF BootInvariant
  <2>8. QED
    BY <2>2, <2>5, <2>6, <2>7
<1>9. CASE ShutdownSignal \/ EnterAgain \/ CloseDb
  <2>1. /\ \/ phase = "serving" /\ phase' = "draining" /\ boots' = boots /\ engine' = engine
           \/ AtRest /\ phase' = "boot" /\ boots' = boots + 1 /\ boots < MaxBoots
              /\ engine' = engine
           \/ phase = "close_db" /\ phase' = "stopped" /\ boots' = boots
              /\ engine' = "disposed"
        /\ UNCHANGED <<settings, _runtime, builds, at, got, closing>>
    BY <1>9 DEF ShutdownSignal, EnterAgain, CloseDb
  <2>2. Types'
    BY <1>0, <2>1, Basics DEF Types
  <2>3. RuntimeInvariant'
    BY <2>1, KeepsBuilds DEF RuntimeInvariant, Nothing, AtRest
  <2>4. CallerInvariant'
    BY <2>1 DEF CallerInvariant, AtRest
  <2>5. BootInvariant'
    BY <1>0, <2>1 DEF BootInvariant, AtRest
  <2>6. QED
    BY <2>2, <2>3, <2>4, <2>5
<1>10. CASE TakeRuntime
  <2>1. /\ phase = "draining" /\ \A r \in Requests : at[r] = "idle"
        /\ closing' = _runtime /\ _runtime' = None /\ phase' = "close_runtime"
        /\ UNCHANGED <<boots, settings, builds, engine, at, got>>
    BY <1>10 DEF TakeRuntime
  <2>2. InUse(_runtime)
    BY <2>1 DEF RuntimeInvariant
  <2>3. Types'
    BY <2>1 DEF Types
  <2>4. RuntimeInvariant'
    BY <2>1, <2>2, KeepsBuilds DEF RuntimeInvariant, InUse
  <2>5. CallerInvariant' /\ BootInvariant'
    BY <2>1 DEF CallerInvariant, BootInvariant
  <2>6. QED
    BY <2>3, <2>4, <2>5
<1>11. CASE CloseClient \/ CloseClientFails
  <2>1. /\ phase = "close_runtime" /\ phase' \in {"close_db", "aborted"} /\ closing' = None
        /\ UNCHANGED <<boots, settings, _runtime, engine, at, got>>
    BY <1>11 DEF CloseClient, CloseClientFails
  <2>2. /\ _runtime = None /\ closing \in DOMAIN builds /\ Open = {closing}
        /\ closing # None
    BY <1>0, <2>1 DEF RuntimeInvariant
  <2>3. PICK http \in {"closed", "broken"} : builds' = [builds EXCEPT ![closing].http = http]
    BY <1>11, <2>2 DEF CloseClient, CloseClientFails
  <2> DEFINE closed == [builds[closing] EXCEPT !.http = http]
  <2>4. closed \in Runtimes /\ closed.http # "open"
    BY <2>2, BuildsDomain DEF Runtimes
  <2>5. builds' = [builds EXCEPT ![closing] = closed]
    BY <2>3
  <2> HIDE DEF closed
  <2>6. /\ builds' \in Seq(Runtimes) /\ Len(builds') = Len(builds)
        /\ \A i \in DOMAIN builds : builds'[i] = IF i = closing THEN closed ELSE builds[i]
    <3>1. builds \in Seq(Runtimes)
      BY DEF Types
    <3>2. QED
      BY <1>0, <2>2, <2>4, <2>5, <3>1, ExceptSeq
  <2>7. DOMAIN builds' = DOMAIN builds
    BY <2>5
  <2>8. Open' = {}
    BY <2>2, <2>4, <2>6, <2>7 DEF Open
  <2>9. Types'
    BY <2>1, <2>6, <2>7 DEF Types
  <2>10. RuntimeInvariant'
    BY <2>1, <2>2, <2>8 DEF RuntimeInvariant, Nothing
  <2>11. CallerInvariant' /\ BootInvariant'
    BY <2>1, <2>6 DEF CallerInvariant, BootInvariant
  <2>12. QED
    BY <2>9, <2>10, <2>11
<1>12. CASE UNCHANGED vars
  <2>1. UNCHANGED <<phase, boots, settings, _runtime, builds, engine, at, got, closing>>
    BY <1>12 DEF vars
  <2>2. Types'
    BY <2>1 DEF Types
  <2>3. RuntimeInvariant'
    BY <2>1, KeepsBuilds DEF RuntimeInvariant, Nothing
  <2>4. CallerInvariant' /\ BootInvariant'
    BY <2>1 DEF CallerInvariant, BootInvariant
  <2>5. QED
    BY <2>2, <2>3, <2>4
<1>13. QED
  BY <1>1, <1>2, <1>3, <1>4, <1>5, <1>6, <1>7, <1>8, <1>9, <1>10, <1>11, <1>12
  DEF Next, Gone

-----------------------------------------------------------------------------
(* Theorems.                                                               *)

\* The lifespan owns the singleton: it is built by init_runtime, no request builds or
\* replaces it, and it is closed before a process may enter the lifespan again
\* (main.py:10-19, container.py:90-105).
THEOREM LifecycleInvariantHolds == Spec => []LifecycleInvariant
BY InitLifecycle, NextLifecycle, PTL DEF Spec

\* Every global of the process keeps its type; a runtime that is held by anyone is one
\* that was built (container.py:87-105).
THEOREM TypeCorrect == Spec => []TypeOK
<1>1. LifecycleInvariant => TypeOK
  BY DEF LifecycleInvariant, Types, TypeOK, Runtimes
<1>2. QED
  BY <1>1, LifecycleInvariantHolds, PTL

\* At most one runtime holds an open client, and each time the lifespan is entered at
\* most one is built, however many requests race through get_agent
\* (container.py:90-98, main.py:14).
THEOREM RuntimeIsSingle == Spec => []OneRuntime
<1>1. LifecycleInvariant => OneRuntime
  <2> SUFFICES ASSUME Types, RuntimeInvariant, BootInvariant
               PROVE  Cardinality(Open) <= 1 /\ Len(builds) <= boots
    BY DEF LifecycleInvariant, OneRuntime
  <2>1. Open = {} \/ \E b : Open = {b}
    <3>1. CASE phase = "init_runtime"
      <4>1. at[Lifespan] \in {"check", "build", "assign", "return", "using"}
        BY <3>1, Basics DEF Types, RuntimeInvariant
      <4>2. QED
        BY <3>1, <4>1 DEF RuntimeInvariant, Nothing, InUse
    <3>2. CASE phase # "init_runtime"
      BY <3>2 DEF Types, RuntimeInvariant, Nothing, InUse
    <3>3. QED
      BY <3>1, <3>2
  <2>2. Cardinality({}) = 0 /\ \A b : Cardinality({b}) = 1
    BY FS_EmptySet, FS_Singleton
  <2>3. Cardinality(Open) \in {0, 1}
    BY <2>1, <2>2
  <2>4. QED
    BY <2>3 DEF BootInvariant
<1>2. QED
  BY <1>1, LifecycleInvariantHolds, PTL

\* A request runs on the singleton, and the client of that runtime stays open until
\* the request is done, over shutdowns, closes that raise and restarts
\* (container.py:94, 101-105).
THEOREM HandlersRunOnOpenRuntime == Spec => []HandlersShareOpenRuntime
<1>1. LifecycleInvariant => HandlersShareOpenRuntime
  BY DEF LifecycleInvariant, RuntimeInvariant, CallerInvariant, InUse, HandlersShareOpenRuntime
<1>2. QED
  BY <1>1, LifecycleInvariantHolds, PTL

\* When the lifespan is over no client that was built is still open, and the engine is
\* disposed unless startup or the close before it failed (main.py:16-19).
THEOREM AllIsClosedInTheEnd == Spec => []NothingLeftOpen
<1>1. LifecycleInvariant => NothingLeftOpen
  BY DEF LifecycleInvariant, RuntimeInvariant, BootInvariant, Nothing, NothingLeftOpen, AtRest
<1>2. QED
  BY <1>1, LifecycleInvariantHolds, PTL

\* A service that takes requests runs on what its environment names, in any spelling,
\* with a deadline that passes, however often the settings are validated
\* (config.py:43-72, container.py:16-36, 43-59).
THEOREM ServiceRunsAsConfigured == Spec => []RunsAsConfigured
<1>1. LifecycleInvariant => RunsAsConfigured
  BY DEF LifecycleInvariant, RuntimeInvariant, InUse, Configured, RunsAsConfigured
<1>2. QED
  BY <1>1, LifecycleInvariantHolds, PTL
=============================================================================
