---------------------------- MODULE ThreadHistory ----------------------------
(***************************************************************************)
(* The in-process memory of one AsyncAgentRuntime: ThreadHistoryBuffer and *)
(* truncate_history (agent/context.py), read when a run starts             *)
(* (_start_state) and written when it has succeeded (run_detailed).        *)
(*                                                                         *)
(* Runs of one runtime overlap, on one thread_id or on several.  Between   *)
(* its snapshot and its record a run awaits models and tools, so others    *)
(* record in between; the record itself awaits nothing and is one step.    *)
(***************************************************************************)
EXTENDS Integers, Sequences

CONSTANTS
    NoThread,     \* thread_id None or ""
    Threads,      \* thread ids in use
    Runs,         \* runs of this runtime; each stands for its own message
    NoRun,        \* the text of a turn that is no run's
    MaxHistory,   \* ContextPolicy.max_history
    OwnHistories  \* turns a caller may pass instead of the buffer's

Roles == {"user", "assistant"}

\* "system" stands for every other role that a caller's turn may have.
AnyTurn == [role : Roles \cup {"system"}, run : Runs \cup {NoRun}, blank : BOOLEAN, order : Int]

ASSUME HistoryAssumption ==
    /\ MaxHistory \in Int
    /\ NoThread \notin Threads
    /\ OwnHistories \subseteq Seq(AnyTurn)

\* A text is known by the run it comes from; `blank` says that strip() empties it.
Turn(role, r, blank, order) == [role |-> role, run |-> r, blank |-> blank, order |-> order]

\* The two turns of a run: what it was asked and what it answered.
Exchange(r, asked, answered, order) ==
    << Turn("user", r, asked, order), Turn("assistant", r, answered, order + 1) >>

VARIABLES
    turns,     \* ThreadHistoryBuffer._turns; a thread never recorded has no turns
    run,       \* per run: its step, thread, history snapshot, and `seen` (see below)
    said       \* history variable: per thread, all turns of its successful runs

vars == <<turns, run, said>>

-----------------------------------------------------------------------------
(* truncate_history and ThreadHistoryBuffer.                               *)

\* MUTANT: numbering off by one.
RenumberFromBelow(kept) == [i \in 1..Len(kept) |-> [kept[i] EXCEPT !.order = i - 2]]

Renumber(kept) == [i \in 1..Len(kept) |-> [kept[i] EXCEPT !.order = i - 1]]

\* MUTANT: kept turns keep their old order numbers, and any role passes.
TruncateUncleaned(history) ==
    IF MaxHistory <= 0 THEN <<>>
    ELSE IF Len(history) <= MaxHistory THEN history
    ELSE SubSeq(history, Len(history) - MaxHistory + 1, Len(history))

\* The turns of a history that may reach a prompt, in its order.
Cleaned(history) ==
    LET upTo[n \in 0..Len(history)] ==
            IF n = 0 THEN <<>>
            ELSE IF history[n].role \in Roles /\ ~history[n].blank
            THEN Append(upTo[n - 1], history[n])
            ELSE upTo[n - 1]
    IN  upTo[Len(history)]

\* cleaned[-max_history:], renumbered from 0.
Truncate(history) ==
    LET cleaned == Cleaned(history)
    IN  IF MaxHistory <= 0 THEN <<>>
        ELSE IF Len(cleaned) <= MaxHistory THEN Renumber(cleaned)
        ELSE Renumber(SubSeq(cleaned, Len(cleaned) - MaxHistory + 1, Len(cleaned)))

\* ThreadHistoryBuffer.turns
TurnsOf(thread) == IF thread = NoThread THEN <<>> ELSE turns[thread]

\* MUTANT: the buffer rewritten from what the run saw when it started.
RecordFromSnapshot(r, asked, answered) ==
    LET thread == run[r].thread
        existing == run[r].history
    IN  turns' = IF thread = NoThread
                 THEN turns
                 ELSE [turns EXCEPT ![thread] =
                          Truncate(existing \o Exchange(r, asked, answered, Len(existing)))]

\* ThreadHistoryBuffer.record
RecordExchange(r, asked, answered) ==
    LET thread == run[r].thread
        existing == turns[thread]
    IN  turns' = IF thread = NoThread
                 THEN turns
                 ELSE [turns EXCEPT ![thread] =
                          Truncate(existing \o Exchange(r, asked, answered, Len(existing)))]

-----------------------------------------------------------------------------
(* Runs.                                                                   *)

Init ==
    /\ turns = [thread \in Threads |-> <<>>]
    /\ run = [r \in Runs |-> [step |-> "idle", thread |-> NoThread, history |-> <<>>,
                              own |-> FALSE, seen |-> 0]]
    /\ said = [thread \in Threads |-> <<>>]

SeenOn(thread) == IF thread = NoThread THEN 0 ELSE Len(said[thread])

\* _start_state without `history`: the buffer's turns become the answer context's.
Begin(r, thread) ==
    /\ run[r].step = "idle"
    /\ run' = [run EXCEPT ![r] =
                  [step |-> "running", thread |-> thread, own |-> FALSE,
                   history |-> Truncate(TurnsOf(thread)), seen |-> SeenOn(thread)]]
    /\ UNCHANGED <<turns, said>>

\* _start_state with a history of the caller's: the buffer is not read.
BeginWithOwnHistory(r, thread, history) ==
    /\ run[r].step = "idle"
    /\ run' = [run EXCEPT ![r] =
                  [step |-> "running", thread |-> thread, own |-> TRUE,
                   history |-> Truncate(history), seen |-> SeenOn(thread)]]
    /\ UNCHANGED <<turns, said>>

\* run_detailed after _execute returned an answer, a review response included.
\* A caller of the runtime may ask, and a client of its own may answer, with a
\* blank text; the HTTP route and the shipped clients refuse both.
Succeed(r, asked, answered) ==
    /\ run[r].step = "running"
    /\ RecordExchange(r, asked, answered)
    /\ run' = [run EXCEPT ![r].step = "succeeded"]
    /\ said' = IF run[r].thread = NoThread
               THEN said
               ELSE [said EXCEPT ![run[r].thread] = @ \o Exchange(r, asked, answered, 0)]

\* MUTANT: the exchange remembered before the outcome is known.
FailRemembered(r) ==
    /\ run[r].step = "running"
    /\ RecordExchange(r, FALSE, FALSE)
    /\ run' = [run EXCEPT ![r].step = "failed"]
    /\ UNCHANGED said

\* A model failure, an unknown exception or a cancellation: nothing is recorded.
Fail(r) ==
    /\ run[r].step = "running"
    /\ run' = [run EXCEPT ![r].step = "failed"]
    /\ UNCHANGED <<turns, said>>

Next ==
    \E r \in Runs :
        \/ \E thread \in Threads \cup {NoThread} : Begin(r, thread)
        \/ \E thread \in Threads \cup {NoThread}, history \in OwnHistories :
              BeginWithOwnHistory(r, thread, history)
        \/ \E asked, answered \in BOOLEAN : Succeed(r, asked, answered)
        \/ Fail(r)

Spec == Init /\ [][Next]_vars

-----------------------------------------------------------------------------
(* Properties.                                                             *)

TurnType == [role : Roles, run : Runs, blank : BOOLEAN, order : Nat]

TypeOK ==
    /\ turns \in [Threads -> Seq(TurnType)]
    /\ \A r \in Runs :
          /\ run[r].step \in {"idle", "running", "succeeded", "failed"}
          /\ run[r].thread \in Threads \cup {NoThread}
          /\ run[r].own \in BOOLEAN
          /\ run[r].seen \in Nat
    /\ said \in [Threads -> Seq(TurnType)]

\* The last MaxHistory texts among the first n turns said on a thread.
RecentTurns(thread, n) ==
    LET texts == Cleaned(SubSeq(said[thread], 1, n))
        kept == IF MaxHistory <= 0 THEN 0
                ELSE IF Len(texts) <= MaxHistory THEN Len(texts) ELSE MaxHistory
    IN  [i \in 1..kept |-> [texts[Len(texts) - kept + i] EXCEPT !.order = i - 1]]

\* Truncating after every exchange forgets nothing that truncating the whole
\* conversation once would keep, and a run that ends while others are running on
\* its thread neither overwrites nor reorders their exchanges; a failed run leaves
\* no turn (context.py:127-146, async_runtime.py:142-153).
BufferIsRecentConversation ==
    \A thread \in Threads :
        turns[thread] = RecentTurns(thread, Len(said[thread]))

\* A run answers from its own thread as it was when the run started: no turn of
\* another thread and none recorded since (async_runtime.py:193-201, state kept
\* across every await of the run).
ContextIsOwnThreadAtStart ==
    \A r \in Runs :
        (run[r].step # "idle" /\ ~run[r].own) =>
            run[r].history = IF run[r].thread = NoThread
                             THEN <<>>
                             ELSE RecentTurns(run[r].thread, run[r].seen)

\* Whatever history a caller passes, what reaches the answer prompt is bounded,
\* made of user and assistant texts that are not blank, and numbered without a
\* gap (context.py:92-103).
ContextIsPresentable ==
    \A r \in Runs :
        LET history == run[r].history
        IN  /\ Len(history) <= IF MaxHistory <= 0 THEN 0 ELSE MaxHistory
            /\ \A i \in 1..Len(history) :
                  /\ history[i].order = i - 1
                  /\ history[i].role \in Roles /\ ~history[i].blank
=============================================================================
