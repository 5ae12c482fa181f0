----------------------------- MODULE ChatService -----------------------------
(***************************************************************************)
(* POST /chat, GET /runs/{run_id} and GET /ready (api/routes.py) over the  *)
(* database (db/repo.py), in one process that may crash and restart.       *)
(* Requests are served concurrently on one event loop and share the pool.  *)
(*                                                                         *)
(* The agent run of a request is one interval here, from AgentStarts to    *)
(* AgentReturns or AgentRaises: what happens inside it is AgentRun, of     *)
(* which these are the endings that RunContract shows.  The database is    *)
(* external: a transaction becomes visible at once when the server has     *)
(* committed it, the client learns of it later, and either call may fail.  *)
(***************************************************************************)
EXTENDS Integers, FiniteSets

CONSTANTS
    None,
    Requests,     \* POST /chat requests; each names its run_id too
    Readers,      \* GET /runs/{run_id} and GET /ready requests
    EventCount,   \* events in the trace of a run
    PoolSize,     \* connections the engine may have open
    MaxFaults     \* bound: database errors, cancellations and crashes

ASSUME ServiceAssumption ==
    /\ EventCount \in Nat \ {0}
    /\ PoolSize \in Nat \ {0}
    /\ MaxFaults \in Nat
    /\ None \notin Requests \cup Int

VARIABLES
    process,      \* "up", "down"
    request,      \* per POST: its step, and the reply once sent
    reader,       \* per GET: its step, the run asked for (None: /ready), the reply
    chats, runs, events,   \* rows committed in the three tables
    pool,         \* connections free in this process
    faults

vars == <<process, request, reader, chats, runs, events, pool, faults>>

tables == <<chats, runs, events>>

Steps == {"idle", "running", "connecting", "writing", "committing", "committed",
          "replied", "dropped"}
HoldingSteps == {"writing", "committing", "committed"}

Orders == 0..(EventCount - 1)
EventRows(r) == {r} \X Orders

Reply(status, run_id) == [status |-> status, run_id |-> run_id]

Answer(r, status, run_id) ==
    request' = [request EXCEPT ![r] =
                   [step |-> "replied", reply |-> Reply(status, run_id)]]

Goto(r, step) == request' = [request EXCEPT ![r].step = step]

-----------------------------------------------------------------------------
Init ==
    /\ process = "up"
    /\ request = [r \in Requests |-> [step |-> "idle", reply |-> None]]
    /\ reader = [q \in Readers |-> [step |-> "idle", run_id |-> None, read |-> {},
                                    status |-> None]]
    /\ chats = {} /\ runs = {} /\ events = {}
    /\ pool = PoolSize
    /\ faults = 0

-----------------------------------------------------------------------------
(* POST /chat.                                                             *)

\* A message that strip() empties never reaches the agent.
RejectBlank(r) ==
    /\ process = "up" /\ request[r].step = "idle"
    /\ Answer(r, 400, None)
    /\ UNCHANGED <<process, reader, tables, pool, faults>>

AgentStarts(r) ==
    /\ process = "up" /\ request[r].step = "idle"
    /\ Goto(r, "running")
    /\ UNCHANGED <<process, reader, tables, pool, faults>>

\* An answer or the review message; save_chat_and_trace opens its session.
AgentReturns(r) ==
    /\ request[r].step = "running"
    /\ Goto(r, "connecting")
    /\ UNCHANGED <<process, reader, tables, pool, faults>>

\* Only model failures are mapped; UnknownFailure leaves the handler.
AgentRaises(r, class) ==
    /\ request[r].step = "running"
    /\ Answer(r, IF class \in {"model_timeout", "model_error"} THEN 502 ELSE 500, None)
    /\ UNCHANGED <<process, reader, tables, pool, faults>>

\* commit() flushes: the session takes a connection of the pool...
Connect(r) ==
    /\ request[r].step = "connecting"
    /\ pool > 0
    /\ pool' = pool - 1
    /\ Goto(r, "writing")
    /\ UNCHANGED <<process, reader, tables, faults>>

\* ...or waits for one until the pool gives up.
PoolTimesOut(r) ==
    /\ request[r].step = "connecting"
    /\ pool = 0
    /\ Answer(r, 503, None)
    /\ UNCHANGED <<process, reader, tables, pool, faults>>

\* MUTANT: the reply does not wait for the commit.
FlushAndReply(r) ==
    /\ request[r].step = "writing"
    /\ Answer(r, 200, r)
    /\ pool' = pool + 1
    /\ UNCHANGED <<process, reader, tables, faults>>

\* The INSERTs of the chat, the run and its events: nobody else sees them yet.
Flush(r) ==
    /\ request[r].step = "writing"
    /\ Goto(r, "committing")
    /\ UNCHANGED <<process, reader, tables, pool, faults>>

\* MUTANT: chat and run committed first, the events in a second transaction.
CommitInTwo(r) ==
    /\ request[r].step = "committing"
    /\ chats' = chats \cup {r}
    /\ runs' = runs \cup {r}
    /\ IF r \in runs
       THEN events' = events \cup EventRows(r) /\ Goto(r, "committed")
       ELSE UNCHANGED <<events, request>>
    /\ UNCHANGED <<process, reader, pool, faults>>

\* The database server commits the transaction.
Commit(r) ==
    /\ request[r].step = "committing"
    /\ chats' = chats \cup {r}
    /\ runs' = runs \cup {r}
    /\ events' = events \cup EventRows(r)
    /\ Goto(r, "committed")
    /\ UNCHANGED <<process, reader, pool, faults>>

\* commit() returns; the session closes; the reply carries X-Run-Id.
Acknowledge(r) ==
    /\ request[r].step = "committed"
    /\ Answer(r, 200, r)
    /\ pool' = pool + 1
    /\ UNCHANGED <<process, reader, tables, faults>>

\* MUTANT: a connection given back that was never taken.
DatabaseFailsReleasing(r) ==
    /\ faults < MaxFaults
    /\ request[r].step \in {"connecting"} \cup HoldingSteps
    /\ Answer(r, 503, None)
    /\ pool' = pool + 1
    /\ faults' = faults + 1
    /\ UNCHANGED <<process, reader, tables>>

\* Any exception of the driver, before the commit or instead of its
\* acknowledgement, is a DatabaseError.
DatabaseFails(r) ==
    /\ faults < MaxFaults
    /\ request[r].step \in {"connecting"} \cup HoldingSteps
    /\ Answer(r, 503, None)
    /\ pool' = IF request[r].step = "connecting" THEN pool ELSE pool + 1
    /\ faults' = faults + 1
    /\ UNCHANGED <<process, reader, tables>>

\* MUTANT: the session is not closed when the task is cancelled.
CancelHolding(r) ==
    /\ faults < MaxFaults
    /\ request[r].step \in {"running", "connecting"} \cup HoldingSteps
    /\ Goto(r, "dropped")
    /\ faults' = faults + 1
    /\ UNCHANGED <<process, reader, tables, pool>>

\* The server cancels the handler's task: CancelledError is no Exception, so no
\* handler maps it; the session's context manager still gives the connection back.
Cancel(r) ==
    /\ faults < MaxFaults
    /\ request[r].step \in {"running", "connecting"} \cup HoldingSteps
    /\ Goto(r, "dropped")
    /\ pool' = IF request[r].step \in HoldingSteps THEN pool + 1 ELSE pool
    /\ faults' = faults + 1
    /\ UNCHANGED <<process, reader, tables>>

-----------------------------------------------------------------------------
(* GET /runs/{run_id}: get_trace reads the run, then its events.           *)

FinishRead(q, status, read) ==
    reader' = [reader EXCEPT ![q] = [step |-> "replied", run_id |-> reader[q].run_id,
                                     read |-> read, status |-> status]]

ReadRun(q, r) ==
    /\ process = "up" /\ reader[q].step = "idle"
    /\ reader' = [reader EXCEPT ![q].step = "connecting", ![q].run_id = r]
    /\ UNCHANGED <<process, request, tables, pool, faults>>

SelectRun(q) ==
    /\ reader[q].step = "connecting" /\ reader[q].run_id # None
    /\ pool > 0
    /\ IF reader[q].run_id \in runs
       THEN reader' = [reader EXCEPT ![q].step = "selecting"] /\ pool' = pool - 1
       ELSE FinishRead(q, 404, {}) /\ UNCHANGED pool
    /\ UNCHANGED <<process, request, tables, faults>>

SelectEvents(q) ==
    /\ reader[q].step = "selecting" /\ reader[q].run_id # None
    /\ FinishRead(q, 200, {row[2] : row \in {row \in events : row[1] = reader[q].run_id}})
    /\ pool' = pool + 1
    /\ UNCHANGED <<process, request, tables, faults>>

\* GET /ready: ping_db opens a connection, selects a constant and closes it.
Probe(q) ==
    /\ process = "up" /\ reader[q].step = "idle"
    /\ reader' = [reader EXCEPT ![q].step = "connecting"]
    /\ UNCHANGED <<process, request, tables, pool, faults>>

Ping(q) ==
    /\ reader[q].step = "connecting" /\ reader[q].run_id = None
    /\ pool > 0
    /\ reader' = [reader EXCEPT ![q].step = "selecting"]
    /\ pool' = pool - 1
    /\ UNCHANGED <<process, request, tables, faults>>

PingReturns(q) ==
    /\ reader[q].step = "selecting" /\ reader[q].run_id = None
    /\ FinishRead(q, 200, {})
    /\ pool' = pool + 1
    /\ UNCHANGED <<process, request, tables, faults>>

\* An error of either read, or no connection in time, is a DatabaseError.
ReadFails(q) ==
    /\ reader[q].step \in {"connecting", "selecting"}
    /\ \/ reader[q].step = "connecting" /\ pool = 0 /\ UNCHANGED faults
       \/ faults < MaxFaults /\ faults' = faults + 1
    /\ FinishRead(q, 503, {})
    /\ pool' = IF reader[q].step = "selecting" THEN pool + 1 ELSE pool
    /\ UNCHANGED <<process, request, tables>>

CancelRead(q) ==
    /\ faults < MaxFaults
    /\ reader[q].step \in {"connecting", "selecting"}
    /\ reader' = [reader EXCEPT ![q].step = "dropped"]
    /\ pool' = IF reader[q].step = "selecting" THEN pool + 1 ELSE pool
    /\ faults' = faults + 1
    /\ UNCHANGED <<process, request, tables>>

-----------------------------------------------------------------------------
(* The process.                                                            *)

Crash ==
    /\ process = "up" /\ faults < MaxFaults
    /\ process' = "down"
    /\ request' = [r \in Requests |->
                      IF request[r].step \in {"idle", "replied"}
                      THEN request[r] ELSE [request[r] EXCEPT !.step = "dropped"]]
    /\ reader' = [q \in Readers |->
                     IF reader[q].step \in {"idle", "replied"}
                     THEN reader[q] ELSE [reader[q] EXCEPT !.step = "dropped"]]
    /\ pool' = PoolSize
    /\ faults' = faults + 1
    /\ UNCHANGED tables

\* lifespan: the migrations are at head already, so init_db changes no row.
Restart ==
    /\ process = "down"
    /\ process' = "up"
    /\ UNCHANGED <<request, reader, tables, pool, faults>>

AgentEnds(r) ==
    \/ AgentReturns(r)
    \/ \E class \in {"model_timeout", "model_error", "unknown"} : AgentRaises(r, class)

Next ==
    \/ \E r \in Requests :
          \/ RejectBlank(r) \/ AgentStarts(r) \/ AgentEnds(r)
          \/ Connect(r) \/ PoolTimesOut(r) \/ Flush(r) \/ Commit(r) \/ Acknowledge(r)
          \/ DatabaseFails(r) \/ Cancel(r)
    \/ \E q \in Readers :
          \/ \E r \in Requests : ReadRun(q, r)
          \/ SelectRun(q) \/ SelectEvents(q) \/ ReadFails(q) \/ CancelRead(q)
          \/ Probe(q) \/ Ping(q) \/ PingReturns(q)
    \/ Crash
    \/ Restart

Spec == Init /\ [][Next]_vars

(***************************************************************************)
(* The event loop runs every handler that can go on; an agent run ends     *)
(* (AgentRun!RunEnds); a call to the database returns or fails.  No client *)
(* is obliged to send a request, and nothing has to fail.                  *)
(***************************************************************************)
Fairness ==
    /\ \A r \in Requests :
          /\ WF_vars(AgentEnds(r))
          /\ WF_vars(Connect(r) \/ PoolTimesOut(r))
          /\ WF_vars(Flush(r) \/ Commit(r) \/ Acknowledge(r))
    /\ \A q \in Readers :
          WF_vars(SelectRun(q) \/ SelectEvents(q) \/ Ping(q) \/ PingReturns(q) \/ ReadFails(q))

FairSpec == Spec /\ Fairness

-----------------------------------------------------------------------------
(* Properties.                                                             *)

TypeOK ==
    /\ process \in {"up", "down"}
    /\ request \in [Requests -> [step : Steps,
                                 reply : [status : {200, 400, 500, 502, 503},
                                          run_id : Requests \cup {None}] \cup {None}]]
    /\ reader \in [Readers -> [step : {"idle", "connecting", "selecting", "replied", "dropped"},
                               run_id : Requests \cup {None}, read : SUBSET Orders,
                               status : {200, 404, 503, None}]]
    /\ chats \subseteq Requests /\ runs \subseteq Requests
    /\ events \subseteq Requests \X Orders
    /\ pool \in 0..PoolSize
    /\ faults \in 0..MaxFaults

\* The three tables hold all rows of a request or none.
RowsAreWhole ==
    \A r \in Requests :
        /\ r \in chats <=> r \in runs
        /\ EventRows(r) \cap events = IF r \in runs THEN EventRows(r) ELSE {}

\* However a request ends, by an error, a cancellation or a crash at any point of
\* the write, its rows are whole, and the client's answer agrees with them: whoever
\* got an answer has its run there, under the run id of the reply; whoever was told
\* of an input or model error has nothing there; and nobody but the client of a 200
\* has a run id (repo.py:94-104, routes.py:34-65).
ReplyMatchesTables ==
    /\ RowsAreWhole
    /\ \A r \in Requests :
          LET reply == request[r].reply
          IN  reply # None =>
                 /\ reply.status = 200 => r \in runs
                 /\ reply.status \in {400, 500, 502} => r \notin chats \cup runs
                 /\ reply.run_id = IF reply.status = 200 THEN r ELSE None

\* Every way out of a handler gives its connection back (repo.py:43, 99,
\* 150).
ConnectionsComeBack ==
    pool = PoolSize - Cardinality({r \in Requests : request[r].step \in HoldingSteps})
                    - Cardinality({q \in Readers : reader[q].step = "selecting"})

\* docs/api-contract.md:51 and 63: a failed write commits no rows.
FailedWriteCommitsNothing ==
    \A r \in Requests :
        (request[r].reply # None /\ request[r].reply.status = 503) => r \notin chats \cup runs
=============================================================================
