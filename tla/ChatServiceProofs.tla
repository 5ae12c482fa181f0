--------------------------- MODULE ChatServiceProofs ---------------------------
(***************************************************************************)
(* Proofs about ChatService for any number of requests, readers, events,   *)
(* connections and faults: types, the rows of a run against what its       *)
(* client was told, the pool's account, and that every step is one that    *)
(* ChatContract allows.  No set of requests need be finite: only the       *)
(* handlers that hold a connection are.                                    *)
(***************************************************************************)
EXTENDS ChatServiceContract, FiniteSetTheorems, TLAPS

-----------------------------------------------------------------------------
(* The pool.                                                               *)

Holding == {r \in Requests : request[r].step \in HoldingSteps}
Reading == {q \in Readers : reader[q].step = "selecting"}

PoolInvariant ==
    /\ IsFiniteSet(Holding)
    /\ IsFiniteSet(Reading)
    /\ ConnectionsComeBack

\* All that a step can do to the pool: a handler takes a connection or gives its
\* own back, or the process goes down with all of them.
PoolUntouched == UNCHANGED <<Holding, Reading, pool>>

ConnectionTaken(handlers, x) ==
    x \notin handlers /\ handlers' = handlers \cup {x} /\ pool > 0 /\ pool' = pool - 1

ConnectionGiven(handlers, x) ==
    x \in handlers /\ handlers' = handlers \ {x} /\ pool' = pool + 1

PoolStep ==
    \/ PoolUntouched
    \/ /\ UNCHANGED Reading
       /\ \E r \in Requests : ConnectionTaken(Holding, r) \/ ConnectionGiven(Holding, r)
    \/ /\ UNCHANGED Holding
       /\ \E q \in Readers : ConnectionTaken(Reading, q) \/ ConnectionGiven(Reading, q)
    \/ Holding' = {} /\ Reading' = {} /\ pool' = PoolSize

LEMMA RequestPoolSteps ==
    ASSUME TypeOK, NEW r \in Requests
    PROVE  /\ \/ RejectBlank(r) \/ AgentStarts(r) \/ AgentEnds(r) \/ PoolTimesOut(r)
              \/ Flush(r) \/ Commit(r)
              => PoolUntouched
           /\ Connect(r) => UNCHANGED Reading /\ ConnectionTaken(Holding, r)
           /\ Acknowledge(r) => UNCHANGED Reading /\ ConnectionGiven(Holding, r)
           /\ DatabaseFails(r) \/ Cancel(r) =>
                 \/ PoolUntouched
                 \/ UNCHANGED Reading /\ ConnectionGiven(Holding, r)
<1> USE DEF TypeOK, Holding, Reading, HoldingSteps, PoolUntouched, ConnectionTaken,
            ConnectionGiven, Answer, Goto, tables
<1>1. ASSUME \/ RejectBlank(r) \/ AgentStarts(r) \/ AgentEnds(r) \/ PoolTimesOut(r)
             \/ Flush(r) \/ Commit(r)
      PROVE  PoolUntouched
  BY <1>1 DEF RejectBlank, AgentStarts, AgentEnds, AgentReturns, AgentRaises,
              PoolTimesOut, Flush, Commit
<1>2. ASSUME Connect(r)
      PROVE  UNCHANGED Reading /\ ConnectionTaken(Holding, r)
  BY <1>2 DEF Connect
<1>3. ASSUME Acknowledge(r)
      PROVE  UNCHANGED Reading /\ ConnectionGiven(Holding, r)
  BY <1>3 DEF Acknowledge
<1>4. ASSUME DatabaseFails(r) \/ Cancel(r)
      PROVE  PoolUntouched \/ (UNCHANGED Reading /\ ConnectionGiven(Holding, r))
  BY <1>4 DEF DatabaseFails, Cancel
<1>5. QED
  BY <1>1, <1>2, <1>3, <1>4

LEMMA FinishReadRecord ==
    ASSUME TypeOK, NEW q \in Readers, NEW status, NEW read, FinishRead(q, status, read)
    PROVE  /\ reader'[q].step = "replied" /\ reader'[q].status = status
           /\ reader'[q].read = read /\ reader'[q].run_id = reader[q].run_id
           /\ \A x \in Readers \ {q} : reader'[x] = reader[x]
BY DEF TypeOK, FinishRead

LEMMA ReaderPoolSteps ==
    ASSUME TypeOK, NEW q \in Readers
    PROVE  /\ (\E r \in Requests : ReadRun(q, r)) \/ Probe(q) => PoolUntouched
           /\ SelectRun(q) \/ Ping(q) =>
                 \/ PoolUntouched
                 \/ UNCHANGED Holding /\ ConnectionTaken(Reading, q)
           /\ SelectEvents(q) \/ PingReturns(q) \/ ReadFails(q) \/ CancelRead(q) =>
                 \/ PoolUntouched
                 \/ UNCHANGED Holding /\ ConnectionGiven(Reading, q)
<1> USE DEF TypeOK, Holding, Reading, PoolUntouched, ConnectionTaken,
            ConnectionGiven, tables
<1>1. ASSUME (\E r \in Requests : ReadRun(q, r)) \/ Probe(q)
      PROVE  PoolUntouched
  BY <1>1 DEF ReadRun, Probe
<1>2. ASSUME SelectRun(q), reader[q].run_id \notin runs
      PROVE  PoolUntouched
  <2>1. UNCHANGED <<request, pool>> /\ FinishRead(q, 404, {}) /\ reader[q].step = "connecting"
    BY <1>2 DEF SelectRun
  <2>2. reader'[q].step = "replied" /\ \A x \in Readers \ {q} : reader'[x] = reader[x]
    BY <2>1, FinishReadRecord
  <2>3. QED
    BY <2>1, <2>2
<1>3. ASSUME SelectRun(q), reader[q].run_id \in runs
      PROVE  UNCHANGED Holding /\ ConnectionTaken(Reading, q)
  BY <1>3 DEF SelectRun
<1>4. ASSUME Ping(q)
      PROVE  UNCHANGED Holding /\ ConnectionTaken(Reading, q)
  BY <1>4 DEF Ping
<1>5. ASSUME SelectEvents(q) \/ PingReturns(q) \/ ReadFails(q)
      PROVE  PoolUntouched \/ (UNCHANGED Holding /\ ConnectionGiven(Reading, q))
  <2>1. /\ UNCHANGED request
        /\ \E status, read : FinishRead(q, status, read)
        /\ \/ reader[q].step = "selecting" /\ pool' = pool + 1
           \/ reader[q].step = "connecting" /\ pool' = pool
    BY <1>5 DEF SelectEvents, PingReturns, ReadFails
  <2>2. reader'[q].step = "replied" /\ \A x \in Readers \ {q} : reader'[x] = reader[x]
    BY <2>1, FinishReadRecord
  <2>3. QED
    BY <2>1, <2>2
<1>6. ASSUME CancelRead(q)
      PROVE  PoolUntouched \/ (UNCHANGED Holding /\ ConnectionGiven(Reading, q))
  BY <1>6 DEF CancelRead
<1>7. QED
  BY <1>1, <1>2, <1>3, <1>4, <1>5, <1>6

LEMMA PoolSteps == TypeOK /\ [Next]_vars => PoolStep
<1> SUFFICES ASSUME TypeOK, [Next]_vars PROVE PoolStep
  OBVIOUS
<1>1. CASE Crash
  BY <1>1 DEF TypeOK, Crash, PoolStep, Holding, Reading, HoldingSteps
<1>2. CASE Restart \/ UNCHANGED vars
  BY <1>2 DEF Restart, vars, PoolStep, PoolUntouched, Holding, Reading
<1>3. ASSUME NEW r \in Requests,
             \/ RejectBlank(r) \/ AgentStarts(r) \/ AgentEnds(r) \/ PoolTimesOut(r)
             \/ Flush(r) \/ Commit(r) \/ Connect(r) \/ Acknowledge(r)
             \/ DatabaseFails(r) \/ Cancel(r)
      PROVE  PoolStep
  BY <1>3, RequestPoolSteps DEF PoolStep
<1>4. ASSUME NEW q \in Readers,
             \/ \E r \in Requests : ReadRun(q, r)
             \/ SelectRun(q) \/ SelectEvents(q) \/ ReadFails(q) \/ CancelRead(q)
             \/ Probe(q) \/ Ping(q) \/ PingReturns(q)
      PROVE  PoolStep
  BY <1>4, ReaderPoolSteps DEF PoolStep
<1>5. QED
  BY <1>1, <1>2, <1>3, <1>4 DEF Next

\* One more handler, or one fewer, among finitely many.
LEMMA CountHandlers ==
    ASSUME NEW S, IsFiniteSet(S), NEW x
    PROVE  /\ Cardinality(S) \in Int
           /\ x \notin S => /\ IsFiniteSet(S \cup {x})
                           /\ Cardinality(S \cup {x}) = Cardinality(S) + 1
           /\ x \in S => /\ IsFiniteSet(S \ {x})
                        /\ Cardinality(S \ {x}) = Cardinality(S) - 1
<1>1. Cardinality(S) \in Int
  BY FS_CardinalityType
<1>2. x \notin S => IsFiniteSet(S \cup {x}) /\ Cardinality(S \cup {x}) = Cardinality(S) + 1
  BY FS_AddElement
<1>3. x \in S => IsFiniteSet(S \ {x}) /\ Cardinality(S \ {x}) = Cardinality(S) - 1
  BY FS_RemoveElement
<1>4. QED
  BY <1>1, <1>2, <1>3

LEMMA PoolInvariantKept == TypeOK /\ PoolInvariant /\ PoolStep => PoolInvariant'
<1> SUFFICES ASSUME TypeOK, PoolInvariant, PoolStep PROVE PoolInvariant'
  OBVIOUS
<1>1. pool \in Int /\ PoolSize \in Int
  BY ServiceAssumption DEF TypeOK
<1>2. IsFiniteSet(Holding) /\ IsFiniteSet(Reading)
  BY DEF PoolInvariant
<1>3. pool = PoolSize - Cardinality(Holding) - Cardinality(Reading)
  BY DEF PoolInvariant, ConnectionsComeBack, Holding, Reading
<1>4. Cardinality(Holding) \in Int /\ Cardinality(Reading) \in Int
  BY <1>2, FS_CardinalityType
<1>5. SUFFICES /\ IsFiniteSet(Holding') /\ IsFiniteSet(Reading')
               /\ pool' = PoolSize - Cardinality(Holding') - Cardinality(Reading')
  BY DEF PoolInvariant, ConnectionsComeBack, Holding, Reading
<1>6. CASE PoolUntouched
  BY <1>2, <1>3, <1>6 DEF PoolUntouched
<1>7. ASSUME UNCHANGED Reading, NEW r \in Requests,
             ConnectionTaken(Holding, r) \/ ConnectionGiven(Holding, r)
      PROVE  /\ IsFiniteSet(Holding') /\ IsFiniteSet(Reading')
             /\ pool' = PoolSize - Cardinality(Holding') - Cardinality(Reading')
  <2>1. /\ IsFiniteSet(Holding')
        /\ \/ /\ pool' = pool - 1
              /\ Cardinality(Holding') = Cardinality(Holding) + 1
           \/ /\ pool' = pool + 1
              /\ Cardinality(Holding') = Cardinality(Holding) - 1
    BY <1>2, <1>7, CountHandlers DEF ConnectionTaken, ConnectionGiven
  <2>2. pool' = PoolSize - Cardinality(Holding') - Cardinality(Reading)
    BY <1>1, <1>3, <1>4, <2>1
  <2>3. QED
    BY <1>2, <1>7, <2>1, <2>2
<1>8. ASSUME UNCHANGED Holding, NEW q \in Readers,
             ConnectionTaken(Reading, q) \/ ConnectionGiven(Reading, q)
      PROVE  /\ IsFiniteSet(Holding') /\ IsFiniteSet(Reading')
             /\ pool' = PoolSize - Cardinality(Holding') - Cardinality(Reading')
  <2>1. /\ IsFiniteSet(Reading')
        /\ \/ /\ pool' = pool - 1
              /\ Cardinality(Reading') = Cardinality(Reading) + 1
           \/ /\ pool' = pool + 1
              /\ Cardinality(Reading') = Cardinality(Reading) - 1
    BY <1>2, <1>8, CountHandlers DEF ConnectionTaken, ConnectionGiven
  <2>2. pool' = PoolSize - Cardinality(Holding) - Cardinality(Reading')
    BY <1>1, <1>3, <1>4, <2>1
  <2>3. QED
    BY <1>2, <1>8, <2>1, <2>2
<1>9. CASE Holding' = {} /\ Reading' = {} /\ pool' = PoolSize
  <2>1. IsFiniteSet({}) /\ Cardinality({}) = 0
    BY FS_EmptySet
  <2>2. PoolSize = PoolSize - 0 - 0
    BY <1>1
  <2>3. QED
    BY <1>9, <2>1, <2>2
<1>10. QED
  BY <1>6, <1>7, <1>8, <1>9 DEF PoolStep

-----------------------------------------------------------------------------
(* The rows of a request and what its client was told.                     *)

Undecided == {"idle", "running", "connecting", "writing", "committing"}

\* Where a request is decides what its rows are, except once it was given up: then
\* they are all there or none is.
RequestAccounted(r) ==
    /\ NothingStored(r) \/ AllStored(r)
    /\ request[r].step \in Undecided => NothingStored(r)
    /\ request[r].step = "committed" => AllStored(r)
    /\ request[r].step # "replied" => request[r].reply = None
    /\ request[r].step = "replied" =>
          /\ request[r].reply.status \in {200, 400, 500, 502, 503}
          /\ request[r].reply.status = 200 => AllStored(r)
          /\ request[r].reply.status \in {400, 500, 502} => NothingStored(r)
          /\ request[r].reply.run_id = IF request[r].reply.status = 200 THEN r ELSE None

RequestInvariant == \A r \in Requests : RequestAccounted(r)

RequestAction(r) ==
    \/ RejectBlank(r) \/ AgentStarts(r) \/ AgentEnds(r)
    \/ Connect(r) \/ PoolTimesOut(r) \/ Flush(r) \/ Commit(r) \/ Acknowledge(r)
    \/ DatabaseFails(r) \/ Cancel(r)

ReaderAction(q) ==
    \/ \E r \in Requests : ReadRun(q, r)
    \/ SelectRun(q) \/ SelectEvents(q) \/ ReadFails(q) \/ CancelRead(q)
    \/ Probe(q) \/ Ping(q) \/ PingReturns(q)

\* A handler writes its own state and its own rows, and nothing of another's.
LEMMA RequestFrame ==
    ASSUME TypeOK, NEW r \in Requests, RequestAction(r), NEW x \in Requests, x # r
    PROVE  /\ request'[x] = request[x]
           /\ x \in chats' <=> x \in chats
           /\ x \in runs' <=> x \in runs
           /\ EventRows(x) \cap events' = EventRows(x) \cap events
<1> USE DEF TypeOK, Answer, Goto, tables
<1>1. ASSUME RequestAction(r), ~Commit(r)
      PROVE  request'[x] = request[x] /\ UNCHANGED tables
  BY <1>1 DEF RequestAction, RejectBlank, AgentStarts, AgentEnds, AgentReturns, AgentRaises,
              Connect, PoolTimesOut, Flush, Acknowledge, DatabaseFails, Cancel
<1>2. ASSUME Commit(r)
      PROVE  /\ request'[x] = request[x]
             /\ x \in chats' <=> x \in chats
             /\ x \in runs' <=> x \in runs
             /\ EventRows(x) \cap events' = EventRows(x) \cap events
  <2>1. EventRows(x) \cap EventRows(r) = {}
    BY DEF EventRows
  <2>2. QED
    BY <1>2, <2>1 DEF Commit
<1>3. QED
  BY <1>1, <1>2

LEMMA RequestAccountKept ==
    ASSUME TypeOK, NEW r \in Requests, RequestAccounted(r), RequestAction(r)
    PROVE  RequestAccounted(r)'
<1> USE DEF TypeOK, Steps, Answer, Goto, Reply, tables, RequestAccounted, Undecided,
            NothingStored, AllStored
<1>1. CASE RejectBlank(r)
  BY <1>1 DEF RejectBlank
<1>2. CASE AgentStarts(r)
  BY <1>2 DEF AgentStarts
<1>3. CASE AgentEnds(r)
  BY <1>3 DEF AgentEnds, AgentReturns, AgentRaises
<1>4. CASE Connect(r) \/ PoolTimesOut(r)
  BY <1>4 DEF Connect, PoolTimesOut
<1>5. CASE Flush(r)
  BY <1>5 DEF Flush
<1>6. CASE Commit(r)
  BY <1>6 DEF Commit
<1>7. CASE Acknowledge(r)
  BY <1>7 DEF Acknowledge
<1>8. CASE DatabaseFails(r)
  BY <1>8 DEF DatabaseFails, HoldingSteps
<1>9. CASE Cancel(r)
  BY <1>9 DEF Cancel, HoldingSteps
<1>10. QED
  BY <1>1, <1>2, <1>3, <1>4, <1>5, <1>6, <1>7, <1>8, <1>9 DEF RequestAction

LEMMA ReaderFrame ==
    ASSUME TypeOK, NEW q \in Readers, ReaderAction(q)
    PROVE  /\ UNCHANGED <<request, tables>>
           /\ \A x \in Readers \ {q} : reader'[x] = reader[x]
<1>1. UNCHANGED <<request, tables>>
  BY DEF ReaderAction, ReadRun, SelectRun, SelectEvents, ReadFails, CancelRead, Probe,
         Ping, PingReturns, tables
<1>2. CASE \E status, read : FinishRead(q, status, read)
  BY <1>1, <1>2, FinishReadRecord
<1>3. CASE ~ \E status, read : FinishRead(q, status, read)
  BY <1>1, <1>3 DEF TypeOK, ReaderAction, ReadRun, SelectRun, SelectEvents, ReadFails,
         CancelRead, Probe, Ping, PingReturns
<1>4. QED
  BY <1>2, <1>3

LEMMA RequestInvariantKept == TypeOK /\ RequestInvariant /\ [Next]_vars => RequestInvariant'
<1> SUFFICES ASSUME TypeOK, RequestInvariant, [Next]_vars, NEW x \in Requests
             PROVE  RequestAccounted(x)'
  BY DEF RequestInvariant
<1> USE DEF RequestInvariant
<1>1. ASSUME UNCHANGED <<request, tables>>
      PROVE  RequestAccounted(x)'
  BY <1>1 DEF RequestAccounted, NothingStored, AllStored, tables
<1>2. CASE Crash
  BY <1>2 DEF Crash, TypeOK, RequestAccounted, NothingStored, AllStored, Undecided, tables
<1>3. CASE Restart \/ UNCHANGED vars
  BY <1>1, <1>3 DEF Restart, vars, tables
<1>4. ASSUME NEW r \in Requests, RequestAction(r)
      PROVE  RequestAccounted(x)'
  <2>1. CASE r = x
    BY <1>4, <2>1, RequestAccountKept
  <2>2. CASE r # x
    BY <1>4, <2>2, RequestFrame DEF RequestAccounted, NothingStored, AllStored
  <2>3. QED
    BY <2>1, <2>2
<1>5. ASSUME NEW q \in Readers, ReaderAction(q)
      PROVE  RequestAccounted(x)'
  BY <1>1, <1>5, ReaderFrame
<1>6. QED
  BY <1>2, <1>3, <1>4, <1>5 DEF Next, RequestAction, ReaderAction

-----------------------------------------------------------------------------
(* What a reader was told.                                                 *)

\* A reader that found its run finds all of its events, as rows that are committed
\* stay and are committed together.
ReaderAccounted(q) ==
    /\ reader[q].step # "replied" => reader[q].status = None
    /\ reader[q].step = "replied" => reader[q].status \in {200, 404, 503}
    /\ reader[q].step = "idle" => reader[q].run_id = None
    /\ (reader[q].step = "selecting" /\ reader[q].run_id # None) => reader[q].run_id \in runs
    /\ (reader[q].step = "replied" /\ reader[q].status = 200 /\ reader[q].run_id # None)
          => reader[q].read = Orders

ReaderInvariant == \A q \in Readers : ReaderAccounted(q)

LEMMA RowsStay == TypeOK /\ [Next]_vars => runs \subseteq runs'
<1> SUFFICES ASSUME TypeOK, [Next]_vars PROVE runs \subseteq runs'
  OBVIOUS
<1>1. ASSUME NEW r \in Requests, RequestAction(r)
      PROVE  runs \subseteq runs'
  BY <1>1 DEF RequestAction, RejectBlank, AgentStarts, AgentEnds, AgentReturns, AgentRaises,
              Connect, PoolTimesOut, Flush, Commit, Acknowledge, DatabaseFails, Cancel, tables
<1>2. ASSUME NEW q \in Readers, ReaderAction(q)
      PROVE  runs \subseteq runs'
  BY <1>2, ReaderFrame DEF tables
<1>3. QED
  BY <1>1, <1>2 DEF Next, RequestAction, ReaderAction, Crash, Restart, vars, tables

LEMMA RequestLeavesReaders ==
    ASSUME NEW r \in Requests, RequestAction(r)
    PROVE  UNCHANGED <<process, reader>>
BY DEF RequestAction, RejectBlank, AgentStarts, AgentEnds, AgentReturns, AgentRaises,
       Connect, PoolTimesOut, Flush, Commit, Acknowledge, DatabaseFails, Cancel

\* The SELECT of the events of a committed run returns every one of them.
LEMMA WholeRunRead ==
    ASSUME TypeOK, NEW r \in Requests, AllStored(r)
    PROVE  {row[2] : row \in {row \in events : row[1] = r}} = Orders
<1>1. \A row \in events : row[2] \in Orders
  BY DEF TypeOK
<1>2. ASSUME NEW k \in Orders
      PROVE  k \in {row[2] : row \in {row \in events : row[1] = r}}
  <2>1. <<r, k>> \in {row \in events : row[1] = r} /\ <<r, k>>[2] = k
    BY DEF AllStored, EventRows
  <2>2. QED
    BY <2>1
<1>3. QED
  BY <1>1, <1>2

LEMMA ReaderAccountKept ==
    ASSUME TypeOK, RequestInvariant, NEW q \in Readers, ReaderAccounted(q), ReaderAction(q)
    PROVE  ReaderAccounted(q)'
<1> USE DEF ReaderAccounted
<1>1. runs' = runs
  BY ReaderFrame DEF tables
<1>2. CASE \/ \E r \in Requests : ReadRun(q, r)
           \/ Probe(q) \/ Ping(q) \/ CancelRead(q)
  BY <1>1, <1>2 DEF TypeOK, ReadRun, Probe, Ping, CancelRead
<1>3. CASE SelectRun(q)
  <2>1. CASE reader[q].run_id \in runs
    BY <1>1, <1>3, <2>1 DEF SelectRun, TypeOK
  <2>2. CASE reader[q].run_id \notin runs
    <3>1. FinishRead(q, 404, {})
      BY <1>3, <2>2 DEF SelectRun
    <3>2. reader'[q].step = "replied" /\ reader'[q].status = 404
      BY <3>1, FinishReadRecord
    <3>3. QED
      BY <3>2
  <2>3. QED
    BY <2>1, <2>2
<1>4. CASE SelectEvents(q)
  <2> DEFINE read == {row[2] : row \in {row \in events : row[1] = reader[q].run_id}}
  <2>1. FinishRead(q, 200, read) /\ reader[q].step = "selecting" /\ reader[q].run_id # None
    BY <1>4 DEF SelectEvents
  <2>2. reader[q].run_id \in Requests /\ AllStored(reader[q].run_id)
    BY <2>1 DEF TypeOK, RequestInvariant, RequestAccounted, NothingStored
  <2>3. read = Orders
    BY <2>2, WholeRunRead
  <2> HIDE DEF read
  <2>4. reader'[q].step = "replied" /\ reader'[q].status = 200 /\ reader'[q].read = read
    BY <2>1, FinishReadRecord
  <2>5. QED
    BY <2>3, <2>4
<1>5. CASE PingReturns(q)
  <2>1. FinishRead(q, 200, {}) /\ reader[q].run_id = None
    BY <1>5 DEF PingReturns
  <2>2. /\ reader'[q].step = "replied" /\ reader'[q].status = 200
        /\ reader'[q].run_id = reader[q].run_id
    BY <2>1, FinishReadRecord
  <2>3. QED
    BY <2>1, <2>2
<1>6. CASE ReadFails(q)
  <2>1. FinishRead(q, 503, {})
    BY <1>6 DEF ReadFails
  <2>2. reader'[q].step = "replied" /\ reader'[q].status = 503
    BY <2>1, FinishReadRecord
  <2>3. QED
    BY <2>2
<1>7. QED
  BY <1>2, <1>3, <1>4, <1>5, <1>6 DEF ReaderAction

LEMMA ReaderInvariantKept ==
    TypeOK /\ RequestInvariant /\ ReaderInvariant /\ [Next]_vars => ReaderInvariant'
<1> SUFFICES ASSUME TypeOK, RequestInvariant, ReaderInvariant, [Next]_vars, NEW x \in Readers
             PROVE  ReaderAccounted(x)'
  BY DEF ReaderInvariant
<1> USE DEF ReaderInvariant
<1>1. ASSUME reader'[x] = reader[x]
      PROVE  ReaderAccounted(x)'
  BY <1>1, RowsStay DEF ReaderAccounted
<1>2. CASE Crash
  BY <1>2 DEF Crash, TypeOK, ReaderAccounted, tables
<1>3. CASE Restart \/ UNCHANGED vars
  BY <1>1, <1>3 DEF Restart, vars
<1>4. ASSUME NEW r \in Requests, RequestAction(r)
      PROVE  ReaderAccounted(x)'
  BY <1>1, <1>4, RequestLeavesReaders
<1>5. ASSUME NEW q \in Readers, ReaderAction(q)
      PROVE  ReaderAccounted(x)'
  <2>1. CASE q = x
    BY <1>5, <2>1, ReaderAccountKept
  <2>2. CASE q # x
    BY <1>1, <1>5, <2>2, ReaderFrame
  <2>3. QED
    BY <2>1, <2>2
<1>6. QED
  BY <1>2, <1>3, <1>4, <1>5 DEF Next, RequestAction, ReaderAction

-----------------------------------------------------------------------------
(* Types, given that the pool's account is kept.                           *)

PoolInRange == pool \in 0..PoolSize

LEMMA PoolBounded == TypeOK /\ PoolStep /\ PoolInvariant' => PoolInRange'
<1> SUFFICES ASSUME TypeOK, PoolStep, PoolInvariant' PROVE PoolInRange'
  OBVIOUS
<1>1. pool' \in Nat
  BY ServiceAssumption
     DEF TypeOK, PoolStep, PoolUntouched, ConnectionTaken, ConnectionGiven
<1>2. Cardinality(Holding') \in Nat /\ Cardinality(Reading') \in Nat
  BY FS_CardinalityType DEF PoolInvariant
<1>3. pool' = PoolSize - Cardinality(Holding') - Cardinality(Reading')
  BY DEF PoolInvariant, ConnectionsComeBack, Holding, Reading
<1>4. QED
  BY <1>1, <1>2, <1>3, ServiceAssumption DEF PoolInRange

LEMMA RequestTypes ==
    ASSUME TypeOK, NEW r \in Requests, RequestAction(r), PoolInRange'
    PROVE  TypeOK'
<1> USE DEF TypeOK, PoolInRange, Steps, Answer, Goto, Reply, tables
<1>1. CASE RejectBlank(r)
  BY <1>1 DEF RejectBlank
<1>2. CASE AgentStarts(r)
  BY <1>2 DEF AgentStarts
<1>3. CASE AgentEnds(r)
  BY <1>3 DEF AgentEnds, AgentReturns, AgentRaises
<1>4. CASE Connect(r) \/ PoolTimesOut(r) \/ Flush(r)
  BY <1>4 DEF Connect, PoolTimesOut, Flush
<1>5. CASE Commit(r)
  BY <1>5 DEF Commit, EventRows
<1>6. CASE Acknowledge(r)
  BY <1>6 DEF Acknowledge
<1>7. CASE DatabaseFails(r) \/ Cancel(r)
  BY <1>7, ServiceAssumption DEF DatabaseFails, Cancel
<1>8. QED
  BY <1>1, <1>2, <1>3, <1>4, <1>5, <1>6, <1>7 DEF RequestAction

LEMMA ReaderTypes ==
    ASSUME TypeOK, NEW q \in Readers, ReaderAction(q), PoolInRange'
    PROVE  TypeOK'
<1> USE DEF TypeOK, PoolInRange
<1> DEFINE Asked == [step : {"idle", "connecting", "selecting", "replied", "dropped"},
                     run_id : Requests \cup {None}, read : SUBSET Orders,
                     status : {200, 404, 503, None}]
<1>1. SUFFICES reader' \in [Readers -> Asked] /\ faults' \in 0..MaxFaults
  BY ReaderFrame DEF ReaderAction, ReadRun, SelectRun, SelectEvents, ReadFails,
     CancelRead, Probe, Ping, PingReturns, tables
<1>2. faults' \in 0..MaxFaults
  BY ServiceAssumption DEF ReaderAction, ReadRun, SelectRun, SelectEvents, ReadFails,
     CancelRead, Probe, Ping, PingReturns, tables
<1>3. ASSUME NEW status \in {200, 404, 503}, NEW read \in SUBSET Orders,
             FinishRead(q, status, read)
      PROVE  reader' \in [Readers -> Asked]
  BY <1>3 DEF FinishRead
<1>4. CASE \/ \E r \in Requests : ReadRun(q, r)
           \/ Probe(q) \/ Ping(q) \/ CancelRead(q)
  BY <1>2, <1>4 DEF ReadRun, Probe, Ping, CancelRead
<1>5. CASE SelectRun(q)
  BY <1>2, <1>3, <1>5 DEF SelectRun
<1>6. CASE SelectEvents(q)
  <2>1. {row[2] : row \in {row \in events : row[1] = reader[q].run_id}} \in SUBSET Orders
    OBVIOUS
  <2>2. QED
    BY <1>2, <1>3, <1>6, <2>1 DEF SelectEvents
<1>7. CASE PingReturns(q) \/ ReadFails(q)
  BY <1>2, <1>3, <1>7 DEF PingReturns, ReadFails
<1>8. QED
  BY <1>4, <1>5, <1>6, <1>7 DEF ReaderAction

LEMMA TypesKept == TypeOK /\ PoolInvariant /\ [Next]_vars => TypeOK' /\ PoolInvariant'
<1> SUFFICES ASSUME TypeOK, PoolInvariant, [Next]_vars PROVE TypeOK' /\ PoolInvariant'
  OBVIOUS
<1>1. PoolInvariant'
  BY PoolSteps, PoolInvariantKept
<1>2. PoolInRange'
  BY <1>1, PoolSteps, PoolBounded
<1>3. CASE Crash
  <2> DEFINE Served == [step : Steps,
                        reply : [status : {200, 400, 500, 502, 503},
                                 run_id : Requests \cup {None}] \cup {None}]
             Asked == [step : {"idle", "connecting", "selecting", "replied", "dropped"},
                       run_id : Requests \cup {None}, read : SUBSET Orders,
                       status : {200, 404, 503, None}]
  <2>1. \A c \in Served : c \in Served /\ [c EXCEPT !.step = "dropped"] \in Served
    BY DEF Steps
  <2>2. \A c \in Asked : c \in Asked /\ [c EXCEPT !.step = "dropped"] \in Asked
    OBVIOUS
  <2>3. request \in [Requests -> Served] /\ reader \in [Readers -> Asked]
    BY DEF TypeOK
  <2> HIDE DEF Served, Asked
  <2>4. request' \in [Requests -> Served]
    BY <1>3, <2>1, <2>3 DEF Crash
  <2>5. reader' \in [Readers -> Asked]
    BY <1>3, <2>2, <2>3 DEF Crash
  <2>6. /\ process' \in {"up", "down"} /\ UNCHANGED <<chats, runs, events>>
        /\ faults' \in 0..MaxFaults
    BY <1>3, ServiceAssumption DEF Crash, TypeOK, tables
  <2>7. chats \subseteq Requests /\ runs \subseteq Requests /\ events \subseteq Requests \X Orders
    BY DEF TypeOK
  <2>8. QED
    BY ONLY <1>1, <1>2, <2>4, <2>5, <2>6, <2>7 DEF TypeOK, PoolInRange, Served, Asked
<1>4. CASE Restart \/ UNCHANGED vars
  <2>1. /\ process' \in {"up", "down"}
        /\ UNCHANGED <<request, reader, chats, runs, events, pool, faults>>
    BY <1>4 DEF TypeOK, Restart, vars, tables
  <2>2. QED
    BY <1>1, <2>1 DEF TypeOK
<1>5. QED
  BY <1>1, <1>2, <1>3, <1>4, RequestTypes, ReaderTypes DEF Next, RequestAction, ReaderAction

-----------------------------------------------------------------------------
(* The inductive invariant, and what follows from it.                      *)

ServiceInvariant == TypeOK /\ PoolInvariant /\ RequestInvariant /\ ReaderInvariant

LEMMA ServiceStarts == Init => ServiceInvariant
<1> SUFFICES ASSUME Init PROVE ServiceInvariant
  OBVIOUS
<1> USE DEF Init
<1>1. TypeOK
  BY ServiceAssumption DEF TypeOK, Steps
<1>2. PoolInvariant
  <2>1. Holding = {} /\ Reading = {}
    BY DEF Holding, Reading, HoldingSteps
  <2>2. IsFiniteSet({}) /\ Cardinality({}) = 0
    BY FS_EmptySet
  <2>3. PoolSize = PoolSize - 0 - 0
    BY ServiceAssumption
  <2>4. QED
    BY <2>1, <2>2, <2>3 DEF PoolInvariant, ConnectionsComeBack, Holding, Reading
<1>3. RequestInvariant
  BY DEF RequestInvariant, RequestAccounted, NothingStored
<1>4. ReaderInvariant
  BY DEF ReaderInvariant, ReaderAccounted
<1>5. QED
  BY <1>1, <1>2, <1>3, <1>4 DEF ServiceInvariant

\* For any number of requests, readers, connections and faults the bookkeeping of
\* handlers, rows and replies is kept by every step of repo.py and routes.py.
THEOREM ServiceInvariantHolds == Spec => []ServiceInvariant
<1>1. ServiceInvariant /\ [Next]_vars => ServiceInvariant'
  BY TypesKept, RequestInvariantKept, ReaderInvariantKept DEF ServiceInvariant
<1>2. QED
  BY <1>1, ServiceStarts, PTL DEF Spec

\* Every variable has its type; the pool never holds more connections than it has.
THEOREM TypeCorrect == Spec => []TypeOK
<1>1. ServiceInvariant => TypeOK
  BY DEF ServiceInvariant
<1>2. QED
  BY <1>1, ServiceInvariantHolds, PTL

\* Every way out of a handler gives its connection back (repo.py:43, 99, 150).
THEOREM ConnectionsAreReturned == Spec => []ConnectionsComeBack
<1>1. ServiceInvariant => ConnectionsComeBack
  BY DEF ServiceInvariant, PoolInvariant
<1>2. QED
  BY <1>1, ServiceInvariantHolds, PTL

\* However a request ends, its rows are whole and agree with the answer its client
\* got (repo.py:94-104, routes.py:34-65).
THEOREM RepliesMatchTables == Spec => []ReplyMatchesTables
<1>1. ServiceInvariant => ReplyMatchesTables
  <2> SUFFICES ASSUME RequestInvariant PROVE ReplyMatchesTables
    BY DEF ServiceInvariant
  <2>1. RowsAreWhole
    BY DEF RequestInvariant, RequestAccounted, NothingStored, AllStored, RowsAreWhole
  <2>2. QED
    BY <2>1 DEF RequestInvariant, RequestAccounted, NothingStored, AllStored,
                ReplyMatchesTables
<1>2. QED
  BY <1>1, ServiceInvariantHolds, PTL

-----------------------------------------------------------------------------
(* Every step is a step of the contract.  The client of a request sees its *)
(* verdict and its rows, the client of a read what it asked and the answer.*)

LEMMA RowsSeen ==
    ASSUME NEW r \in Requests
    PROVE  /\ NothingStored(r) => RowsOf(r) = "none"
           /\ AllStored(r) => RowsOf(r) = "whole"
           /\ NothingStored(r)' => RowsOf(r)' = "none"
           /\ AllStored(r)' => RowsOf(r)' = "whole"
BY DEF NothingStored, AllStored, RowsOf

SameFor(x) == RowsOf(x)' = RowsOf(x) /\ Verdict(x)' = Verdict(x)
SameOf(q) == AnswerOf(q)' = AnswerOf(q) /\ reader'[q].run_id = reader[q].run_id

LEMMA UntouchedRequestSame ==
    ASSUME NEW x \in Requests, request'[x] = request[x],
           x \in chats' <=> x \in chats, x \in runs' <=> x \in runs,
           EventRows(x) \cap events' = EventRows(x) \cap events
    PROVE  SameFor(x)
<1>1. RowsOf(x)' = RowsOf(x)
  BY DEF RowsOf, NothingStored, AllStored
<1>2. Verdict(x)' = Verdict(x)
  BY DEF Verdict
<1>3. QED
  BY <1>1, <1>2 DEF SameFor

LEMMA UntouchedReadSame ==
    ASSUME NEW q \in Readers, reader'[q] = reader[q]
    PROVE  SameOf(q)
BY DEF SameOf, AnswerOf

LEMMA NothingSeenChange ==
    ASSUME \A x \in Requests : SameFor(x), \A q \in Readers : SameOf(q)
    PROVE  UNCHANGED Contract!contractVars
BY DEF Contract!contractVars, SameFor, SameOf

\* A step of one request, by what its client sees of it.
LEMMA RequestSeen ==
    ASSUME NEW r \in Requests,
           \A x \in Requests \ {r} : SameFor(x), \A q \in Readers : SameOf(q)
    PROVE  /\ Verdict(r) = "new" /\ Verdict(r)' = "taken" /\ RowsOf(r)' = RowsOf(r)
                => Contract!Take(r)
           /\ Verdict(r) = "taken" /\ Verdict(r)' = "taken" /\ RowsOf(r)' = "whole"
                => Contract!Store(r)
           /\ Verdict(r) = "taken" /\ Verdict(r)' = "stored"
              /\ RowsOf(r) = "whole" /\ RowsOf(r)' = "whole"
                => Contract!Confirm(r)
           /\ Verdict(r) \in {"new", "taken"} /\ Verdict(r)' = "nothing"
              /\ RowsOf(r) = "none" /\ RowsOf(r)' = "none"
                => Contract!Refuse(r)
           /\ Verdict(r) = "taken" /\ Verdict(r)' = "in doubt" /\ RowsOf(r)' = RowsOf(r)
                => Contract!LeaveInDoubt({r}, {})
<1> USE DEF SameFor, SameOf
<1>1. ASSUME Verdict(r) = "new", Verdict(r)' = "taken", RowsOf(r)' = RowsOf(r)
      PROVE  Contract!Take(r)
  BY <1>1 DEF Contract!Take
<1>2. ASSUME Verdict(r) = "taken", Verdict(r)' = "taken", RowsOf(r)' = "whole"
      PROVE  Contract!Store(r)
  BY <1>2 DEF Contract!Store
<1>3. ASSUME Verdict(r) = "taken", Verdict(r)' = "stored",
             RowsOf(r) = "whole", RowsOf(r)' = "whole"
      PROVE  Contract!Confirm(r)
  BY <1>3 DEF Contract!Confirm
<1>4. ASSUME Verdict(r) \in {"new", "taken"}, Verdict(r)' = "nothing",
             RowsOf(r) = "none", RowsOf(r)' = "none"
      PROVE  Contract!Refuse(r)
  BY <1>4 DEF Contract!Refuse
<1>5. ASSUME Verdict(r) = "taken", Verdict(r)' = "in doubt", RowsOf(r)' = RowsOf(r)
      PROVE  Contract!LeaveInDoubt({r}, {})
  BY <1>5 DEF Contract!LeaveInDoubt
<1>6. QED
  BY <1>1, <1>2, <1>3, <1>4, <1>5

\* A step of one read, by what its client sees of it.
LEMMA ReadSeen ==
    ASSUME NEW q \in Readers,
           \A x \in Requests : SameFor(x), \A y \in Readers \ {q} : SameOf(y)
    PROVE  /\ \A r \in Requests :
                 reader[q].run_id = None /\ AnswerOf(q) = "none yet"
                 /\ reader'[q].run_id = r /\ AnswerOf(q)' = "none yet"
                   => Contract!Ask(q, r)
           /\ reader[q].run_id \in Requests /\ AnswerOf(q) = "none yet"
              /\ reader'[q].run_id = reader[q].run_id
              /\ AnswerOf(q)' = (IF RowsOf(reader[q].run_id) = "whole"
                                 THEN "whole" ELSE "no such run")
                => Contract!Look(q)
           /\ reader[q].run_id # None /\ AnswerOf(q) = "none yet"
              /\ reader'[q].run_id = reader[q].run_id /\ AnswerOf(q)' = "error"
                => Contract!LeaveInDoubt({}, {q})
<1> USE DEF SameFor, SameOf
<1>1. ASSUME NEW r \in Requests, reader[q].run_id = None, AnswerOf(q) = "none yet",
             reader'[q].run_id = r, AnswerOf(q)' = "none yet"
      PROVE  Contract!Ask(q, r)
  BY <1>1 DEF Contract!Ask
<1>2. ASSUME reader[q].run_id \in Requests, AnswerOf(q) = "none yet",
             reader'[q].run_id = reader[q].run_id,
             AnswerOf(q)' = (IF RowsOf(reader[q].run_id) = "whole"
                             THEN "whole" ELSE "no such run")
      PROVE  Contract!Look(q)
  BY <1>2, ServiceAssumption DEF Contract!Look
<1>3. ASSUME reader[q].run_id # None, AnswerOf(q) = "none yet",
             reader'[q].run_id = reader[q].run_id, AnswerOf(q)' = "error"
      PROVE  Contract!LeaveInDoubt({}, {q})
  BY <1>3 DEF Contract!LeaveInDoubt
<1>4. QED
  BY <1>1, <1>2, <1>3

LEMMA RequestStepsMap ==
    ASSUME ServiceInvariant, NEW r \in Requests, RequestAction(r)
    PROVE  \/ UNCHANGED Contract!contractVars
           \/ Contract!Take(r) \/ Contract!Store(r) \/ Contract!Confirm(r) \/ Contract!Refuse(r)
           \/ Contract!LeaveInDoubt({r}, {})
<1>1. TypeOK /\ RequestAccounted(r) /\ RequestAccounted(r)'
  BY RequestAccountKept DEF ServiceInvariant, RequestInvariant
<1>2. \A q \in Readers : SameOf(q)
  BY RequestLeavesReaders, UntouchedReadSame
<1>3. \A x \in Requests \ {r} : SameFor(x)
  BY <1>1, RequestFrame, UntouchedRequestSame
<1>4. ASSUME ~ Commit(r)
      PROVE  RowsOf(r)' = RowsOf(r)
  BY <1>4 DEF RequestAction, RowsOf, NothingStored, AllStored, tables, RejectBlank, AgentStarts, AgentEnds, AgentReturns,
        AgentRaises, Connect, PoolTimesOut, Flush, Acknowledge, DatabaseFails, Cancel
<1> USE DEF TypeOK, Steps, Answer, Goto, Reply, Verdict, Conclusion
<1>5. CASE AgentStarts(r)
  <2>1. request[r].step = "idle" /\ request'[r].step = "running"
    BY <1>1, <1>5 DEF AgentStarts
  <2>2. Verdict(r) = "new" /\ Verdict(r)' = "taken" /\ ~ Commit(r)
    BY <2>1 DEF Commit
  <2>3. QED
    BY <1>2, <1>3, <1>4, <2>2, RequestSeen
<1>6. CASE AgentReturns(r) \/ Connect(r) \/ Flush(r)
  <2>1. /\ request[r].step \in {"running", "connecting", "writing"}
        /\ request'[r].step \in {"connecting", "writing", "committing"}
    BY <1>1, <1>6 DEF AgentReturns, Connect, Flush
  <2>2. Verdict(r) = "taken" /\ Verdict(r)' = "taken" /\ ~ Commit(r)
    BY <2>1 DEF Commit
  <2>3. QED
    BY <1>2, <1>3, <1>4, <2>2, NothingSeenChange DEF SameFor
<1>7. CASE RejectBlank(r) \/ \E class \in {"model_timeout", "model_error", "unknown"} : AgentRaises(r, class)
  <2>1. /\ request[r].step \in {"idle", "running"}
        /\ request'[r].step = "replied" /\ request'[r].reply.status \in {400, 500, 502}
    BY <1>1, <1>7 DEF RejectBlank, AgentRaises
  <2>2. Verdict(r) \in {"new", "taken"} /\ Verdict(r)' = "nothing"
    BY <2>1
  <2>3. RowsOf(r) = "none" /\ RowsOf(r)' = "none"
    BY <1>1, <2>1, RowsSeen DEF RequestAccounted, Undecided
  <2>4. QED
    BY <1>2, <1>3, <2>2, <2>3, RequestSeen
<1>8. CASE Commit(r)
  <2>1. request[r].step = "committing" /\ request'[r].step = "committed"
    BY <1>1, <1>8 DEF Commit
  <2>2. Verdict(r) = "taken" /\ Verdict(r)' = "taken"
    BY <2>1
  <2>3. RowsOf(r)' = "whole"
    BY <1>1, <2>1, RowsSeen DEF RequestAccounted
  <2>4. QED
    BY <1>2, <1>3, <2>2, <2>3, RequestSeen
<1>9. CASE Acknowledge(r)
  <2>1. /\ request[r].step = "committed" /\ request'[r].step = "replied"
        /\ request'[r].reply.status = 200
    BY <1>1, <1>9 DEF Acknowledge
  <2>2. Verdict(r) = "taken" /\ Verdict(r)' = "stored"
    BY <2>1
  <2>3. RowsOf(r) = "whole" /\ RowsOf(r)' = "whole"
    BY <1>1, <2>1, RowsSeen DEF RequestAccounted
  <2>4. QED
    BY <1>2, <1>3, <2>2, <2>3, RequestSeen
<1>10. CASE PoolTimesOut(r) \/ DatabaseFails(r) \/ Cancel(r)
  <2>1. /\ request[r].step \in {"running", "connecting", "writing", "committing", "committed"}
        /\ \/ request'[r].step = "replied" /\ request'[r].reply.status = 503
           \/ request'[r].step = "dropped"
    BY <1>1, <1>10 DEF PoolTimesOut, DatabaseFails, Cancel, HoldingSteps
  <2>2. Verdict(r) = "taken" /\ Verdict(r)' = "in doubt"
    BY <2>1
  <2>3. ~ Commit(r)
    BY <1>1, <2>1 DEF Commit
  <2>4. QED
    BY <1>2, <1>3, <1>4, <2>2, <2>3, RequestSeen
<1>11. QED
  BY <1>5, <1>6, <1>7, <1>8, <1>9, <1>10 DEF RequestAction, AgentEnds

LEMMA ReaderStepsMap ==
    ASSUME ServiceInvariant, NEW q \in Readers, ReaderAction(q)
    PROVE  \/ UNCHANGED Contract!contractVars
           \/ \E r \in Requests : Contract!Ask(q, r)
           \/ Contract!Look(q)
           \/ Contract!LeaveInDoubt({}, {q})
<1>1. TypeOK /\ RequestInvariant /\ ReaderAccounted(q) /\ ReaderAccounted(q)'
  BY ReaderAccountKept DEF ServiceInvariant, ReaderInvariant
<1>2. \A x \in Requests : SameFor(x)
  BY <1>1, ReaderFrame, UntouchedRequestSame DEF tables
<1>3. \A y \in Readers \ {q} : SameOf(y)
  BY <1>1, ReaderFrame, UntouchedReadSame
<1>4. ASSUME SameOf(q)
      PROVE  UNCHANGED Contract!contractVars
  BY <1>2, <1>3, <1>4, NothingSeenChange
<1>5. reader[q].run_id \in Requests \cup {None}
  BY <1>1 DEF TypeOK
<1>6. CASE \E r \in Requests : ReadRun(q, r)
  <2>1. PICK r \in Requests : ReadRun(q, r)
    BY <1>6
  <2>2. /\ reader[q].step = "idle" /\ reader'[q].step = "connecting"
        /\ reader'[q].run_id = r
    BY <1>1, <2>1 DEF ReadRun, TypeOK
  <2>3. /\ reader[q].run_id = None
        /\ AnswerOf(q) = "none yet" /\ AnswerOf(q)' = "none yet"
    BY <1>1, <2>2 DEF ReaderAccounted, AnswerOf
  <2>4. QED
    BY <1>2, <1>3, <2>2, <2>3, ReadSeen
<1>7. CASE Probe(q) \/ Ping(q)
  <2>1. /\ reader[q].step \in {"idle", "connecting"}
        /\ reader'[q].step \in {"connecting", "selecting"}
        /\ reader'[q].run_id = reader[q].run_id
    BY <1>1, <1>7 DEF Probe, Ping, TypeOK
  <2>2. SameOf(q)
    BY <2>1 DEF SameOf, AnswerOf
  <2>3. QED
    BY <1>4, <2>2
<1>8. CASE SelectRun(q)
  <2>1. CASE reader[q].run_id \in runs
    <3>1. /\ reader[q].step = "connecting" /\ reader'[q].step = "selecting"
          /\ reader'[q].run_id = reader[q].run_id
      BY <1>1, <1>8, <2>1 DEF SelectRun, TypeOK
    <3>2. SameOf(q)
      BY <3>1 DEF SameOf, AnswerOf
    <3>3. QED
      BY <1>4, <3>2
  <2>2. CASE reader[q].run_id \notin runs
    <3>1. /\ reader[q].step = "connecting" /\ reader[q].run_id # None
          /\ FinishRead(q, 404, {})
      BY <1>8, <2>2 DEF SelectRun
    <3>2. /\ reader'[q].step = "replied" /\ reader'[q].status = 404
          /\ reader'[q].run_id = reader[q].run_id
      BY <1>1, <3>1, FinishReadRecord
    <3>3. AnswerOf(q) = "none yet" /\ AnswerOf(q)' = "no such run"
      BY <3>1, <3>2 DEF AnswerOf, Finding
    <3>4. RowsOf(reader[q].run_id) = "none"
      BY <1>1, <1>5, <2>2, <3>1, RowsSeen
         DEF RequestInvariant, RequestAccounted, AllStored
    <3>5. QED
      BY <1>2, <1>3, <1>5, <3>1, <3>2, <3>3, <3>4, ReadSeen
  <2>3. QED
    BY <2>1, <2>2
<1>9. CASE SelectEvents(q)
  <2>1. /\ reader[q].step = "selecting" /\ reader[q].run_id # None
        /\ \E read : FinishRead(q, 200, read)
    BY <1>9 DEF SelectEvents
  <2>2. /\ reader'[q].step = "replied" /\ reader'[q].status = 200
        /\ reader'[q].run_id = reader[q].run_id
    BY <1>1, <2>1, FinishReadRecord
  <2>3. AnswerOf(q) = "none yet" /\ AnswerOf(q)' = "whole"
    BY <1>1, <2>1, <2>2 DEF AnswerOf, Finding, ReaderAccounted
  <2>4. RowsOf(reader[q].run_id) = "whole"
    BY <1>1, <1>5, <2>1, RowsSeen
       DEF ReaderAccounted, RequestInvariant, RequestAccounted, NothingStored
  <2>5. QED
    BY <1>2, <1>3, <1>5, <2>1, <2>2, <2>3, <2>4, ReadSeen
<1>10. CASE PingReturns(q)
  <2>1. reader[q].run_id = None /\ FinishRead(q, 200, {})
    BY <1>10 DEF PingReturns
  <2>2. reader'[q].run_id = reader[q].run_id
    BY <1>1, <2>1, FinishReadRecord
  <2>3. SameOf(q)
    BY <2>1, <2>2 DEF SameOf, AnswerOf
  <2>4. QED
    BY <1>4, <2>3
<1>11. CASE ReadFails(q) \/ CancelRead(q)
  <2>1. /\ reader[q].step \in {"connecting", "selecting"}
        /\ reader'[q].step \in {"replied", "dropped"}
        /\ reader'[q].status \notin {200, 404}
        /\ reader'[q].run_id = reader[q].run_id
    <3>1. CASE ReadFails(q)
      <4>1. reader[q].step \in {"connecting", "selecting"} /\ FinishRead(q, 503, {})
        BY <3>1 DEF ReadFails
      <4>2. QED
        BY <1>1, <4>1, FinishReadRecord
    <3>2. CASE CancelRead(q)
      <4>1. /\ reader[q].step \in {"connecting", "selecting"}
            /\ reader'[q].step = "dropped" /\ reader'[q].run_id = reader[q].run_id
        BY <1>1, <3>2 DEF CancelRead, TypeOK
      <4>2. QED
        BY <1>1, <4>1, ServiceAssumption DEF ReaderAccounted
    <3>3. QED
      BY <1>11, <3>1, <3>2
  <2>2. CASE reader[q].run_id = None
    <3>1. SameOf(q)
      BY <2>1, <2>2 DEF SameOf, AnswerOf
    <3>2. QED
      BY <1>4, <3>1
  <2>3. CASE reader[q].run_id # None
    <3>1. AnswerOf(q) = "none yet" /\ AnswerOf(q)' = "error"
      BY <2>1, <2>3 DEF AnswerOf, Finding
    <3>2. QED
      BY <1>2, <1>3, <2>1, <2>3, <3>1, ReadSeen
  <2>4. QED
    BY <2>2, <2>3
<1>12. QED
  BY <1>6, <1>7, <1>8, <1>9, <1>10, <1>11 DEF ReaderAction

\* A crash leaves all in doubt who were taken up and not answered, at once.
LEMMA CrashMaps ==
    ASSUME ServiceInvariant, Crash
    PROVE  \E rs \in SUBSET Requests, qs \in SUBSET Readers : Contract!LeaveInDoubt(rs, qs)
<1> DEFINE rs == {r \in Requests : request[r].step \notin {"idle", "replied", "dropped"}}
           qs == {q \in Readers : /\ reader[q].step \in {"connecting", "selecting"}
                                  /\ reader[q].run_id # None}
<1>1. TypeOK /\ ReaderInvariant
  BY DEF ServiceInvariant
<1>2. ASSUME NEW r \in Requests
      PROVE  /\ RowsOf(r)' = RowsOf(r)
             /\ r \in rs => Verdict(r) = "taken" /\ Verdict(r)' = "in doubt"
             /\ r \notin rs => Verdict(r)' = Verdict(r)
  <2>1. RowsOf(r)' = RowsOf(r)
    BY DEF Crash, tables, RowsOf, NothingStored, AllStored
  <2>2. /\ request'[r].step = IF request[r].step \in {"idle", "replied"}
                               THEN request[r].step ELSE "dropped"
        /\ request'[r].reply = request[r].reply
    BY <1>1 DEF Crash, TypeOK, Steps
  <2>3. QED
    BY <2>1, <2>2 DEF Verdict
<1>3. ASSUME NEW q \in Readers
      PROVE  /\ reader'[q].run_id = reader[q].run_id
             /\ q \in qs => AnswerOf(q) = "none yet" /\ AnswerOf(q)' = "error"
             /\ q \notin qs => AnswerOf(q)' = AnswerOf(q)
  <2>1. /\ reader'[q].step = IF reader[q].step \in {"idle", "replied"}
                              THEN reader[q].step ELSE "dropped"
        /\ reader'[q].run_id = reader[q].run_id
        /\ reader'[q].read = reader[q].read /\ reader'[q].status = reader[q].status
    BY <1>1 DEF Crash, TypeOK
  <2>2. reader[q].step \in {"connecting", "selecting"} => reader[q].status \notin {200, 404}
    BY <1>1, ServiceAssumption DEF ReaderInvariant, ReaderAccounted
  <2>3. reader[q].step \in {"idle", "connecting", "selecting", "replied", "dropped"}
    BY <1>1 DEF TypeOK
  <2>4. CASE q \in qs
    <3>1. /\ reader[q].step \in {"connecting", "selecting"} /\ reader[q].run_id # None
          /\ reader'[q].step = "dropped" /\ reader'[q].run_id = reader[q].run_id
          /\ reader'[q].status # 404 /\ reader'[q].status # 200
      BY <2>1, <2>2, <2>4
    <3>2. Finding(reader'[q].status, reader'[q].read) = "error"
      BY <3>1 DEF Finding
    <3>3. AnswerOf(q) = "none yet" /\ AnswerOf(q)' = "error"
      BY <3>1, <3>2 DEF AnswerOf
    <3>4. QED
      BY <2>1, <2>4, <3>3
  <2>5. CASE q \notin qs
    BY <2>1, <2>3, <2>5 DEF AnswerOf
  <2>6. QED
    BY <2>1, <2>4, <2>5
<1>4. rs \in SUBSET Requests /\ qs \in SUBSET Readers
  OBVIOUS
<1> HIDE DEF rs, qs
<1>5. Contract!LeaveInDoubt(rs, qs)
  <2>1. \A q \in qs : reader[q].run_id # None
    BY DEF qs
  <2>2. QED
    BY <1>2, <1>3, <1>4, <2>1 DEF Contract!LeaveInDoubt
<1>6. QED
  BY <1>4, <1>5

LEMMA EveryStepMaps ==
    ServiceInvariant /\ [Next]_vars => [Contract!Next]_(Contract!contractVars)
<1> SUFFICES ASSUME ServiceInvariant, [Next]_vars
             PROVE  [Contract!Next]_(Contract!contractVars)
  OBVIOUS
<1> USE DEF Contract!Next, Contract!Settle, Contract!Answer
<1>1. ASSUME NEW r \in Requests, RequestAction(r)
      PROVE  [Contract!Next]_(Contract!contractVars)
  BY <1>1, RequestStepsMap
<1>2. ASSUME NEW q \in Readers, ReaderAction(q)
      PROVE  [Contract!Next]_(Contract!contractVars)
  BY <1>2, ReaderStepsMap
<1>3. CASE Crash
  <2>1. PICK rs \in SUBSET Requests, qs \in SUBSET Readers : Contract!LeaveInDoubt(rs, qs)
    BY <1>3, CrashMaps
  <2>2. CASE rs = {} /\ qs = {}
    BY <2>1, <2>2 DEF Contract!LeaveInDoubt, Contract!contractVars
  <2>3. CASE rs # {} \/ qs # {}
    BY <2>1, <2>3
  <2>4. QED
    BY <2>2, <2>3
<1>4. CASE Restart \/ UNCHANGED vars
  <2>1. UNCHANGED <<request, reader, chats, runs, events>>
    BY <1>4 DEF Restart, vars, tables
  <2>2. (\A x \in Requests : SameFor(x)) /\ (\A q \in Readers : SameOf(q))
    BY <2>1, UntouchedRequestSame, UntouchedReadSame
  <2>3. QED
    BY <2>2, NothingSeenChange
<1>5. QED
  BY <1>1, <1>2, <1>3, <1>4 DEF Next, RequestAction, ReaderAction

\* Whatever errors, cancellations and crashes come between the steps of routes.py and
\* repo.py, clients see a store of whole runs: the safety half of ImplementsContract.
THEOREM ContractIsKept ==
    Spec => Contract!Init /\ [][Contract!Next]_(Contract!contractVars)
<1>1. Init => Contract!Init
  <2> SUFFICES ASSUME Init PROVE Contract!Init
    OBVIOUS
  <2>1. \A r \in Requests : RowsOf(r) = "none" /\ Verdict(r) = "new"
    BY RowsSeen DEF Init, NothingStored, Verdict
  <2>2. \A q \in Readers : reader[q].run_id = None /\ AnswerOf(q) = "none yet"
    BY DEF Init, AnswerOf
  <2>3. QED
    BY <2>1, <2>2 DEF Contract!Init
<1>2. QED
  BY <1>1, ServiceInvariantHolds, EveryStepMaps, PTL DEF Spec
=============================================================================
