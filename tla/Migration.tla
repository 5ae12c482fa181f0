------------------------------ MODULE Migration ------------------------------
(***************************************************************************)
(* init_db (db/repo.py): each replica upgrades the database to Alembic's   *)
(* head when it starts, and fails to start when that fails.  Replicas boot *)
(* together, crash between any two statements and are started again.       *)
(*                                                                         *)
(* What Alembic and the database do with the statements of the revision is *)
(* external: on PostgreSQL they are one transaction, and a CREATE of what  *)
(* another transaction has created waits for it to end; on SQLite every    *)
(* DDL statement commits itself.                                           *)
(***************************************************************************)
EXTENDS Integers, Sequences, FiniteSets

CONSTANTS
    None,
    Replicas,
    Deployments,    \* a DATABASE_URL, and what that database may hold at the first boot
    MaxCrashes      \* bound: how often a replica dies in the middle of its work

\* async_database_url
AsyncScheme ==
    [scheme \in {"sqlite+aiosqlite", "sqlite", "postgresql+asyncpg", "postgres+asyncpg",
                 "postgresql", "postgres"} |->
        IF scheme \in {"sqlite+aiosqlite", "sqlite"}
        THEN "sqlite+aiosqlite" ELSE "postgresql+asyncpg"]

VersionTable == "alembic_version"
HeadRevision == "001_initial"

\* What upgrade() of the revision creates, in its order.
Upgrade ==
    << "chat_messages", "agent_runs", "agent_run_events", "ix_agent_run_events_run_id" >>

Revision == {Upgrade[i] : i \in DOMAIN Upgrade}

ASSUME MigrationAssumption ==
    /\ MaxCrashes \in Nat
    /\ Deployments \subseteq [url : DOMAIN AsyncScheme,
                              database : [objects : SUBSET (Revision \cup {VersionTable}),
                                          version : {None, HeadRevision}]]
    /\ None # HeadRevision

\* Whatever database a service is pointed at, the version row comes last of the revision;
\* and where DDL is transactional no part of it is ever seen alone.
ASSUME DeploymentAssumption ==
    \A deployment \in Deployments :
        LET present == Revision \cap deployment.database.objects
        IN  /\ deployment.database.version = HeadRevision => present = Revision
            /\ AsyncScheme[deployment.url] = "postgresql+asyncpg"
                  /\ deployment.database.version = None => present = {}

VARIABLES
    url,        \* the scheme of DATABASE_URL, the same for all replicas
    database,   \* what is committed: the objects and alembic_version's row
    replica,    \* per replica: its step, the objects of its open transaction
    crashes

vars == <<url, database, replica, crashes>>

Steps == {"down", "connecting", "checking", "versioning", "upgrading", "stamping",
          "migrated", "serving"}

Idle(step) == [step |-> step, next |-> 1, created |-> {}]

Goto(p, step) == replica' = [replica EXCEPT ![p].step = step]

-----------------------------------------------------------------------------
(* The database under DDL.                                                 *)

TransactionalDDL == AsyncScheme[url] = "postgresql+asyncpg"

Exists(object) == object \in database.objects

\* A second CREATE waits while the first is not committed.
Blocked(p, object) == \E q \in Replicas \ {p} : object \in replica[q].created

\* CREATE of one object by p, which then goes on as `after`.
Create(p, object, after) ==
    IF TransactionalDDL
    THEN /\ replica' = [replica EXCEPT ![p] =
                           [after EXCEPT !.created = replica[p].created \cup {object}]]
         /\ UNCHANGED database
    ELSE /\ database' = [database EXCEPT !.objects = @ \cup {object}]
         /\ replica' = [replica EXCEPT ![p] = after]

-----------------------------------------------------------------------------
Init ==
    /\ \E deployment \in Deployments :
          url = deployment.url /\ database = deployment.database
    /\ replica = [p \in Replicas |-> Idle("down")]
    /\ crashes = 0

\* The process starts, its settings are valid and its engine connects.
Boot(p) ==
    /\ replica[p].step = "down"
    /\ replica' = [replica EXCEPT ![p] = Idle("connecting")]
    /\ UNCHANGED <<database, crashes>>

\* command.upgrade: at head there is nothing to do.
ReadVersion(p) ==
    /\ replica[p].step = "connecting"
    /\ Goto(p, IF database.version = HeadRevision THEN "migrated" ELSE "checking")
    /\ UNCHANGED <<database, crashes>>

\* MUTANT: the version table created without a look (no checkfirst).
CheckNothing(p) ==
    /\ replica[p].step = "checking"
    /\ Goto(p, "versioning")
    /\ UNCHANGED <<database, crashes>>

\* The version table is created if a look at the catalog does not show it.
CheckVersionTable(p) ==
    /\ replica[p].step = "checking"
    /\ Goto(p, IF Exists(VersionTable) THEN "upgrading" ELSE "versioning")
    /\ UNCHANGED <<database, crashes>>

CreateVersionTable(p) ==
    /\ replica[p].step = "versioning"
    /\ ~Exists(VersionTable)
    /\ ~Blocked(p, VersionTable)
    /\ Create(p, VersionTable, [replica[p] EXCEPT !.step = "upgrading"])
    /\ UNCHANGED crashes

\* MUTANT: the index created in an autocommit block of the revision.
CreateNextIndexOutside(p) ==
    /\ replica[p].step = "upgrading"
    /\ LET object == Upgrade[replica[p].next]
       IN  /\ ~Exists(object)
           /\ ~Blocked(p, object)
           /\ IF replica[p].next = Len(Upgrade)
              THEN /\ database' = [database EXCEPT !.objects = @ \cup replica[p].created]
                   /\ replica' = [replica EXCEPT ![p] = [@ EXCEPT !.step = "stamping",
                                                                 !.created = {object}]]
              ELSE Create(p, object, [replica[p] EXCEPT !.next = replica[p].next + 1])
    /\ UNCHANGED crashes

CreateNext(p) ==
    /\ replica[p].step = "upgrading"
    /\ LET object == Upgrade[replica[p].next]
       IN  /\ ~Exists(object)
           /\ ~Blocked(p, object)
           /\ Create(p, object,
                     [replica[p] EXCEPT
                        !.next = replica[p].next + 1,
                        !.step = IF replica[p].next = Len(Upgrade)
                                 THEN "stamping" ELSE "upgrading"])
    /\ UNCHANGED crashes

\* MUTANT: a failed CREATE is tried again from the statement before it.
CreateFailsRetrying(p) ==
    /\ \/ replica[p].step = "versioning" /\ Exists(VersionTable)
       \/ replica[p].step = "upgrading" /\ Exists(Upgrade[replica[p].next])
    /\ replica' = [replica EXCEPT ![p].next = @ - 1]
    /\ UNCHANGED <<database, crashes>>

\* "already exists": DatabaseError, the lifespan fails and the process exits; what
\* it had not committed is rolled back.
CreateFails(p) ==
    /\ \/ replica[p].step = "versioning" /\ Exists(VersionTable)
       \/ replica[p].step = "upgrading" /\ Exists(Upgrade[replica[p].next])
    /\ replica' = [replica EXCEPT ![p] = Idle("down")]
    /\ UNCHANGED <<database, crashes>>

\* The version row is inserted and the transaction committed.
Stamp(p) ==
    /\ replica[p].step = "stamping"
    /\ database' = [objects |-> database.objects \cup replica[p].created, version |-> HeadRevision]
    /\ replica' = [replica EXCEPT ![p] = Idle("migrated")]
    /\ UNCHANGED crashes

\* init_db returns, the lifespan goes on and the server listens.
Serve(p) ==
    /\ replica[p].step = "migrated"
    /\ Goto(p, "serving")
    /\ UNCHANGED <<database, crashes>>

Crash(p) ==
    /\ crashes < MaxCrashes
    /\ replica[p].step # "down"
    /\ replica' = [replica EXCEPT ![p] = Idle("down")]
    /\ crashes' = crashes + 1
    /\ UNCHANGED database

Work(p) ==
    \/ Boot(p) \/ ReadVersion(p) \/ CheckVersionTable(p) \/ CreateVersionTable(p)
    \/ CreateNext(p) \/ CreateFails(p) \/ Stamp(p) \/ Serve(p)

AllServe == (\A p \in Replicas : replica[p].step = "serving") /\ UNCHANGED vars

Next ==
    \/ UNCHANGED url /\ \E p \in Replicas : Work(p) \/ Crash(p)
    \/ AllServe

Spec == Init /\ [][Next]_vars

\* A replica that runs gets on with its work, and one that is down is started again.
FairSpec == Spec /\ \A p \in Replicas : WF_vars(Work(p) /\ UNCHANGED url)

-----------------------------------------------------------------------------
(* Properties.                                                             *)

TypeOK ==
    /\ url \in DOMAIN AsyncScheme
    /\ database \in [objects : SUBSET (Revision \cup {VersionTable}), version : {None, HeadRevision}]
    /\ replica \in [Replicas -> [step : Steps, next : 1..(Len(Upgrade) + 1),
                                 created : SUBSET (Revision \cup {VersionTable})]]
    /\ crashes \in 0..MaxCrashes

Ready == {p \in Replicas : replica[p].step = "serving"}

Installed ==
    LET present == Revision \cap database.objects
    IN  IF present = {} /\ database.version = None THEN "none"
        ELSE IF present = Revision /\ database.version = HeadRevision THEN "whole"
        ELSE "part"

\* Of the replicas that boot together one installs the schema; the losers fail, are
\* started again and serve, and so do replicas that crashed, whatever the dialect
\* (docs/database.md:33 calls this race).  Only where DDL commits itself, and only by
\* a crash in the middle of the revision or a file older than Alembic, is a schema
\* left that every later boot finds half migrated (versions/001_initial_schema.py:20-72).
CatchUpUnlessTorn ==
    \/ <>[](Ready = Replicas)
    \/ /\ ~TransactionalDDL
       /\ <>[](Installed = "part")
       /\ <>(crashes > 0) \/ Installed = "part"

Install ==
    INSTANCE SchemaInstall WITH
        Servers <- Replicas,
        atomic <- TransactionalDDL,
        installed <- Installed,
        ready <- Ready

\* However many replicas migrate at once and die meanwhile, no traffic is taken
\* before the tables, the index and the version are all there, and on PostgreSQL they
\* appear at one instant (repo.py:28-34, migrate.py:18-22, env.py:36-37, main.py:15).
ImplementsInstall == Install!Spec
=============================================================================
