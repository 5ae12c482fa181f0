---------------------------- MODULE MigrationProofs ----------------------------
(***************************************************************************)
(* Proofs about Migration for any number of replicas and of crashes: type  *)
(* correctness, and that every step of the replicas is one of              *)
(* SchemaInstall.                                                          *)
(***************************************************************************)
EXTENDS Migration, TLAPS

Objects == Revision \cup {VersionTable}
ReplicaState == [step : Steps, next : 1..5, created : SUBSET Objects]

LEMMA UpgradeIs ==
    /\ Len(Upgrade) = 4 /\ DOMAIN Upgrade = 1..4
    /\ \A i \in 1..4 : Upgrade[i] \in Revision
    /\ \A object \in Revision : \E i \in 1..4 : object = Upgrade[i]
    /\ Revision # {} /\ VersionTable \notin Revision
BY DEF Upgrade, Revision, VersionTable

\* The work of p that is in the database or in p's open transaction.
Done(p) == IF TransactionalDDL THEN replica[p].created ELSE database.objects

DatabaseInvariant ==
    /\ database.version = HeadRevision => Revision \subseteq database.objects
    /\ TransactionalDDL /\ database.version = None => Revision \cap database.objects = {}

ReplicaInvariant(p) ==
    /\ replica[p].step \in {"migrated", "serving"} => database.version = HeadRevision
    /\ replica[p].step = "upgrading" => replica[p].next \in 1..4
    /\ replica[p].step = "stamping" => replica[p].next = 5
    /\ replica[p].step \notin {"upgrading", "stamping"} =>
          replica[p].next = 1 /\ replica[p].created = {}
    /\ replica[p].step \in {"upgrading", "stamping"} =>
          \A i \in 1..4 : i < replica[p].next => Upgrade[i] \in Done(p)
    /\ TransactionalDDL => replica[p].created \cap database.objects = {}
    /\ ~TransactionalDDL => replica[p].created = {}

\* No object is created in two open transactions.
Disjoint ==
    \A p, q \in Replicas : p # q => replica[p].created \cap replica[q].created = {}

Types ==
    /\ url \in DOMAIN AsyncScheme
    /\ database \in [objects : SUBSET Objects, version : {None, HeadRevision}]
    /\ replica \in [Replicas -> ReplicaState]
    /\ crashes \in 0..MaxCrashes

MigrationInvariant ==
    /\ Types
    /\ DatabaseInvariant
    /\ \A p \in Replicas : ReplicaInvariant(p)
    /\ Disjoint

LEMMA IdleIs ==
    ASSUME NEW step \in Steps
    PROVE  /\ Idle(step) \in ReplicaState /\ Idle(step).step = step
           /\ Idle(step).next = 1 /\ Idle(step).created = {}
BY DEF Idle, ReplicaState

LEMMA InitMigration == Init => MigrationInvariant
<1> SUFFICES ASSUME Init PROVE MigrationInvariant
  OBVIOUS
<1>1. PICK deployment \in Deployments :
        url = deployment.url /\ database = deployment.database
  BY DEF Init
<1>2. /\ url \in DOMAIN AsyncScheme
      /\ database \in [objects : SUBSET Objects, version : {None, HeadRevision}]
      /\ crashes = 0 /\ MaxCrashes \in Nat
  BY <1>1, MigrationAssumption DEF Init, Objects
<1>3. replica = [p \in Replicas |-> Idle("down")]
  BY DEF Init
<1>4. \A p \in Replicas : /\ replica[p] \in ReplicaState /\ replica[p].step = "down"
                          /\ replica[p].next = 1 /\ replica[p].created = {}
  BY <1>3, IdleIs DEF Steps
<1>5. DatabaseInvariant
  BY <1>1, DeploymentAssumption DEF DatabaseInvariant, TransactionalDDL
<1>6. Types
  BY <1>2, <1>3, <1>4 DEF Types
<1>7. QED
  BY <1>4, <1>5, <1>6 DEF MigrationInvariant, ReplicaInvariant, Disjoint

-----------------------------------------------------------------------------
(* Each action keeps the invariant.  A step of p leaves every other replica *)
(* as it was, and only adds to the database.                                *)

\* p goes on to record r; the others stay.
Moves(p, r) == r \in ReplicaState /\ replica' = [replica EXCEPT ![p] = r]

LEMMA MovesTell ==
    ASSUME Types, NEW p \in Replicas, NEW r, Moves(p, r)
    PROVE  /\ replica' \in [Replicas -> ReplicaState]
           /\ replica'[p] = r
           /\ \A q \in Replicas : q # p => replica'[q] = replica[q]
BY DEF Types, Moves

\* A step after which p holds nothing and no object has been created.
LEMMA QuietStep ==
    ASSUME MigrationInvariant, NEW p \in Replicas, NEW step \in Steps,
           Moves(p, Idle(step)),
           step \notin {"upgrading", "stamping"},
           step \in {"migrated", "serving"} => database.version = HeadRevision,
           UNCHANGED <<url, database>>, crashes' \in 0..MaxCrashes
    PROVE  MigrationInvariant'
<1> DEFINE r == Idle(step)
<1>1. /\ r \in ReplicaState /\ r.step = step /\ r.next = 1 /\ r.created = {}
  BY IdleIs
<1>2. /\ replica' \in [Replicas -> ReplicaState]
      /\ replica'[p] = r
      /\ \A q \in Replicas : q # p => replica'[q] = replica[q]
  BY MovesTell DEF MigrationInvariant
<1>3. Types' /\ DatabaseInvariant'
  BY <1>2 DEF MigrationInvariant, Types, DatabaseInvariant, TransactionalDDL
<1>4. ReplicaInvariant(p)'
  BY <1>1, <1>2 DEF ReplicaInvariant
<1>5. \A q \in Replicas : ReplicaInvariant(q)'
  BY <1>2, <1>4 DEF MigrationInvariant, ReplicaInvariant, Done, TransactionalDDL
<1>6. Disjoint'
  BY <1>1, <1>2 DEF MigrationInvariant, Disjoint
<1>7. QED
  BY <1>3, <1>5, <1>6 DEF MigrationInvariant

\* [r EXCEPT !.step = step] of a replica that has created nothing is Idle(step).
LEMMA GotoIsIdle ==
    ASSUME MigrationInvariant, NEW p \in Replicas, NEW step \in Steps,
           replica[p].step \notin {"upgrading", "stamping"},
           Goto(p, step)
    PROVE  Moves(p, Idle(step))
<1>1. replica[p] \in ReplicaState /\ replica[p].next = 1 /\ replica[p].created = {}
  BY DEF MigrationInvariant, Types, ReplicaInvariant
<1>2. [replica[p] EXCEPT !.step = step] = Idle(step)
  BY <1>1 DEF ReplicaState, Idle
<1>3. replica' = [replica EXCEPT ![p] = [replica[p] EXCEPT !.step = step]]
  BY DEF Goto
<1>4. QED
  BY <1>2, <1>3, IdleIs DEF Moves

\* A CREATE by p that succeeds, after which p has done all that comes before its next.
LEMMA CreateStep ==
    ASSUME MigrationInvariant, NEW p \in Replicas, NEW object \in Objects,
           NEW after \in ReplicaState,
           after.created = replica[p].created,
           after.step \in {"upgrading", "stamping"},
           after.step = "upgrading" => after.next \in 1..4,
           after.step = "stamping" => after.next = 5,
           \A i \in 1..4 : i < after.next => Upgrade[i] \in Done(p) \cup {object},
           ~Exists(object), ~Blocked(p, object),
           Create(p, object, after),
           UNCHANGED <<url, crashes>>
    PROVE  MigrationInvariant'
<1>1. CASE TransactionalDDL
  <2> DEFINE r == [after EXCEPT !.created = replica[p].created \cup {object}]
  <2>1. replica[p] \in ReplicaState
    BY DEF MigrationInvariant, Types
  <2>2. /\ r \in ReplicaState /\ r.step = after.step /\ r.next = after.next
        /\ r.created = replica[p].created \cup {object}
    BY <2>1 DEF ReplicaState
  <2>3. Moves(p, r) /\ UNCHANGED <<database, url, crashes>>
    BY <1>1, <2>2 DEF Create, Moves
  <2> HIDE DEF r
  <2>4. /\ replica' \in [Replicas -> ReplicaState]
        /\ replica'[p] = r
        /\ \A q \in Replicas : q # p => replica'[q] = replica[q]
    BY <2>3, MovesTell DEF MigrationInvariant
  <2>5. Types' /\ DatabaseInvariant'
    BY <2>3, <2>4 DEF MigrationInvariant, Types, DatabaseInvariant, TransactionalDDL
  <2>6. ReplicaInvariant(p)
    BY DEF MigrationInvariant
  <2>7. Done(p)' = Done(p) \cup {object}
    BY <1>1, <2>2, <2>3, <2>4 DEF Done, TransactionalDDL
  <2>8. ReplicaInvariant(p)'
    BY <1>1, <2>2, <2>3, <2>4, <2>6, <2>7 DEF ReplicaInvariant, Exists, TransactionalDDL
  <2>9. \A q \in Replicas : ReplicaInvariant(q)'
    BY <2>3, <2>4, <2>8 DEF MigrationInvariant, ReplicaInvariant, Done, TransactionalDDL
  <2>10. Disjoint'
    BY <2>2, <2>4 DEF MigrationInvariant, Disjoint, Blocked
  <2>11. QED
    BY <2>5, <2>9, <2>10 DEF MigrationInvariant
<1>2. CASE ~TransactionalDDL
  <2>1. /\ database \in [objects : SUBSET Objects, version : {None, HeadRevision}]
        /\ database' = [database EXCEPT !.objects = @ \cup {object}]
    BY <1>2 DEF MigrationInvariant, Types, Create
  <2>2. /\ database' \in [objects : SUBSET Objects, version : {None, HeadRevision}]
        /\ database'.objects = database.objects \cup {object}
        /\ database'.version = database.version
    BY <2>1
  <2>3. Moves(p, after)
    BY <1>2 DEF Create, Moves
  <2>4. /\ replica' \in [Replicas -> ReplicaState]
        /\ replica'[p] = after
        /\ \A q \in Replicas : q # p => replica'[q] = replica[q]
    BY <2>3, MovesTell DEF MigrationInvariant
  <2>5. Types' /\ DatabaseInvariant'
    BY <1>2, <2>2, <2>4 DEF MigrationInvariant, Types, DatabaseInvariant, TransactionalDDL
  <2>6. ReplicaInvariant(p) /\ ~TransactionalDDL'
    BY <1>2 DEF MigrationInvariant, TransactionalDDL
  <2>7. Done(p)' = Done(p) \cup {object}
    BY <1>2, <2>2, <2>6 DEF Done
  <2>8. ReplicaInvariant(p)'
    BY <1>2, <2>2, <2>4, <2>6, <2>7 DEF ReplicaInvariant
  <2>9. ASSUME NEW q \in Replicas, q # p
        PROVE  ReplicaInvariant(q)'
    <3>1. ReplicaInvariant(q) /\ replica'[q] = replica[q]
      BY <2>4, <2>9 DEF MigrationInvariant
    <3>2. Done(q)' = Done(q) \cup {object}
      BY <1>2, <2>2, <2>6 DEF Done
    <3>3. QED
      BY <1>2, <2>2, <2>6, <3>1, <3>2 DEF ReplicaInvariant
  <2>10. Disjoint'
    BY <2>4 DEF MigrationInvariant, Disjoint
  <2>11. QED
    BY <2>5, <2>8, <2>9, <2>10 DEF MigrationInvariant
<1>3. QED
  BY <1>1, <1>2

LEMMA BootKeeps ==
    ASSUME MigrationInvariant, NEW p \in Replicas, Boot(p), UNCHANGED url
    PROVE  MigrationInvariant'
BY IdleIs, QuietStep DEF Boot, Moves, Steps, MigrationInvariant, Types

LEMMA ReadVersionKeeps ==
    ASSUME MigrationInvariant, NEW p \in Replicas, ReadVersion(p), UNCHANGED url
    PROVE  MigrationInvariant'
<1> DEFINE step == IF database.version = HeadRevision THEN "migrated" ELSE "checking"
<1>1. /\ step \in Steps /\ step \notin {"upgrading", "stamping"}
      /\ step \in {"migrated", "serving"} => database.version = HeadRevision
  BY DEF Steps
<1>2. /\ Goto(p, step) /\ replica[p].step = "connecting" /\ UNCHANGED <<database, crashes>>
  BY DEF ReadVersion
<1> HIDE DEF step
<1>3. Moves(p, Idle(step))
  BY <1>1, <1>2, GotoIsIdle
<1>4. crashes' \in 0..MaxCrashes
  BY <1>2 DEF MigrationInvariant, Types
<1>5. QED
  BY <1>1, <1>2, <1>3, <1>4, QuietStep

LEMMA CreateVersionTableKeeps ==
    ASSUME MigrationInvariant, NEW p \in Replicas, CreateVersionTable(p), UNCHANGED url
    PROVE  MigrationInvariant'
<1> DEFINE after == [replica[p] EXCEPT !.step = "upgrading"]
<1>1. replica[p] \in ReplicaState /\ replica[p].step = "versioning" /\ replica[p].next = 1
  BY DEF MigrationInvariant, Types, ReplicaInvariant, CreateVersionTable
<1>2. /\ after \in ReplicaState /\ after.created = replica[p].created
      /\ after.step = "upgrading" /\ after.next = 1
  BY <1>1 DEF ReplicaState, Steps
<1>3. /\ Create(p, VersionTable, after) /\ ~Exists(VersionTable)
      /\ ~Blocked(p, VersionTable) /\ UNCHANGED <<url, crashes>>
  BY DEF CreateVersionTable
<1> HIDE DEF after
<1>4. /\ VersionTable \in Objects
      /\ \A i \in 1..4 : i < after.next => Upgrade[i] \in Done(p) \cup {VersionTable}
  BY <1>2 DEF Objects
<1>5. QED
  BY <1>2, <1>3, <1>4, CreateStep

LEMMA CreateNextKeeps ==
    ASSUME MigrationInvariant, NEW p \in Replicas, CreateNext(p), UNCHANGED url
    PROVE  MigrationInvariant'
<1> DEFINE object == Upgrade[replica[p].next]
           step == IF replica[p].next = Len(Upgrade) THEN "stamping" ELSE "upgrading"
           after == [replica[p] EXCEPT !.next = replica[p].next + 1, !.step = step]
<1>1. /\ replica[p] \in ReplicaState /\ replica[p].step = "upgrading"
      /\ replica[p].next \in 1..4 /\ ReplicaInvariant(p)
  BY DEF MigrationInvariant, Types, ReplicaInvariant, CreateNext
<1>2. /\ after \in ReplicaState /\ after.created = replica[p].created
      /\ after.step = step /\ after.next = replica[p].next + 1
  <2>1. step \in Steps /\ replica[p].next + 1 \in 1..5
    BY <1>1 DEF Steps
  <2> HIDE DEF step
  <2>2. QED
    BY <1>1, <2>1 DEF ReplicaState
<1>3. /\ Create(p, object, after) /\ ~Exists(object)
      /\ ~Blocked(p, object) /\ UNCHANGED <<url, crashes>>
  BY DEF CreateNext
<1> HIDE DEF after
<1>4. object \in Objects
  BY <1>1, UpgradeIs DEF Objects
<1>5. /\ after.step \in {"upgrading", "stamping"}
      /\ after.step = "upgrading" => after.next \in 1..4
      /\ after.step = "stamping" => after.next = 5
  BY <1>1, <1>2, UpgradeIs
<1>6. \A i \in 1..4 : i < after.next => Upgrade[i] \in Done(p) \cup {object}
  BY <1>1, <1>2 DEF ReplicaInvariant
<1> HIDE DEF object
<1>7. QED
  BY <1>2, <1>3, <1>4, <1>5, <1>6, CreateStep

LEMMA StampKeeps ==
    ASSUME MigrationInvariant, NEW p \in Replicas, Stamp(p), UNCHANGED url
    PROVE  MigrationInvariant'
<1>1. /\ replica[p] \in ReplicaState /\ replica[p].step = "stamping"
      /\ replica[p].next = 5 /\ ReplicaInvariant(p)
  BY DEF MigrationInvariant, Types, ReplicaInvariant, Stamp
<1>2. /\ database' \in [objects : SUBSET Objects, version : {None, HeadRevision}]
      /\ database'.objects = database.objects \cup replica[p].created
      /\ database'.version = HeadRevision
  BY <1>1 DEF Stamp, MigrationInvariant, Types, ReplicaState
<1>3. Revision \subseteq database'.objects
  <2>1. \A i \in 1..4 : Upgrade[i] \in Done(p)
    BY <1>1 DEF ReplicaInvariant
  <2>2. Done(p) \subseteq database'.objects
    BY <1>1, <1>2 DEF Done
  <2>3. QED
    BY <2>1, <2>2, UpgradeIs
<1> DEFINE r == Idle("migrated")
<1>4. /\ r \in ReplicaState /\ r.step = "migrated" /\ r.next = 1 /\ r.created = {}
      /\ Moves(p, r)
  BY IdleIs DEF Steps, Stamp, Moves
<1> HIDE DEF r
<1>5. /\ replica' \in [Replicas -> ReplicaState]
      /\ replica'[p] = r
      /\ \A q \in Replicas : q # p => replica'[q] = replica[q]
  BY <1>4, MovesTell DEF MigrationInvariant
<1>6. Types'
  BY <1>2, <1>5 DEF MigrationInvariant, Types, Stamp
<1>7. DatabaseInvariant'
  BY <1>2, <1>3, MigrationAssumption DEF DatabaseInvariant
<1>8. ReplicaInvariant(p)'
  BY <1>2, <1>4, <1>5 DEF ReplicaInvariant
<1>9. ASSUME NEW q \in Replicas, q # p
      PROVE  ReplicaInvariant(q)'
  <2>1. /\ ReplicaInvariant(q) /\ replica'[q] = replica[q]
        /\ replica[p].created \cap replica[q].created = {}
    BY <1>5, <1>9 DEF MigrationInvariant, Disjoint
  <2>2. Done(q) \subseteq Done(q)' /\ (TransactionalDDL' <=> TransactionalDDL)
    BY <1>2, <2>1 DEF Done, TransactionalDDL
  <2>3. QED
    BY <1>2, <2>1, <2>2 DEF ReplicaInvariant
<1>10. Disjoint'
  BY <1>4, <1>5 DEF MigrationInvariant, Disjoint
<1>11. QED
  BY <1>6, <1>7, <1>8, <1>9, <1>10 DEF MigrationInvariant

LEMMA CrashKeeps ==
    ASSUME MigrationInvariant, NEW p \in Replicas, Crash(p), UNCHANGED url
    PROVE  MigrationInvariant'
<1>1. Moves(p, Idle("down")) /\ UNCHANGED <<url, database>>
  BY IdleIs DEF Crash, Moves, Steps
<1>2. crashes' \in 0..MaxCrashes
  BY MigrationAssumption DEF Crash, MigrationInvariant, Types
<1>3. QED
  BY <1>1, <1>2, QuietStep DEF Steps

LEMMA NextMigration == MigrationInvariant /\ [Next]_vars => MigrationInvariant'
<1> SUFFICES ASSUME MigrationInvariant, [Next]_vars PROVE MigrationInvariant'
  OBVIOUS
<1>1. CASE UNCHANGED vars
  BY <1>1 DEF vars, MigrationInvariant, Types, DatabaseInvariant, ReplicaInvariant, Done,
              Disjoint, TransactionalDDL
<1>2. ASSUME NEW p \in Replicas, Work(p) \/ Crash(p), UNCHANGED url
      PROVE  MigrationInvariant'
  <2> USE <1>2
  <2>0. crashes \in 0..MaxCrashes
    BY DEF MigrationInvariant, Types
  <2>1. CASE Boot(p)
    BY <2>1, BootKeeps
  <2>2. CASE ReadVersion(p)
    BY <2>2, ReadVersionKeeps
  <2>3. CASE CheckVersionTable(p)
    <3> DEFINE step == IF Exists(VersionTable) THEN "upgrading" ELSE "versioning"
    <3>1. CASE ~Exists(VersionTable)
      <4>1. Goto(p, "versioning") /\ replica[p].step = "checking" /\ UNCHANGED <<database, crashes>>
        BY <2>3, <3>1 DEF CheckVersionTable
      <4>2. Moves(p, Idle("versioning"))
        BY <4>1, GotoIsIdle DEF Steps
      <4>3. QED
        BY <2>0, <4>1, <4>2, QuietStep DEF Steps
    <3>2. CASE Exists(VersionTable)
      <4>1. Goto(p, "upgrading") /\ replica[p].step = "checking" /\ UNCHANGED <<database, crashes>>
        BY <2>3, <3>2 DEF CheckVersionTable
      <4>2. Moves(p, Idle("upgrading"))
        BY <4>1, GotoIsIdle DEF Steps
      <4> DEFINE r == Idle("upgrading")
      <4>3. /\ r \in ReplicaState /\ r.step = "upgrading" /\ r.next = 1 /\ r.created = {}
        BY IdleIs DEF Steps
      <4> HIDE DEF r
      <4>4. /\ replica' \in [Replicas -> ReplicaState]
            /\ replica'[p] = r
            /\ \A q \in Replicas : q # p => replica'[q] = replica[q]
        BY <4>2, MovesTell DEF MigrationInvariant, r
      <4>5. Types' /\ DatabaseInvariant'
        BY <2>0, <4>1, <4>4 DEF MigrationInvariant, Types, DatabaseInvariant, TransactionalDDL
      <4>6. ReplicaInvariant(p)'
        BY <4>3, <4>4 DEF ReplicaInvariant
      <4>7. \A q \in Replicas : ReplicaInvariant(q)'
        BY <4>1, <4>4, <4>6 DEF MigrationInvariant, ReplicaInvariant, Done, TransactionalDDL
      <4>8. Disjoint'
        BY <4>3, <4>4 DEF MigrationInvariant, Disjoint
      <4>9. QED
        BY <4>5, <4>7, <4>8 DEF MigrationInvariant
    <3>3. QED
      BY <3>1, <3>2
  <2>4. CASE CreateVersionTable(p)
    BY <2>4, CreateVersionTableKeeps
  <2>5. CASE CreateNext(p)
    BY <2>5, CreateNextKeeps
  <2>6. CASE CreateFails(p)
    <3>1. Moves(p, Idle("down")) /\ UNCHANGED <<url, database, crashes>>
      BY <2>6, IdleIs DEF CreateFails, Moves, Steps
    <3>2. QED
      BY <2>0, <3>1, QuietStep DEF Steps
  <2>7. CASE Stamp(p)
    BY <2>7, StampKeeps
  <2>8. CASE Serve(p)
    <3>1. /\ Goto(p, "serving") /\ replica[p].step = "migrated" /\ UNCHANGED <<database, crashes>>
          /\ database.version = HeadRevision
      BY <2>8 DEF Serve, MigrationInvariant, ReplicaInvariant
    <3>2. Moves(p, Idle("serving"))
      BY <3>1, GotoIsIdle DEF Steps
    <3>3. QED
      BY <2>0, <3>1, <3>2, QuietStep DEF Steps
  <2>9. CASE Crash(p)
    BY <2>9, CrashKeeps
  <2>10. QED
    BY <2>1, <2>2, <2>3, <2>4, <2>5, <2>6, <2>7, <2>8, <2>9 DEF Work
<1>3. QED
  BY <1>1, <1>2 DEF Next, AllServe

\* Whatever the replicas do together and wherever they die, the version is at head only
\* when every table and the index are there, on PostgreSQL nothing of the revision is
\* without it, and no object is in two open transactions (repo.py:28-34, env.py:36-37).
THEOREM MigrationInvariantHolds == Spec => []MigrationInvariant
<1>1. QED
  BY InitMigration, NextMigration, PTL DEF Spec

\* The types the run checks hold for any number of replicas and crashes.
THEOREM TypeCorrect == Spec => []TypeOK
<1>1. MigrationInvariant => TypeOK
  BY UpgradeIs DEF MigrationInvariant, Types, TypeOK, ReplicaState, Objects
<1>2. QED
  BY <1>1, MigrationInvariantHolds, PTL

-----------------------------------------------------------------------------
(* Every step is a step of SchemaInstall, or changes nothing it shows.      *)

\* The version row tells how much of the schema is there.
VersionTells ==
    /\ database.version \in {None, HeadRevision}
    /\ database.version = HeadRevision => Installed = "whole"
    /\ database.version = None =>
          Installed = IF Revision \cap database.objects = {} THEN "none" ELSE "part"

LEMMA InstalledTells == MigrationInvariant => VersionTells
<1> SUFFICES ASSUME MigrationInvariant PROVE VersionTells
  OBVIOUS
<1>1. /\ database.version \in {None, HeadRevision} /\ None # HeadRevision
      /\ database.version = HeadRevision => Revision \cap database.objects = Revision
  BY MigrationAssumption DEF MigrationInvariant, Types, DatabaseInvariant
<1>2. Revision # {}
  BY UpgradeIs
<1>3. QED
  BY <1>1, <1>2 DEF Installed, VersionTells

LEMMA InstallInit == Init => Install!Init
<1> SUFFICES ASSUME Init PROVE Install!Init
  OBVIOUS
<1>1. MigrationInvariant
  BY InitMigration
<1>2. Ready = {}
  <2>1. \A p \in Replicas : replica[p] = Idle("down")
    BY DEF Init
  <2>2. \A p \in Replicas : replica[p].step = "down"
    BY <2>1, IdleIs DEF Steps
  <2>3. QED
    BY <2>2 DEF Ready
<1>3. TransactionalDDL \in BOOLEAN
  BY DEF TransactionalDDL
<1>4. Installed \in {"none", "whole"} \cup (IF TransactionalDDL THEN {} ELSE {"part"})
  BY <1>1, InstalledTells DEF VersionTells, MigrationInvariant, DatabaseInvariant
<1>5. QED
  BY <1>2, <1>3, <1>4 DEF Install!Init

\* A step that leaves the database and what serves.
LEMMA Unseen ==
    ASSUME NEW p \in Replicas, MigrationInvariant, MigrationInvariant',
           replica[p].step # "serving", replica'[p].step # "serving",
           \A q \in Replicas : q # p => replica'[q] = replica[q]
    PROVE  Ready' = Ready
BY DEF Ready

LEMMA StampInstalls ==
    ASSUME MigrationInvariant, MigrationInvariant', NEW p \in Replicas, Stamp(p), UNCHANGED url
    PROVE  Install!Next \/ UNCHANGED Install!installVars
<1>1. /\ ReplicaInvariant(p) /\ replica[p].step = "stamping" /\ replica[p].next = 5
  BY DEF MigrationInvariant, ReplicaInvariant, Stamp
<1>2. replica' = [replica EXCEPT ![p] = Idle("migrated")]
  BY DEF Stamp
<1>3. /\ replica'[p].step = "migrated" /\ \A q \in Replicas : q # p => replica'[q] = replica[q]
  <2>1. replica'[p] = Idle("migrated") /\ \A q \in Replicas : q # p => replica'[q] = replica[q]
    BY <1>2 DEF MigrationInvariant, Types
  <2>2. QED
    BY <2>1, IdleIs DEF Steps
<1>4. Ready' = Ready /\ TransactionalDDL' = TransactionalDDL
  BY <1>1, <1>3, Unseen DEF TransactionalDDL
<1>5. Installed' = "whole"
  <2>1. VersionTells'
    BY InstalledTells, PTL
  <2>2. database'.version = HeadRevision
    BY DEF Stamp
  <2>3. QED
    BY <2>1, <2>2 DEF VersionTells
<1>6. CASE Installed = "whole"
  BY <1>4, <1>5, <1>6 DEF Install!installVars
<1>7. CASE Installed # "whole"
  <2>1. database.version = None
    BY <1>7, InstalledTells DEF VersionTells
  <2>2. CASE TransactionalDDL
    BY <1>4, <1>5, <1>7, <2>2 DEF Install!Next, Install!Install
  <2>3. CASE ~TransactionalDDL
    <3>1. \A i \in 1..4 : Upgrade[i] \in database.objects
      BY <1>1, <2>3 DEF ReplicaInvariant, Done
    <3>2. Installed = "part"
      BY <2>1, <3>1, UpgradeIs, InstalledTells DEF VersionTells
    <3>3. QED
      BY <1>4, <1>5, <1>7, <3>2 DEF Install!Next, Install!Install
  <2>4. QED
    BY <2>2, <2>3
<1>8. QED
  BY <1>6, <1>7

\* A CREATE shows only where it commits itself, and then makes a part of the schema.
LEMMA CreateInstalls ==
    ASSUME MigrationInvariant, MigrationInvariant', NEW p \in Replicas,
           NEW object \in Objects, NEW after \in ReplicaState,
           replica[p].step # "serving", after.step # "serving",
           ~Exists(object), Create(p, object, after),
           object \in Revision => ~(Revision \subseteq database.objects),
           UNCHANGED url
    PROVE  Install!Next \/ UNCHANGED Install!installVars
<1>1. TransactionalDDL' = TransactionalDDL
  BY DEF TransactionalDDL
<1>2. CASE TransactionalDDL
  <2> DEFINE r == [after EXCEPT !.created = replica[p].created \cup {object}]
  <2>1. r.step = after.step /\ UNCHANGED database
    BY <1>2 DEF Create, ReplicaState
  <2>2. replica' = [replica EXCEPT ![p] = r]
    BY <1>2 DEF Create
  <2> HIDE DEF r
  <2>3. replica'[p] = r /\ \A q \in Replicas : q # p => replica'[q] = replica[q]
    BY <2>2 DEF MigrationInvariant, Types
  <2>4. Ready' = Ready
    BY <2>1, <2>3, Unseen
  <2>5. Installed' = Installed
    BY <2>1 DEF Installed
  <2>6. QED
    BY <1>1, <2>4, <2>5 DEF Install!installVars
<1>3. CASE ~TransactionalDDL
  <2>1. replica' = [replica EXCEPT ![p] = after]
    BY <1>3 DEF Create
  <2>2. replica'[p] = after /\ \A q \in Replicas : q # p => replica'[q] = replica[q]
    BY <2>1 DEF MigrationInvariant, Types
  <2>3. Ready' = Ready
    BY <2>2, Unseen
  <2>4. /\ database'.objects = database.objects \cup {object}
        /\ database'.version = database.version
    BY <1>3 DEF Create, MigrationInvariant, Types
  <2>5. CASE object \notin Revision
    <3>1. Revision \cap database'.objects = Revision \cap database.objects
      BY <2>4, <2>5
    <3>2. Installed' = Installed
      BY <2>4, <3>1 DEF Installed
    <3>3. QED
      BY <1>1, <2>3, <3>2 DEF Install!installVars
  <2>6. CASE object \in Revision
    <3>1. database.version = None
      BY <2>6 DEF MigrationInvariant, Types, DatabaseInvariant
    <3>2. VersionTells /\ VersionTells'
      BY InstalledTells, PTL
    <3>3. /\ Installed \in {"none", "part"} /\ Installed' = "part"
      BY <2>4, <2>6, <3>1, <3>2 DEF VersionTells
    <3>4. QED
      BY <1>1, <1>3, <2>3, <3>3 DEF Install!installVars, Install!Next, Install!Install
  <2>7. QED
    BY <2>5, <2>6
<1>4. QED
  BY <1>2, <1>3

\* p goes on to a step without touching the database: seen only if it serves or did.
LEMMA MoveInstalls ==
    ASSUME MigrationInvariant, NEW p \in Replicas, NEW r, Moves(p, r),
           r.step = "serving" => replica[p].step = "migrated",
           UNCHANGED <<url, database>>
    PROVE  Install!Next \/ UNCHANGED Install!installVars
<1>1. TransactionalDDL' = TransactionalDDL /\ Installed' = Installed
  BY DEF TransactionalDDL, Installed
<1>2. replica'[p] = r /\ \A q \in Replicas : q # p => replica'[q] = replica[q]
  BY MovesTell DEF MigrationInvariant
<1>3. CASE r.step = "serving"
  <2>1. database.version = HeadRevision
    BY <1>3 DEF MigrationInvariant, ReplicaInvariant
  <2>2. Installed = "whole"
    BY <2>1, InstalledTells DEF VersionTells
  <2>3. p \notin Ready /\ Ready' = Ready \cup {p}
    BY <1>2, <1>3 DEF Ready
  <2>4. QED
    BY <1>1, <2>2, <2>3 DEF Install!Next, Install!BecomeReady
<1>4. CASE r.step # "serving" /\ replica[p].step = "serving"
  <2>1. p \in Ready /\ Ready' = Ready \ {p}
    BY <1>2, <1>4 DEF Ready
  <2>2. QED
    BY <1>1, <2>1 DEF Install!Next, Install!GoDown
<1>5. CASE r.step # "serving" /\ replica[p].step # "serving"
  <2>1. Ready' = Ready
    BY <1>2, <1>5 DEF Ready
  <2>2. QED
    BY <1>1, <2>1 DEF Install!installVars
<1>6. QED
  BY <1>3, <1>4, <1>5

LEMMA InstallNext ==
    MigrationInvariant /\ MigrationInvariant' /\ [Next]_vars => [Install!Next]_(Install!installVars)
<1> SUFFICES ASSUME MigrationInvariant, MigrationInvariant', [Next]_vars
             PROVE  Install!Next \/ UNCHANGED Install!installVars
  OBVIOUS
<1>1. CASE UNCHANGED vars
  BY <1>1 DEF vars, Install!installVars, TransactionalDDL, Installed, Ready
<1>2. ASSUME NEW p \in Replicas, Work(p) \/ Crash(p), UNCHANGED url
      PROVE  Install!Next \/ UNCHANGED Install!installVars
  <2> USE <1>2
  <2>0. replica[p] \in ReplicaState /\ ReplicaInvariant(p)
    BY DEF MigrationInvariant, Types
  <2>1. CASE Boot(p)
    BY <2>1, IdleIs, MoveInstalls DEF Boot, Moves, Steps
  <2>2. CASE ReadVersion(p) \/ CheckVersionTable(p) \/ Serve(p)
    <3>1. PICK step \in Steps : Goto(p, step) /\ (step = "serving" => replica[p].step = "migrated")
      BY <2>2 DEF ReadVersion, CheckVersionTable, Serve, Steps
    <3>2. UNCHANGED database /\ replica[p].step \notin {"upgrading", "stamping"}
      BY <2>2 DEF ReadVersion, CheckVersionTable, Serve
    <3>3. Moves(p, Idle(step)) /\ Idle(step).step = step
      BY <3>1, <3>2, GotoIsIdle, IdleIs
    <3>4. QED
      BY <3>1, <3>2, <3>3, MoveInstalls
  <2>3. CASE CreateVersionTable(p)
    <3> DEFINE after == [replica[p] EXCEPT !.step = "upgrading"]
    <3>1. after \in ReplicaState /\ after.step = "upgrading" /\ replica[p].step = "versioning"
      BY <2>0, <2>3 DEF ReplicaState, Steps, CreateVersionTable
    <3>2. Create(p, VersionTable, after) /\ ~Exists(VersionTable)
      BY <2>3 DEF CreateVersionTable
    <3> HIDE DEF after
    <3>3. QED
      BY <3>1, <3>2, UpgradeIs, CreateInstalls DEF Objects
  <2>4. CASE CreateNext(p)
    <3> DEFINE object == Upgrade[replica[p].next]
               step == IF replica[p].next = Len(Upgrade) THEN "stamping" ELSE "upgrading"
               after == [replica[p] EXCEPT !.next = replica[p].next + 1, !.step = step]
    <3>1. replica[p].step = "upgrading" /\ replica[p].next \in 1..4
      BY <2>0, <2>4 DEF CreateNext, ReplicaInvariant
    <3>2. after \in ReplicaState /\ after.step # "serving"
      <4>1. step \in Steps /\ step # "serving" /\ replica[p].next + 1 \in 1..5
        BY <3>1 DEF Steps
      <4> HIDE DEF step
      <4>2. QED
        BY <2>0, <4>1 DEF ReplicaState
    <3>3. Create(p, object, after) /\ ~Exists(object)
      BY <2>4 DEF CreateNext
    <3> HIDE DEF after
    <3>4. object \in Revision /\ object \in Objects /\ ~(Revision \subseteq database.objects)
      BY <3>1, <3>3, UpgradeIs DEF Objects, Exists
    <3> HIDE DEF object
    <3>5. QED
      BY <3>1, <3>2, <3>3, <3>4, CreateInstalls
  <2>5. CASE CreateFails(p) \/ Crash(p)
    BY <2>5, IdleIs, MoveInstalls DEF CreateFails, Crash, Moves, Steps
  <2>6. CASE Stamp(p)
    BY <2>6, StampInstalls
  <2>7. QED
    BY <2>1, <2>2, <2>3, <2>4, <2>5, <2>6 DEF Work
<1>3. QED
  BY <1>1, <1>2 DEF Next, AllServe

\* The safety of ImplementsInstall: whatever the number of replicas that migrate at once
\* and die meanwhile, the schema appears at one instant where DDL is transactional, by way
\* of a part that may last where it is not, never goes away, and a replica takes traffic
\* only when all of it is there (repo.py:28-34, migrate.py:18-22, env.py:36-37, main.py:15).
THEOREM InstallationIsKept ==
    Spec => Install!Init /\ [][Install!Next]_(Install!installVars)
<1>1. QED
  BY InstallInit, InstallNext, MigrationInvariantHolds, PTL DEF Spec
=============================================================================
