----------------------------- MODULE MCMigration -----------------------------
(* The database is empty, downgraded to base, at head or, an old SQLite file,  *)
(* has the tables and no version.                                              *)
EXTENDS Migration

EmptyDatabase == [objects |-> {}, version |-> None]
AtBase == [objects |-> {VersionTable}, version |-> None]
AtHead == [objects |-> Revision \cup {VersionTable}, version |-> HeadRevision]
BeforeAlembic == [objects |-> Revision, version |-> None]

MCDeployments ==
    [url : {"postgres"}, database : {EmptyDatabase, AtBase, AtHead}]
    \cup [url : {"sqlite"}, database : {EmptyDatabase, AtBase, AtHead, BeforeAlembic}]
=============================================================================
