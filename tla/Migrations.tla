----------------------------- MODULE Migrations -----------------------------
(***************************************************************************)
(* apply_migrations (ver3/database.py): the SQL files of ver3/migrations   *)
(* that the database has not recorded are run in order, under a session    *)
(* advisory lock, on a connection in autocommit mode.  Each file is a      *)
(* transaction of its own, and the row in schema_migrations another one.   *)
(***************************************************************************)
EXTENDS Tables, Sequences

CONSTANTS
  Digests,      \* sha256 of a file's contents
  Releases,     \* what a run may ship: the digests of its files, in order
  Earlier,      \* what earlier releases shipped that ran on the database
  WideFile      \* the file that adds columns to devices (004 in the code)

ASSUME MigrationsAssumption ==
  /\ None \notin Digests
  /\ Releases \subseteq Seq(Digests) \ {<<>>} /\ Releases # {}
  /\ Earlier \subseteq Seq(Digests) \ {<<>>}
  /\ WideFile > 1 /\ \E r \in Releases : WideFile \in DOMAIN r

Files == UNION {DOMAIN r : r \in Releases \cup Earlier}

VARIABLES
  applied,      \* the contents of each file that were run last, or None
  recorded,     \* schema_migrations: the digest of each file, or None
  migrator,     \* holder of advisory lock 3000001, or None
  release,      \* what a run of the tool ships
  seen,         \* recorded, as the run has read it
  found,        \* existing_schema
  executed,     \* history: how often each file was run
  unrecorded    \* history: how often a run ended between SQL and record

migrationVars ==
  <<applied, recorded, migrator, release, seen, found, executed, unrecorded>>

Blank == [f \in Files |-> None]

MigrationStages == {"inspect", "file", "record"}

MigrationsTypeOK ==
  /\ applied \in [Files -> Digests \cup {None}]
  /\ recorded \in [Files -> Digests \cup {None}]
  /\ migrator \in Tools \cup {None}
  /\ release \in [Tools -> Releases]
  /\ seen \in [Tools -> [Files -> Digests \cup {None}]]
  /\ found \in [Tools -> BOOLEAN]
  /\ executed \in [Files -> Nat]
  /\ unrecorded \in [Files -> Nat]

FirstRelease == CHOOSE r \in Releases : TRUE
MigratedBy(r) == [f \in Files |-> IF f \in DOMAIN r THEN r[f] ELSE None]

\* A new database, one whose tables were made before the tool existed, or one
\* that a release has migrated.
MigrationsInit ==
  /\ \/ applied = Blank /\ recorded = Blank
     \/ \E r \in Earlier : applied = MigratedBy(<<r[1]>>) /\ recorded = Blank
     \/ \E r \in Earlier : applied = MigratedBy(r) /\ recorded = applied
  /\ migrator = None
  /\ release = [t \in Tools |-> FirstRelease]
  /\ seen = [t \in Tools |-> Blank]
  /\ found = [t \in Tools |-> FALSE]
  /\ executed = [f \in Files |-> 0]
  /\ unrecorded = [f \in Files |-> 0]

\* Migration 001 has created the tables.
HasTables == applied[1] # None

-----------------------------------------------------------------------------
\* Mutant of LockMigrations: pg_advisory_xact_lock, which a connection in
\* autocommit mode gives back at the end of the statement.
LockForAStatement(t) ==
  /\ migrator = None
  /\ Begin(t, "inspect")
  /\ \E r \in Releases : release' = [release EXCEPT ![t] = r]
  /\ UNCHANGED <<hand, applied, recorded, migrator, seen, found, executed,
                 unrecorded>>

\* pg_advisory_lock(3000001) waits for the session that has it.
LockMigrations(t) ==
  /\ migrator = None
  /\ migrator' = t
  /\ Begin(t, "inspect")
  /\ \E r \in Releases : release' = [release EXCEPT ![t] = r]
  /\ UNCHANGED <<hand, applied, recorded, seen, found, executed, unrecorded>>

\* CREATE TABLE IF NOT EXISTS schema_migrations, existing_schema, recorded.
Inspect(t) ==
  /\ pc[t] = "inspect"
  /\ found' = [found EXCEPT ![t] = HasTables]
  /\ seen' = [seen EXCEPT ![t] = recorded]
  /\ GoTo(t, "file")
  /\ UNCHANGED <<pos, hand, applied, recorded, migrator, release, executed,
                 unrecorded>>

AtFile(t) == pc[t] = "file" /\ pos[t] \in DOMAIN release[t]

SkipFile(t) ==
  /\ AtFile(t)
  /\ seen[t][pos[t]] = release[t][pos[t]]
  /\ MoveTo(t, pos[t] + 1)
  /\ UNCHANGED <<pc, hand, migrationVars>>

\* Tables made before the tool existed are taken for what 001 makes.
AdoptFile(t) ==
  /\ AtFile(t)
  /\ seen[t][pos[t]] = None
  /\ pos[t] = 1 /\ found[t]
  /\ GoTo(t, "record")
  /\ UNCHANGED <<pos, hand, migrationVars>>

\* BEGIN ... COMMIT.  ALTER TABLE devices waits for those who read devices.
RunFile(t) ==
  /\ AtFile(t)
  /\ seen[t][pos[t]] = None
  /\ ~(pos[t] = 1 /\ found[t])
  /\ pos[t] = WideFile => \A u \in Tools : ~HoldsDevices(u)
  /\ applied' = [applied EXCEPT ![pos[t]] = release[t][pos[t]]]
  /\ executed' = [executed EXCEPT ![pos[t]] = @ + 1]
  /\ GoTo(t, "record")
  /\ UNCHANGED <<pos, hand, recorded, migrator, release, seen, found,
                 unrecorded>>

\* INSERT INTO schema_migrations; the name is its primary key.
RecordFile(t) ==
  /\ pc[t] = "record"
  /\ recorded[pos[t]] = None
  /\ recorded' = [recorded EXCEPT ![pos[t]] = release[t][pos[t]]]
  /\ found' = [found EXCEPT ![t] = TRUE]
  /\ GoTo(t, "file")
  /\ MoveTo(t, pos[t] + 1)
  /\ UNCHANGED <<hand, applied, migrator, release, seen, executed, unrecorded>>

\* pg_advisory_unlock, or the end of the session.
EndMigration(t) ==
  /\ Finish(t)
  /\ migrator' = IF migrator = t THEN None ELSE migrator
  /\ release' = [release EXCEPT ![t] = FirstRelease]
  /\ seen' = [seen EXCEPT ![t] = Blank]
  /\ found' = [found EXCEPT ![t] = FALSE]
  /\ UNCHANGED <<applied, recorded, executed>>

AllFilesDone(t) ==
  /\ pc[t] = "file"
  /\ pos[t] \notin DOMAIN release[t]
  /\ EndMigration(t)
  /\ UNCHANGED unrecorded

\* SchemaBoundaryError: a recorded file has other contents now.
RefuseChangedFile(t) ==
  /\ AtFile(t)
  /\ seen[t][pos[t]] \notin {None, release[t][pos[t]]}
  /\ EndMigration(t)
  /\ UNCHANGED unrecorded

\* The process dies, its connection is lost or a statement fails.
AbortMigration(t) ==
  /\ pc[t] \in MigrationStages
  /\ EndMigration(t)
  /\ unrecorded' =
       [f \in Files |-> IF pc[t] = "record" /\ f = pos[t]
                          THEN unrecorded[f] + 1 ELSE unrecorded[f]]

MigrationStep(t) ==
  \/ LockMigrations(t)
  \/ Inspect(t)
  \/ SkipFile(t)
  \/ AdoptFile(t)
  \/ RunFile(t)
  \/ RecordFile(t)
  \/ AllFilesDone(t)
  \/ RefuseChangedFile(t)

-----------------------------------------------------------------------------
(* A file is run again only if a run ended between the file and its row in *)
(* schema_migrations, however many processes start the tool at once, and   *)
(* 001 never over tables that are there.  What is recorded is what was run,*)
(* a recorded file is never replaced by other contents, and no file before *)
(* another one is missing.                                                 *)
FilesInOrder ==
  /\ \A f \in Files : executed[f] <= 1 + unrecorded[f]
  /\ executed[1] <= 1
  /\ \A f \in Files : recorded[f] # None => applied[f] # None
  /\ \A f \in Files \ {1} : recorded[f] \in {None, applied[f]}
  /\ \A f \in Files, g \in Files :
       f < g /\ applied[g] # None => recorded[f] # None

(* A run that comes to its end leaves every file of its release recorded,  *)
(* with the contents it ships.                                             *)
ReleaseRecorded ==
  \A t \in Tools :
    pc[t] = "file" /\ pos[t] \notin DOMAIN release[t] =>
      \A f \in DOMAIN release[t] : recorded[f] = release[t][f]

\* What the tool owes the operator who starts it, once or many times.
MigratedInOrder == FilesInOrder /\ ReleaseRecorded
=============================================================================
