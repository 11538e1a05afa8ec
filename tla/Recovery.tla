------------------------------ MODULE Recovery ------------------------------
(***************************************************************************)
(* The maintenance tools on one database, which may be in use: migrations, *)
(* the import from Ver2, backups and restores, by several processes at     *)
(* once, each of which can die at any step; and the loss of the database,  *)
(* after which a new one is migrated and filled from the snapshot.         *)
(***************************************************************************)
EXTENDS SnapshotTools, LegacyImport

CONSTANTS
  LiveSeqs,     \* device_seq values the Pis still send
  MaxRuns,      \* bound on the runs of a tool
  MaxFaults,    \* bound on the runs that die
  MaxLosses     \* bound on the losses of the database

ASSUME RecoveryAssumption ==
  /\ LiveSeqs \subseteq Nat
  /\ MaxRuns \in Nat /\ MaxFaults \in Nat /\ MaxLosses \in Nat

VARIABLES
  runs, faults, losses

boundVars == <<runs, faults, losses>>
vars == <<rowVars, nextId, processVars, migrationVars, snapshotVars,
          importVars, boundVars>>

Stages == {"idle"} \cup MigrationStages \cup {"save"} \cup RestoreStages
            \cup ImportStages

RecoveryTypeOK ==
  /\ TablesTypeOK
  /\ MigrationsTypeOK
  /\ SnapshotTypeOK
  /\ ImportTypeOK
  /\ pc \in [Tools -> Stages]
  /\ runs \in 0..MaxRuns /\ faults \in 0..MaxFaults /\ losses \in 0..MaxLosses

Init ==
  /\ TablesInit
  /\ MigrationsInit
  /\ SnapshotInit
  /\ ImportInit
  /\ runs = 0 /\ faults = 0 /\ losses = 0

-----------------------------------------------------------------------------
\* The tools.

Restoring == \E t \in Tools : pc[t] \in {"load", "commit"}
NoteMixed == mixed' = (mixed \/ (Restoring /\ nextId' # nextId))

ToolStep(t) ==
  /\ \/ /\ MigrationStep(t)
        /\ UNCHANGED <<rowVars, nextId, snapshotVars, importVars>>
     \/ /\ SnapshotStep(t)
        /\ UNCHANGED <<migrationVars, importVars>>
     \/ /\ ImportStep(t)
        /\ NoteMixed
        /\ UNCHANGED <<migrationVars, file, draft, source, restorer>>
  /\ IF pc[t] = "idle" THEN runs < MaxRuns /\ runs' = runs + 1
                       ELSE UNCHANGED runs
  /\ UNCHANGED <<faults, losses>>

\* A run dies, or an exception ends it: a lost connection, a deadlock.
ToolDies(t) ==
  /\ faults < MaxFaults /\ faults' = faults + 1
  /\ \/ /\ AbortMigration(t)
        /\ UNCHANGED <<rowVars, nextId, snapshotVars, importVars>>
     \/ /\ AbortBackup(t) \/ AbortRestore(t)
        /\ UNCHANGED <<rowVars, nextId, migrationVars, importVars>>
     \/ /\ AbortImport(t)
        /\ UNCHANGED <<migrationVars, snapshotVars>>
  /\ UNCHANGED <<runs, losses>>

-----------------------------------------------------------------------------
\* The system in use, a transaction of it as one step.

\* register_device, waiting for a restore that has inserted the device.
Register(d) ==
  /\ HasTables
  /\ d \notin devices
  /\ \A t \in Tools : pc[t] \in Writing => d \notin hand[t].devices
  /\ devices' = devices \cup {d}
  /\ UNCHANGED <<messages, readings, nextId, mixed>>

\* insert_sensor for a message that is new and has a free number; the others
\* change nothing.  An id that is taken costs a value of the sequence.
StoreLive(d, n) ==
  LET m == [origin |-> "ver3", row |-> n, zone |-> NoZone, dev |-> d] IN
  /\ d \in devices
  /\ \A x \in messages : ~SameId(m, x) /\ ~SameSlot(m, x)
  /\ \A t \in Tools : ~Blocks(t, m)
  /\ IF IdTaken(readings)
       THEN UNCHANGED <<messages, readings>>
       ELSE /\ messages' = messages \cup {m}
            /\ readings' = readings \cup {[id |-> nextId, msg |-> m]}
  /\ nextId' = nextId + 1
  /\ NoteMixed
  /\ UNCHANGED devices

InUse ==
  /\ \/ \E d \in Devices : Register(d)
     \/ \E d \in Devices, n \in LiveSeqs : StoreLive(d, n)
  /\ UNCHANGED <<processVars, migrationVars, file, draft, source, restorer,
                 importVars, boundVars>>

\* The database is gone, and a new one is created in its place: every run of
\* a tool ends with its connection.  The snapshot is elsewhere.
LoseDatabase ==
  /\ losses < MaxLosses
  /\ losses' = losses + 1
  /\ devices' = {} /\ messages' = {} /\ readings' = {}
  /\ nextId' = 1
  /\ pc' = [t \in Tools |-> "idle"]
  /\ pos' = [t \in Tools |-> 0]
  /\ hand' = [t \in Tools |-> NoRows]
  /\ applied' = Blank /\ recorded' = Blank
  /\ migrator' = None
  /\ release' = [t \in Tools |-> FirstRelease]
  /\ seen' = [t \in Tools |-> Blank]
  /\ found' = [t \in Tools |-> FALSE]
  /\ executed' = [f \in Files |-> 0]
  /\ unrecorded' = [f \in Files |-> 0]
  /\ draft' = [t \in Tools |-> NoSnapshot]
  /\ source' = [t \in Tools |-> NoSnapshot]
  /\ restorer' = None
  /\ mixed' = FALSE
  /\ completed' = {}
  /\ UNCHANGED <<file, target, zone, runs, faults>>

Next ==
  \/ \E t \in Tools : ToolStep(t)
  \/ \E t \in Tools : ToolDies(t)
  \/ InUse
  \/ LoseDatabase

Spec == Init /\ [][Next]_vars

-----------------------------------------------------------------------------
(* Every message has its reading and every row its parents: while tools    *)
(* run, after one has died, and after a restore, even of a snapshot that   *)
(* was taken while rows were stored.  A message without a reading would    *)
(* have its retry answered 'duplicate' for ever.                           *)
DatabaseWhole ==
  LET rows == [devices |-> devices, messages |-> messages,
               readings |-> readings]
  IN  ReferencesHold(rows) /\ NoMessageAlone(rows)

(* The sequence is ahead of every id, so that the next reading is not      *)
(* refused for its id: after rollbacks, and after a restore, which brings  *)
(* ids the sequence has not handed out, unless others insert during it.    *)
IdsAreFresh ==
  mixed \/ /\ \A r \in readings : r.id < nextId
           /\ \A t \in Tools : pc[t] = "row" =>
                \A r \in hand[t].readings : r.id < nextId

(* What a restore commits is what the file holds, no row more or less,     *)
(* unless others inserted readings since it found the tables empty.        *)
RestoreIsExact ==
  [][\A t \in Tools :
       CommitRestore(t) /\ ~mixed =>
         messages' = source[t].rows.messages /\ readings' = source[t].rows.readings]_vars
=============================================================================
