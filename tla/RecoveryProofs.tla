--------------------------- MODULE RecoveryProofs ---------------------------
(***************************************************************************)
(* Proofs about Recovery, for any number of tools, devices, zones, files,  *)
(* releases and rows, and any number of runs, faults and losses.           *)
(***************************************************************************)
EXTENDS Recovery, SetBounds, TLAPS

-----------------------------------------------------------------------------
\* Types, with the two facts they rest on: a backup has read as many tables as
\* it has passed, a file is recorded that the release has, and the ids that
\* exist are bounded (so that MAX(id) is one).

IdsBelow(b) ==
  /\ \A r \in readings : r.id <= b
  /\ \A t \in Tools : \A r \in hand[t].readings : r.id <= b
  /\ \A t \in Tools : \A r \in draft[t].rows.readings : r.id <= b
  /\ \A t \in Tools : \A r \in source[t].rows.readings : r.id <= b
  /\ file # NoFile => \A r \in file.rows.readings : r.id <= b

Places ==
  \A t \in Tools :
    /\ IF pc[t] = "save" THEN pos[t] \in 1..4 /\ draft[t].tables = pos[t] - 1
                         ELSE draft[t] = NoSnapshot
    /\ pc[t] = "record" => pos[t] \in DOMAIN release[t]

TInv ==
  /\ RecoveryTypeOK
  /\ Places
  /\ \E b \in Nat : IdsBelow(b)

-----------------------------------------------------------------------------
\* The advisory locks are held by those who work under them.
LocksHeld ==
  /\ \A t \in Tools : pc[t] \in MigrationStages <=> migrator = t
  /\ \A t \in Tools : pc[t] \in {"load", "commit"} <=> restorer = t

\* What the holder of the migration lock knows is still true.
Pending(f) == \E t \in Tools : pc[t] = "record" /\ pos[t] = f
Knows(t) ==
  /\ pc[t] \in {"file", "record"} =>
       /\ pos[t] \in Nat \ {0}
       /\ pos[t] <= Len(release[t]) + 1
       /\ \A f \in Files :
            f < pos[t] => recorded[f] # None /\ recorded[f] = release[t][f]
       /\ \A f \in Files : f >= pos[t] => seen[t][f] = recorded[f]
  /\ pc[t] = "inspect" => pos[t] = 1
  /\ pc[t] = "file" /\ pos[t] = 1 => found[t] = HasTables
  /\ pc[t] = "record" =>
       /\ recorded[pos[t]] = None
       /\ applied[pos[t]] # None
       /\ pos[t] # 1 => applied[pos[t]] = release[t][pos[t]]

RunsCounted ==
  /\ \A f \in Files :
       executed[f] <= unrecorded[f]
                        + (IF recorded[f] # None \/ Pending(f) THEN 1 ELSE 0)
  /\ applied[1] = None => executed[1] = 0

GInv ==
  /\ FilesInOrder
  /\ RunsCounted
  /\ \A t \in Tools : Knows(t)

-----------------------------------------------------------------------------
\* Rows: keys, foreign keys, and what each transaction and each file holds.

Keyed(rows) ==
  /\ \A m, n \in rows.messages : SameId(m, n) => m = n
  /\ \A q, r \in rows.readings :
       q.msg = r.msg \/ SameSlot(q.msg, r.msg) => q = r

Apart(rs, ss) ==
  /\ \A m \in rs.messages, n \in ss.messages : ~SameId(m, n)
  /\ \A q \in rs.readings, r \in ss.readings : ~SameSlot(q.msg, r.msg)

Stored == [devices |-> devices, messages |-> messages, readings |-> readings]

\* A readings' message may be missing from a torn file, but no other message
\* has its id.
OneNamed(rows) ==
  \A m \in rows.messages, r \in rows.readings : SameId(m, r.msg) => m = r.msg

WholeFile(s) ==
  /\ s.tables = 3
  /\ NoMessageAlone(s.rows)
  /\ s.torn \/ ReferencesHold(s.rows)
  /\ Keyed(s.rows)
  /\ OneNamed(s.rows)

\* What the first tables of a snapshot hold.
Part(rows, n) ==
  [devices |-> IF n > 1 THEN rows.devices ELSE {},
   messages |-> IF n > 2 THEN rows.messages ELSE {},
   readings |-> IF n > 3 THEN rows.readings ELSE {}]

DraftInv(t) ==
  LET d == draft[t] IN
  /\ d.rows = Part(d.rows, pos[t])
  /\ d.rows.devices \subseteq devices
  /\ d.rows.messages \subseteq messages
  /\ d.rows.readings \subseteq readings
  /\ pos[t] > 2 => d.torn \/ \A m \in d.rows.messages : m.dev \in d.rows.devices
  /\ pos[t] > 3 => NoMessageAlone(d.rows) /\ (d.torn \/ ReferencesHold(d.rows))

Referring(t) ==
  /\ \A r \in hand[t].readings : r.msg \in hand[t].messages
  /\ \A m \in hand[t].messages : m.dev \in devices \cup hand[t].devices

LoadInv(t) ==
  /\ hand[t] = Part(source[t].rows, pos[t])
  /\ pos[t] \in 1..4

LegacyMessage(row, z, d) ==
  [origin |-> "ver2", row |-> row, zone |-> z, dev |-> d]

ImportInv(t) ==
  /\ pos[t] >= 1
  /\ \A m \in hand[t].messages : m.row < pos[t]
  /\ NoMessageAlone(hand[t])
  /\ hand[t].devices = {}
  /\ \A row \in 1..(pos[t] - 1) :
       LegacyMessage(row, zone[t], target[t]) \in messages \cup hand[t].messages

ToolInv(t) ==
  /\ pc[t] \notin Writing => hand[t] = NoRows
  /\ Referring(t)
  /\ Keyed(hand[t])
  /\ pc[t] = "save" => DraftInv(t)
  /\ pc[t] \in RestoreStages => WholeFile(source[t])
  /\ pc[t] = "open" => pos[t] = 1
  /\ pc[t] = "load" => LoadInv(t)
  /\ pc[t] = "commit" => hand[t] = source[t].rows
  /\ pc[t] \in ImportStages => ImportInv(t)

ReportsTrue ==
  \A run \in completed, row \in 1..LegacyRows :
    LegacyMessage(row, run[1], run[2]) \in messages

DInv ==
  /\ DatabaseWhole
  /\ Keyed(Stored)
  /\ \A t \in Tools : ToolInv(t)
  /\ \A t \in Tools : Apart(hand[t], Stored)
  /\ \A t, u \in Tools : t # u => Apart(hand[t], hand[u])
  /\ file # NoFile => WholeFile(file)
  /\ ReportsTrue

-----------------------------------------------------------------------------
\* As long as nobody else inserts readings, a restore works on an empty table.
Fresh ==
  /\ \A r \in readings : r.id < nextId
  /\ \A t \in Tools : pc[t] \in {"row", "commit"} =>
       \A r \in hand[t].readings : r.id < nextId
  /\ Restoring =>
       /\ readings = {}
       /\ \A t \in Tools : pc[t] = "row" => hand[t].readings = {}
SInv == mixed \/ Fresh

-----------------------------------------------------------------------------
\* Files and releases.

LEMMA FilesAreNumbers ==
  /\ Files \subseteq Nat \ {0}
  /\ 1 \in Files
  /\ \A r \in Releases : r \in Seq(Digests) /\ DOMAIN r \subseteq Files
  /\ \A r \in Releases : \A f \in DOMAIN r : r[f] \in Digests /\ r[f] # None
<1>1. \A r \in Releases \cup Earlier : r \in Seq(Digests) /\ r # <<>>
  BY MigrationsAssumption
<1>2. \A r \in Releases \cup Earlier : DOMAIN r = 1..Len(r) /\ Len(r) \in Nat \ {0}
  BY <1>1
<1>3. Files \subseteq Nat \ {0}
  BY <1>2 DEF Files
<1>4. \A r \in Releases : DOMAIN r \subseteq Files
  BY DEF Files
<1>5. 1 \in Files
  <2>1. PICK r \in Releases : TRUE
    BY MigrationsAssumption
  <2>2. 1 \in DOMAIN r
    BY <1>2, <2>1
  <2>3. QED  BY <1>4, <2>1, <2>2
<1>6. \A r \in Releases : \A f \in DOMAIN r : r[f] \in Digests
  BY <1>1, <1>2
<1>7. QED  BY <1>1, <1>3, <1>4, <1>5, <1>6, MigrationsAssumption

LEMMA MigratedByTyped ==
  ASSUME NEW r \in Seq(Digests)
  PROVE  MigratedBy(r) \in [Files -> Digests \cup {None}]
<1>1. \A f \in DOMAIN r : r[f] \in Digests
  OBVIOUS
<1>2. QED  BY <1>1 DEF MigratedBy

LEMMA BlankTyped ==
  /\ Blank \in [Files -> Digests \cup {None}]
  /\ NoRows \in Rows
  /\ NoSnapshot \in Snapshot
  /\ FirstRelease \in Releases
<1>1. NoRows \in Rows
  BY DEF NoRows, Rows
<1>2. NoSnapshot \in Snapshot
  BY <1>1 DEF NoSnapshot, Snapshot
<1>3. FirstRelease \in Releases
  BY MigrationsAssumption DEF FirstRelease
<1>4. QED  BY <1>1, <1>2, <1>3 DEF Blank

-----------------------------------------------------------------------------
\* Type correctness.

LEMMA TInit == Init => TInv
<1> SUFFICES ASSUME Init PROVE TInv
  OBVIOUS
<1> USE BlankTyped DEF Init
<1>1. TablesTypeOK
  BY DEF TablesInit, NothingStored, TablesTypeOK
<1>2. MigrationsTypeOK
  <2>1. applied \in [Files -> Digests \cup {None}] /\ recorded \in [Files -> Digests \cup {None}]
    <3>1. \A r \in Earlier : r \in Seq(Digests) /\ <<r[1]>> \in Seq(Digests)
      <4>1. \A r \in Earlier : r \in Seq(Digests) /\ r # <<>>
        BY MigrationsAssumption
      <4>2. \A r \in Earlier : r[1] \in Digests
        BY <4>1
      <4>3. QED  BY <4>1, <4>2
    <3>2. \A r \in Earlier : /\ MigratedBy(r) \in [Files -> Digests \cup {None}]
                             /\ MigratedBy(<<r[1]>>) \in [Files -> Digests \cup {None}]
      BY <3>1, MigratedByTyped
    <3>3. QED  BY <3>2 DEF MigrationsInit
  <2>2. QED  BY <2>1 DEF MigrationsInit, MigrationsTypeOK
<1>3. SnapshotTypeOK
  BY DEF SnapshotInit, SnapshotTypeOK
<1>4. ImportTypeOK
  BY ImportAssumption DEF ImportInit, ImportTypeOK
<1>5. pc \in [Tools -> Stages]
  BY DEF TablesInit, Stages
<1>6. runs \in 0..MaxRuns /\ faults \in 0..MaxFaults /\ losses \in 0..MaxLosses
  BY RecoveryAssumption
<1>7. RecoveryTypeOK
  BY <1>1, <1>2, <1>3, <1>4, <1>5, <1>6 DEF RecoveryTypeOK
<1>8. Places
  BY DEF TablesInit, SnapshotInit, Places
<1>9. IdsBelow(0)
  BY DEF TablesInit, NothingStored, SnapshotInit, IdsBelow, NoRows, NoSnapshot
<1>10. QED  BY <1>7, <1>8, <1>9 DEF TInv

-----------------------------------------------------------------------------
\* A step of one tool leaves the variables of the others alone.

AsItWas(u) ==
  /\ pc'[u] = pc[u] /\ pos'[u] = pos[u] /\ hand'[u] = hand[u]
  /\ draft'[u] = draft[u] /\ source'[u] = source[u]
  /\ release'[u] = release[u] /\ seen'[u] = seen[u] /\ found'[u] = found[u]
  /\ target'[u] = target[u] /\ zone'[u] = zone[u]
OthersAsTheyWere(t) == \A u \in Tools \ {t} : AsItWas(u)

LEMMA OthersInMigration ==
  ASSUME RecoveryTypeOK, NEW t \in Tools,
         MigrationStep(t) \/ AbortMigration(t),
         UNCHANGED <<snapshotVars, importVars>>
  PROVE  OthersAsTheyWere(t)
<1> USE DEF RecoveryTypeOK, TablesTypeOK, MigrationsTypeOK, snapshotVars,
            importVars, OthersAsTheyWere, AsItWas, Begin, GoTo, MoveTo, migrationVars
<1>1. CASE LockMigrations(t)
  BY <1>1 DEF LockMigrations
<1>2. CASE Inspect(t)
  BY <1>2 DEF Inspect
<1>3. CASE SkipFile(t)
  BY <1>3 DEF SkipFile
<1>4. CASE AdoptFile(t)
  BY <1>4 DEF AdoptFile
<1>5. CASE RunFile(t)
  BY <1>5 DEF RunFile
<1>6. CASE RecordFile(t)
  BY <1>6 DEF RecordFile
<1>7. CASE EndMigration(t)
  BY <1>7 DEF EndMigration, Finish, Take
<1>8. QED
  BY <1>1, <1>2, <1>3, <1>4, <1>5, <1>6, <1>7
     DEF MigrationStep, AllFilesDone, RefuseChangedFile, AbortMigration

LEMMA OthersInSnapshot ==
  ASSUME RecoveryTypeOK, NEW t \in Tools,
         SnapshotStep(t) \/ AbortBackup(t) \/ AbortRestore(t),
         UNCHANGED <<migrationVars, importVars>>
  PROVE  OthersAsTheyWere(t)
<1> USE DEF RecoveryTypeOK, TablesTypeOK, SnapshotTypeOK, snapshotVars,
            importVars, OthersAsTheyWere, AsItWas, Begin, GoTo, MoveTo, migrationVars
<1>1. CASE StartBackup(t)
  BY <1>1 DEF StartBackup
<1>2. CASE SaveTable(t)
  BY <1>2 DEF SaveTable
<1>3. CASE EndBackup(t)
  BY <1>3 DEF EndBackup, Finish, Take
<1>4. CASE OpenFile(t)
  BY <1>4 DEF OpenFile
<1>5. CASE LockTarget(t)
  BY <1>5 DEF LockTarget
<1>6. CASE LoadTable(t)
  BY <1>6 DEF LoadTable, Take
<1>7. CASE SetSequence(t)
  BY <1>7 DEF SetSequence
<1>8. CASE EndRestore(t)
  BY <1>8 DEF EndRestore, Finish, Take
<1>9. QED
  BY <1>1, <1>2, <1>3, <1>4, <1>5, <1>6, <1>7, <1>8
     DEF SnapshotStep, RefuseBackup, ReplaceFile, RefuseTarget, RefuseTable,
         CommitRestore, AbortBackup, AbortRestore

LEMMA OthersInImport ==
  ASSUME RecoveryTypeOK, NEW t \in Tools,
         ImportStep(t) \/ AbortImport(t),
         UNCHANGED <<migrationVars, file, draft, source, restorer>>
  PROVE  OthersAsTheyWere(t)
<1> USE DEF RecoveryTypeOK, TablesTypeOK, ImportTypeOK, importVars,
            OthersAsTheyWere, AsItWas, Begin, GoTo, MoveTo, migrationVars
<1>1. CASE StartImport(t)
  BY <1>1 DEF StartImport
<1>2. CASE SkipDuplicate(t)
  BY <1>2 DEF SkipDuplicate
<1>3. CASE InsertRow(t)
  BY <1>3 DEF InsertRow, Take
<1>4. CASE CommitBatch(t)
  BY <1>4 DEF CommitBatch, Take
<1>5. CASE Finish(t) /\ UNCHANGED <<target, zone>>
  BY <1>5 DEF Finish, Take
<1>6. QED
  BY <1>1, <1>2, <1>3, <1>4, <1>5
     DEF ImportStep, RefuseRow, ReadingClashes, ReportCompleted, AbortImport

LEMMA Others ==
  ASSUME RecoveryTypeOK, NEW t \in Tools, ToolStep(t) \/ ToolDies(t)
  PROVE  OthersAsTheyWere(t)
BY OthersInMigration, OthersInSnapshot, OthersInImport
   DEF ToolStep, ToolDies, snapshotVars

-----------------------------------------------------------------------------
\* Types: the steps.

LEMMA TMigration ==
  ASSUME TInv, NEW t \in Tools, MigrationStep(t) \/ AbortMigration(t),
         UNCHANGED <<rowVars, nextId, snapshotVars, importVars>>
  PROVE  /\ TablesTypeOK' /\ MigrationsTypeOK' /\ SnapshotTypeOK'
         /\ ImportTypeOK' /\ pc' \in [Tools -> Stages]
         /\ Places' /\ \E b \in Nat : IdsBelow(b)'
<1> DEFINE Steps ==
      /\ MigrationsTypeOK'
      /\ pc' \in [Tools -> Stages] /\ pos' \in [Tools -> Nat]
      /\ hand' = hand \/ hand' = [hand EXCEPT ![t] = NoRows]
      /\ pc[t] # "save" /\ pc'[t] # "save"
      /\ pc'[t] = "record" => pos'[t] \in DOMAIN release'[t]
<1>1. RecoveryTypeOK
  BY DEF TInv
<1>2. Steps
  <2> USE <1>1, FilesAreNumbers, BlankTyped
      DEF RecoveryTypeOK, TablesTypeOK, MigrationsTypeOK, Stages,
          MigrationStages, Begin, GoTo, MoveTo, migrationVars, AtFile
  <2>1. CASE LockMigrations(t)
    BY <2>1 DEF LockMigrations
  <2>2. CASE Inspect(t)
    BY <2>2 DEF Inspect, HasTables
  <2>3. CASE SkipFile(t)
    <3>1. pc[t] = "file" /\ pos' = [pos EXCEPT ![t] = @ + 1]
      BY <2>3 DEF SkipFile
    <3>2. UNCHANGED <<pc, hand, migrationVars>>
      BY <2>3 DEF SkipFile
    <3>3. MigrationsTypeOK' /\ pc' \in [Tools -> Stages] /\ pc'[t] = "file"
      BY <3>1, <3>2
    <3>4. pos' \in [Tools -> Nat]
      BY <3>1
    <3> QED  BY <3>2, <3>3, <3>4
  <2>4. CASE AdoptFile(t)
    BY <2>4 DEF AdoptFile
  <2>5. CASE RunFile(t)
    <3>1. release[t] \in Releases /\ pos[t] \in DOMAIN release[t]
      BY <2>5 DEF RunFile
    <3>2. pos[t] \in Files /\ release[t][pos[t]] \in Digests
      BY <3>1, FilesAreNumbers
    <3>3. applied' \in [Files -> Digests \cup {None}] /\ executed' \in [Files -> Nat]
      BY <2>5, <3>2 DEF RunFile
    <3>4. /\ pc[t] = "file" /\ pc' = [pc EXCEPT ![t] = "record"]
          /\ UNCHANGED <<pos, hand, recorded, migrator, release, seen, found, unrecorded>>
      BY <2>5 DEF RunFile
    <3>5. pc' \in [Tools -> Stages] /\ pc'[t] = "record"
      BY <3>4
    <3>6. MigrationsTypeOK'
      BY <3>3, <3>4
    <3> QED  BY <3>1, <3>4, <3>5, <3>6
  <2>6. CASE RecordFile(t)
    <3>1. release[t] \in Releases /\ pos[t] \in DOMAIN release[t]
      BY <2>6 DEF RecordFile, TInv, Places
    <3>4. release[t][pos[t]] \in Digests
      BY <3>1, FilesAreNumbers
    <3>5. recorded' \in [Files -> Digests \cup {None}]
      BY <2>6, <3>4 DEF RecordFile
    <3>2. pos' \in [Tools -> Nat] /\ pc' \in [Tools -> Stages] /\ pc'[t] = "file"
      BY <2>6 DEF RecordFile
    <3>3. found' \in [Tools -> BOOLEAN]
      BY <2>6, Zenon DEF RecordFile
    <3> QED  BY <2>6, <3>2, <3>3, <3>5 DEF RecordFile
  <2>7. CASE EndMigration(t) /\ UNCHANGED unrecorded /\ pc[t] = "file"
    BY <2>7 DEF EndMigration, Finish, Take
  <2>8. CASE AbortMigration(t)
    <3>1. unrecorded' \in [Files -> Nat]
      BY <2>8 DEF AbortMigration
    <3>2. /\ pc[t] # "save" /\ pc' = [pc EXCEPT ![t] = "idle"]
          /\ pos' = [pos EXCEPT ![t] = 0] /\ hand' = [hand EXCEPT ![t] = NoRows]
          /\ migrator' = IF migrator = t THEN None ELSE migrator
          /\ release' = [release EXCEPT ![t] = FirstRelease]
          /\ seen' = [seen EXCEPT ![t] = Blank]
          /\ found' = [found EXCEPT ![t] = FALSE]
          /\ UNCHANGED <<applied, recorded, executed>>
      BY <2>8 DEF AbortMigration, EndMigration, Finish, Take
    <3>3. pc' \in [Tools -> Stages] /\ pos' \in [Tools -> Nat] /\ pc'[t] = "idle"
      BY <3>2
    <3>4. MigrationsTypeOK'
      BY <3>1, <3>2
    <3> QED  BY <3>2, <3>3, <3>4
  <2>9. QED
    BY <2>1, <2>2, <2>3, <2>4, <2>5, <2>6, <2>7, <2>8
       DEF MigrationStep, AllFilesDone, RefuseChangedFile, AtFile
<1> HIDE DEF Steps
<1>3. TablesTypeOK'
  BY <1>1, <1>2, BlankTyped
     DEF Steps, RecoveryTypeOK, TablesTypeOK, rowVars
<1>4. SnapshotTypeOK' /\ ImportTypeOK'
  BY <1>1 DEF RecoveryTypeOK, SnapshotTypeOK, ImportTypeOK, snapshotVars,
              importVars
<1>5. Places'
  <2>1. OthersAsTheyWere(t)
    BY <1>1, OthersInMigration
  <2>2. QED
    BY <1>2, <2>1 DEF Steps, OthersAsTheyWere, AsItWas, Places, TInv, snapshotVars
<1>6. ASSUME NEW b \in Nat, IdsBelow(b)  PROVE IdsBelow(b)'
  BY <1>1, <1>2, <1>6
     DEF Steps, IdsBelow, RecoveryTypeOK, TablesTypeOK, NoRows, rowVars,
         snapshotVars
<1>7. QED  BY <1>2, <1>3, <1>4, <1>5, <1>6 DEF TInv, Steps

\* A draft with one more table.
LEMMA WithTableAdds ==
  ASSUME TablesTypeOK, MigrationsTypeOK, NEW d \in Snapshot, NEW n \in 1..3,
         d.tables = n - 1
  PROVE  LET e == WithTable(d, TableNames[n]) IN
         /\ e \in Snapshot
         /\ e.tables = n
         /\ e.rows = [devices  |-> IF n = 1 THEN devices ELSE d.rows.devices,
                      messages |-> IF n = 2 THEN messages ELSE d.rows.messages,
                      readings |-> IF n = 3 THEN readings ELSE d.rows.readings]
         /\ e.torn <=> \/ d.torn
                       \/ n > 1 /\ d.rows.devices # devices
                       \/ n > 2 /\ d.rows.messages # messages
<1> DEFINE e == WithTable(d, TableNames[n])
           name == TableNames[n]
           w == IF name = "devices" THEN applied[WideFile] # None ELSE d.wide
           o == \/ d.torn
                \/ d.tables >= 1 /\ d.rows.devices # devices
                \/ d.tables >= 2 /\ d.rows.messages # messages
           rs == CASE name = "devices" -> [d.rows EXCEPT !.devices = devices]
                   [] name = "messages" -> [d.rows EXCEPT !.messages = messages]
                   [] OTHER -> [d.rows EXCEPT !.readings = readings]
<1>1. e = [d EXCEPT !.rows = rs, !.wide = w, !.tables = d.tables + 1, !.torn = o]
  BY Zenon DEF WithTable
<1>2. w \in BOOLEAN /\ o \in BOOLEAN
  <2>1. d.wide \in BOOLEAN
    BY DEF Snapshot
  <2>2. QED  BY <2>1
<1>3. rs = [devices  |-> IF n = 1 THEN devices ELSE d.rows.devices,
            messages |-> IF n = 2 THEN messages ELSE d.rows.messages,
            readings |-> IF n = 3 THEN readings ELSE d.rows.readings]
  BY DEF TableNames, Snapshot, Rows
<1>4. rs \in Rows
  BY <1>3 DEF TablesTypeOK, Rows, Snapshot
<1> HIDE DEF e, w, o, rs
<1>5. d.tables + 1 = n /\ n \in 0..3
  OBVIOUS
<1>6. /\ e \in Snapshot /\ e.tables = n /\ e.rows = rs /\ e.torn = o
  BY <1>1, <1>2, <1>4, <1>5 DEF Snapshot
<1>7. o <=> \/ d.torn
            \/ n > 1 /\ d.rows.devices # devices
            \/ n > 2 /\ d.rows.messages # messages
  BY <1>5 DEF o
<1>8. QED  BY <1>3, <1>6, <1>7 DEF e

LEMMA MaxIsNumber ==
  ASSUME NEW b \in Nat, NEW S \in SUBSET (0..b)
  PROVE  S # {} => Max(S) \in Nat
<1> SUFFICES ASSUME S # {} PROVE Max(S) \in Nat
  OBVIOUS
<1>1. Max(S) \in S
  BY MaxInSet
<1>2. Max(S) \in 0..b
  BY <1>1
<1>3. QED  BY <1>2

LEMMA TSnapshot ==
  ASSUME TInv, NEW t \in Tools,
         \/ SnapshotStep(t)
         \/ (AbortBackup(t) \/ AbortRestore(t)) /\ UNCHANGED <<rowVars, nextId>>,
         UNCHANGED <<migrationVars, importVars>>
  PROVE  /\ TablesTypeOK' /\ MigrationsTypeOK' /\ SnapshotTypeOK'
         /\ ImportTypeOK' /\ pc' \in [Tools -> Stages]
         /\ Places' /\ \E b \in Nat : IdsBelow(b)'
<1> DEFINE Processes ==
      /\ pc' \in [Tools -> Stages] /\ pos' \in [Tools -> Nat]
      /\ IF pc'[t] = "save"
           THEN pos'[t] \in 1..4 /\ draft'[t].tables = pos'[t] - 1
           ELSE draft'[t] = NoSnapshot
      /\ pc'[t] # "record"
    Data ==
      /\ hand' \in [Tools -> Rows] /\ nextId' \in Nat
      /\ devices' \subseteq Devices /\ messages' \subseteq Message
      /\ readings' \subseteq Reading
      /\ SnapshotTypeOK'
<1>1. RecoveryTypeOK /\ Places
  BY DEF TInv
<1>2. PICK b \in Nat : IdsBelow(b)
  BY DEF TInv
<1>8. Ids(t) # {} => Max(Ids(t)) \in Nat
  <2>1. Ids(t) \subseteq 0..b
    BY <1>1, <1>2 DEF IdsBelow, Ids, RecoveryTypeOK, TablesTypeOK, Rows, Reading
  <2>2. QED  BY <2>1, MaxIsNumber
<1>9. ASSUME SaveTable(t)
      PROVE  LET e == WithTable(draft[t], TableNames[pos[t]]) IN
             /\ pos[t] \in 1..3 /\ e \in Snapshot /\ e.tables = pos[t]
             /\ e.rows.readings \in {draft[t].rows.readings, readings}
  <2>1. pos[t] \in 1..3 /\ draft[t].tables = pos[t] - 1
    BY <1>1, <1>9 DEF SaveTable, Places, TableNames
  <2>2. TablesTypeOK /\ MigrationsTypeOK /\ draft[t] \in Snapshot
    BY <1>1 DEF RecoveryTypeOK, SnapshotTypeOK
  <2> DEFINE d == draft[t]
             e == WithTable(d, TableNames[pos[t]])
  <2> HIDE DEF d
  <2>3. /\ e \in Snapshot
        /\ e.tables = pos[t]
        /\ e.rows = [devices  |-> IF pos[t] = 1 THEN devices ELSE d.rows.devices,
                     messages |-> IF pos[t] = 2 THEN messages ELSE d.rows.messages,
                     readings |-> IF pos[t] = 3 THEN readings ELSE d.rows.readings]
    BY <2>1, <2>2, WithTableAdds DEF d
  <2> HIDE DEF e
  <2>4. e.rows.readings \in {d.rows.readings, readings}
    BY <2>3
  <2>5. QED  BY <2>1, <2>3, <2>4 DEF d, e
<1>3. Processes /\ Data /\ IdsBelow(b)'
  <2> USE <1>1, <1>2, BlankTyped
      DEF RecoveryTypeOK, TablesTypeOK, SnapshotTypeOK, Stages, RestoreStages,
          Begin, GoTo, MoveTo, Take, snapshotVars, rowVars, IdsBelow
  <2>1. ASSUME StartBackup(t), UNCHANGED <<rowVars, nextId>>
        PROVE  Processes /\ Data /\ IdsBelow(b)'
    <3>1. pc[t] = "idle" /\ draft[t] = NoSnapshot
      BY <2>1 DEF StartBackup, Places
    <3> QED  BY <2>1, <3>1 DEF StartBackup, NoSnapshot
  <2>2. ASSUME SaveTable(t), UNCHANGED <<rowVars, nextId>>
        PROVE  Processes /\ Data /\ IdsBelow(b)'
    <3>1. pc[t] = "save" /\ pos[t] \in 1..3 /\ draft[t].tables = pos[t] - 1
      BY <2>2 DEF SaveTable, Places, TableNames
    <3> DEFINE e == WithTable(draft[t], TableNames[pos[t]])
    <3>2. /\ e \in Snapshot /\ e.tables = pos[t]
          /\ e.rows.readings \in {draft[t].rows.readings, readings}
      BY <1>9, <2>2
    <3>3. /\ draft' = [draft EXCEPT ![t] = e]
          /\ pos' = [pos EXCEPT ![t] = pos[t] + 1]
          /\ UNCHANGED <<pc, hand, file, source, restorer, mixed>>
      BY <2>2 DEF SaveTable
    <3> HIDE DEF e
    <3>4. Processes
      BY <3>1, <3>2, <3>3
    <3>5. Data
      BY <2>2, <3>2, <3>3
    <3>6. IdsBelow(b)'
      BY <2>2, <3>2, <3>3
    <3> QED  BY <3>4, <3>5, <3>6
  <2>3. ASSUME EndBackup(t), file' \in {file, draft[t]}, UNCHANGED <<rowVars, nextId>>
        PROVE  Processes /\ Data /\ IdsBelow(b)'
    <3>1. Processes
      BY <2>3 DEF EndBackup, Finish
    <3>2. Data
      BY <2>3 DEF EndBackup, Finish
    <3>3. IdsBelow(b)'
      BY <2>3 DEF EndBackup, Finish, NoRows, NoSnapshot
    <3> QED  BY <3>1, <3>2, <3>3
  <2>4. ASSUME OpenFile(t), UNCHANGED <<rowVars, nextId>>
        PROVE  Processes /\ Data /\ IdsBelow(b)'
    BY <2>4 DEF OpenFile, Places
  <2>5. ASSUME LockTarget(t), UNCHANGED <<rowVars, nextId>>
        PROVE  Processes /\ Data /\ IdsBelow(b)'
    BY <2>5 DEF LockTarget, Places
  <2>6. ASSUME LoadTable(t), UNCHANGED <<rowVars, nextId>>
        PROVE  Processes /\ Data /\ IdsBelow(b)'
    <3> DEFINE l == Loaded(t, TableNames[pos[t]])
    <3>1. l \in Rows /\ l.readings \in {hand[t].readings, source[t].rows.readings}
      BY DEF Loaded, Rows, Snapshot
    <3>2. /\ hand' = [hand EXCEPT ![t] = l] /\ pc[t] = "load"
          /\ pos' = [pos EXCEPT ![t] = pos[t] + 1] /\ UNCHANGED <<pc, snapshotVars>>
      BY <2>6 DEF LoadTable, AtTable
    <3> HIDE DEF l
    <3>5. draft[t] = NoSnapshot
      BY <3>2 DEF Places
    <3>3. Processes /\ Data
      BY <2>6, <3>1, <3>2, <3>5
    <3>4. IdsBelow(b)'
      BY <2>6, <3>1, <3>2
    <3> QED  BY <3>3, <3>4
  <2>7. ASSUME SetSequence(t), UNCHANGED rowVars
        PROVE  Processes /\ Data /\ IdsBelow(b)'
    <3>1. nextId' \in Nat
      BY <1>8, <2>7 DEF SetSequence
    <3>2. Processes /\ Data /\ IdsBelow(b)'
      BY <2>7, <3>1 DEF SetSequence, Places
    <3> QED  BY <3>2
  <2>8. ASSUME EndRestore(t), pc[t] \in RestoreStages, mixed' = mixed, nextId' = nextId,
               UNCHANGED rowVars \/ Commit(t)
        PROVE  Processes /\ Data /\ IdsBelow(b)'
    <3>1. /\ devices' \subseteq Devices /\ messages' \subseteq Message
          /\ readings' \subseteq Reading
          /\ readings' \subseteq readings \cup hand[t].readings
      BY <2>8 DEF Commit, Rows
    <3>4. draft[t] = NoSnapshot
      BY <2>8 DEF Places
    <3>2. Processes /\ Data
      BY <2>8, <3>1, <3>4 DEF EndRestore, Finish
    <3>3. IdsBelow(b)'
      BY <2>8, <3>1 DEF EndRestore, Finish, NoRows, NoSnapshot
    <3> QED  BY <3>2, <3>3
  <2>10. AtTable(t) \/ pc[t] \in {"open", "commit"} => pc[t] \in RestoreStages
    BY DEF AtTable
  <2> HIDE DEF Processes, Data
  <2>9. QED
    BY <2>1, <2>2, <2>3, <2>4, <2>5, <2>6, <2>7, <2>8, <2>10
       DEF SnapshotStep, RefuseBackup, ReplaceFile, RefuseTarget, RefuseTable,
           CommitRestore, AbortBackup, AbortRestore
<1> HIDE DEF Processes, Data
<1>4. TablesTypeOK' /\ SnapshotTypeOK' /\ pc' \in [Tools -> Stages]
  BY <1>3 DEF Processes, Data, TablesTypeOK
<1>5. MigrationsTypeOK' /\ ImportTypeOK'
  BY <1>1 DEF RecoveryTypeOK, MigrationsTypeOK, ImportTypeOK, migrationVars,
              importVars
<1>6. Places'
  <2>1. OthersAsTheyWere(t)
    BY <1>1, OthersInSnapshot
  <2>2. QED
    BY <1>1, <1>3, <2>1 DEF Processes, OthersAsTheyWere, AsItWas, Places
<1>7. QED  BY <1>3, <1>4, <1>5, <1>6

\* What is inserted gets the number of the sequence.
LEMMA ConvertedTyped ==
  ASSUME TInv, NEW t \in Tools
  PROVE  Converted(t) \in Message
BY DEF TInv, RecoveryTypeOK, TablesTypeOK, ImportTypeOK, Converted, Message

LEMMA TImport ==
  ASSUME TInv, NEW t \in Tools,
         \/ ImportStep(t) /\ mixed' \in BOOLEAN
         \/ AbortImport(t) /\ mixed' = mixed,
         UNCHANGED <<migrationVars, file, draft, source, restorer>>
  PROVE  /\ TablesTypeOK' /\ MigrationsTypeOK' /\ SnapshotTypeOK'
         /\ ImportTypeOK' /\ pc' \in [Tools -> Stages]
         /\ Places' /\ \E b \in Nat : IdsBelow(b)'
<1> DEFINE Processes ==
      /\ pc' \in [Tools -> Stages] /\ pos' \in [Tools -> Nat]
      /\ pc[t] # "save" /\ pc'[t] \notin {"save", "record"}
    Data ==
      /\ hand' \in [Tools -> Rows] /\ nextId' \in Nat
      /\ devices' \subseteq Devices /\ messages' \subseteq Message
      /\ readings' \subseteq Reading
      /\ ImportTypeOK'
<1>1. RecoveryTypeOK /\ Places
  BY DEF TInv
<1>2. PICK b \in Nat : IdsBelow(b)
  BY DEF TInv
<1>3. PICK top \in Nat : nextId <= top /\ \A i \in Nat : i <= b => i <= top
  <2>1. nextId \in Nat
    BY <1>1 DEF RecoveryTypeOK, TablesTypeOK
  <2>2. b + nextId \in Nat /\ nextId <= b + nextId
        /\ \A i \in Nat : i <= b => i <= b + nextId
    BY <2>1
  <2>3. QED  BY <2>2
<1>4. Processes /\ Data /\ IdsBelow(top)'
  <2>1. IdsBelow(top)
    <3>1. ASSUME NEW S \in SUBSET Reading, \A r \in S : r.id <= b
          PROVE  \A r \in S : r.id <= top
      BY <1>3, <3>1 DEF Reading
    <3>2. /\ readings \in SUBSET Reading
          /\ \A u \in Tools : /\ hand[u].readings \in SUBSET Reading
                              /\ draft[u].rows.readings \in SUBSET Reading
                              /\ source[u].rows.readings \in SUBSET Reading
          /\ file # NoFile => file.rows.readings \in SUBSET Reading
      BY <1>1 DEF RecoveryTypeOK, TablesTypeOK, SnapshotTypeOK, Snapshot, Rows
    <3>3. QED  BY <1>2, <3>1, <3>2 DEF IdsBelow
  <2>2. nextId <= top
    BY <1>3
  <2>3. Converted(t) \in Message
    BY ConvertedTyped
  <2> USE <1>1, <1>3, <2>1, BlankTyped
      DEF RecoveryTypeOK, TablesTypeOK, ImportTypeOK, Stages, ImportStages,
          Begin, GoTo, MoveTo, Take, rowVars, importVars, IdsBelow
  <2>4. CASE StartImport(t)
    BY <2>4 DEF StartImport
  <2>5. CASE SkipDuplicate(t)
    BY <2>5 DEF SkipDuplicate, AtRow
  <2>6. CASE InsertRow(t)
    <3> DEFINE new == [id |-> nextId, msg |-> Converted(t)]
               h == [hand[t] EXCEPT !.messages = @ \cup {Converted(t)},
                                    !.readings = @ \cup {new}]
    <3>1. new \in Reading /\ new.id = nextId
      BY <2>3 DEF Reading
    <3>2. h \in Rows /\ h.readings = hand[t].readings \cup {new}
      BY <2>3, <3>1 DEF Rows
    <3>3. /\ hand' = [hand EXCEPT ![t] = h] /\ nextId' = nextId + 1
          /\ pc[t] \in ImportStages /\ pc' = [pc EXCEPT ![t] = "row"]
          /\ pos' = [pos EXCEPT ![t] = pos[t] + 1]
          /\ UNCHANGED <<rowVars, importVars>>
      BY <2>6 DEF InsertRow, AtRow
    <3> HIDE DEF h, new
    <3>4. Processes /\ Data
      BY <3>2, <3>3
    <3>5. IdsBelow(top)'
      BY <2>2, <3>1, <3>2, <3>3
    <3> QED  BY <3>4, <3>5
  <2>7. CASE CommitBatch(t)
    <3>1. /\ devices' \subseteq Devices /\ messages' \subseteq Message
          /\ readings' \subseteq Reading
          /\ readings' \subseteq readings \cup hand[t].readings
      BY <2>7 DEF CommitBatch, Commit, Rows
    <3>2. Processes /\ Data
      BY <2>7, <3>1 DEF CommitBatch, BatchFull
    <3>3. IdsBelow(top)'
      BY <2>7, <3>1 DEF CommitBatch, NoRows
    <3> QED  BY <3>2, <3>3
  <2>8. ASSUME Finish(t), pc[t] \in ImportStages, nextId' \in {nextId, nextId + 1},
               completed' \subseteq Zones \X Devices,
               UNCHANGED <<rowVars, target, zone>>
        PROVE  Processes /\ Data /\ IdsBelow(top)'
    <3>1. Processes /\ Data
      BY <2>8 DEF Finish
    <3>2. IdsBelow(top)'
      BY <2>8 DEF Finish, NoRows
    <3> QED  BY <3>1, <3>2
  <2>9. <<zone[t], target[t]>> \in Zones \X Devices /\ completed \subseteq Zones \X Devices
    OBVIOUS
  <2> HIDE DEF Processes, Data
  <2>10. QED
    BY <2>4, <2>5, <2>6, <2>7, <2>8, <2>9
       DEF ImportStep, RefuseRow, ReadingClashes, ReportCompleted, AbortImport, AtRow
<1> HIDE DEF Processes, Data
<1>5. TablesTypeOK' /\ ImportTypeOK' /\ pc' \in [Tools -> Stages]
  BY <1>4 DEF Processes, Data, TablesTypeOK
<1>6. MigrationsTypeOK' /\ SnapshotTypeOK'
  BY <1>1 DEF RecoveryTypeOK, MigrationsTypeOK, SnapshotTypeOK, migrationVars
<1>7. Places'
  <2>1. OthersAsTheyWere(t)
    BY <1>1, OthersInImport
  <2>2. QED
    BY <1>1, <1>4, <2>1 DEF Processes, OthersAsTheyWere, AsItWas, Places
<1>8. QED  BY <1>3, <1>4, <1>5, <1>6, <1>7

LEMMA TInUse ==
  ASSUME TInv, InUse
  PROVE  /\ TablesTypeOK' /\ MigrationsTypeOK' /\ SnapshotTypeOK'
         /\ ImportTypeOK' /\ pc' \in [Tools -> Stages]
         /\ Places' /\ \E b \in Nat : IdsBelow(b)'
<1>1. RecoveryTypeOK /\ Places
  BY DEF TInv
<1>2. PICK b \in Nat : IdsBelow(b)
  BY DEF TInv
<1>3. PICK top \in Nat : nextId <= top /\ \A i \in Nat : i <= b => i <= top
  <2>1. nextId \in Nat
    BY <1>1 DEF RecoveryTypeOK, TablesTypeOK
  <2>2. b + nextId \in Nat /\ nextId <= b + nextId
        /\ \A i \in Nat : i <= b => i <= b + nextId
    BY <2>1
  <2>3. QED  BY <2>2
<1>4. /\ UNCHANGED <<processVars, migrationVars, file, draft, source, restorer>>
      /\ UNCHANGED <<importVars, boundVars>>
  BY DEF InUse
<1>5. /\ devices' \subseteq Devices /\ messages' \subseteq Message
      /\ readings' \subseteq Reading /\ nextId' \in Nat /\ mixed' \in BOOLEAN
      /\ \A r \in readings' : r \in readings \/ r.id = nextId
  <2> USE <1>1 DEF RecoveryTypeOK, TablesTypeOK, SnapshotTypeOK
  <2>1. ASSUME NEW d \in Devices, Register(d)
        PROVE  /\ devices' \subseteq Devices /\ messages' \subseteq Message
               /\ readings' \subseteq Reading /\ nextId' \in Nat /\ mixed' \in BOOLEAN
               /\ \A r \in readings' : r \in readings \/ r.id = nextId
    BY <2>1 DEF Register
  <2>2. ASSUME NEW d \in Devices, NEW n \in LiveSeqs, StoreLive(d, n)
        PROVE  /\ devices' \subseteq Devices /\ messages' \subseteq Message
               /\ readings' \subseteq Reading /\ nextId' \in Nat /\ mixed' \in BOOLEAN
               /\ \A r \in readings' : r \in readings \/ r.id = nextId
    <3> DEFINE m == [origin |-> "ver3", row |-> n, zone |-> NoZone, dev |-> d]
               new == [id |-> nextId, msg |-> m]
    <3>1. m \in Message
      BY RecoveryAssumption DEF Message
    <3>2. new \in Reading /\ new.id = nextId
      BY <3>1 DEF Reading
    <3>3. mixed' \in BOOLEAN
      BY <2>2 DEF StoreLive, NoteMixed
    <3>4. /\ UNCHANGED devices /\ nextId' = nextId + 1
          /\ \/ UNCHANGED <<messages, readings>>
             \/ messages' = messages \cup {m} /\ readings' = readings \cup {new}
      BY <2>2 DEF StoreLive
    <3> HIDE DEF m, new
    <3>5. QED  BY <3>1, <3>2, <3>3, <3>4
  <2>3. QED  BY <2>1, <2>2 DEF InUse
<1>6. TablesTypeOK' /\ SnapshotTypeOK'
  BY <1>1, <1>4, <1>5 DEF RecoveryTypeOK, TablesTypeOK, SnapshotTypeOK, processVars
<1>7. MigrationsTypeOK' /\ ImportTypeOK' /\ pc' \in [Tools -> Stages] /\ Places'
  BY <1>1, <1>4 DEF RecoveryTypeOK, MigrationsTypeOK, ImportTypeOK, Places,
                    processVars, migrationVars, importVars
<1>8. IdsBelow(top)'
  <2>1. ASSUME NEW S \in SUBSET Reading, \A r \in S : r.id <= b
        PROVE  \A r \in S : r.id <= top
    BY <1>3, <2>1 DEF Reading
  <2>2. /\ readings \in SUBSET Reading
        /\ \A u \in Tools : /\ hand[u].readings \in SUBSET Reading
                            /\ draft[u].rows.readings \in SUBSET Reading
                            /\ source[u].rows.readings \in SUBSET Reading
        /\ file # NoFile => file.rows.readings \in SUBSET Reading
    BY <1>1 DEF RecoveryTypeOK, TablesTypeOK, SnapshotTypeOK, Snapshot, Rows
  <2>3. IdsBelow(top)
    BY <1>2, <2>1, <2>2 DEF IdsBelow
  <2>4. QED  BY <1>3, <1>4, <1>5, <2>3 DEF IdsBelow, processVars
<1>9. QED  BY <1>6, <1>7, <1>8

LEMMA TLose ==
  ASSUME TInv, LoseDatabase
  PROVE  /\ TablesTypeOK' /\ MigrationsTypeOK' /\ SnapshotTypeOK'
         /\ ImportTypeOK' /\ pc' \in [Tools -> Stages]
         /\ Places' /\ \E b \in Nat : IdsBelow(b)'
<1> USE BlankTyped DEF LoseDatabase
<1>1. RecoveryTypeOK /\ Places
  BY DEF TInv
<1>2. PICK b \in Nat : IdsBelow(b)
  BY DEF TInv
<1>3. TablesTypeOK' /\ MigrationsTypeOK'
  BY DEF TablesTypeOK, MigrationsTypeOK
<1>4. SnapshotTypeOK' /\ ImportTypeOK'
  BY <1>1 DEF RecoveryTypeOK, SnapshotTypeOK, ImportTypeOK
<1>5. pc' \in [Tools -> Stages] /\ Places'
  BY DEF Stages, Places
<1>6. IdsBelow(b)'
  BY <1>2 DEF IdsBelow, NoRows, NoSnapshot
<1>7. QED  BY <1>3, <1>4, <1>5, <1>6

LEMMA TStep == TInv /\ [Next]_vars => TInv'
<1> SUFFICES ASSUME TInv, [Next]_vars PROVE TInv'
  OBVIOUS
<1>1. RecoveryTypeOK
  BY DEF TInv
<1>2. CASE Next
  <2>1. ASSUME NEW t \in Tools, ToolStep(t) \/ ToolDies(t)
        PROVE  /\ TablesTypeOK' /\ MigrationsTypeOK' /\ SnapshotTypeOK'
               /\ ImportTypeOK' /\ pc' \in [Tools -> Stages]
               /\ Places' /\ \E b \in Nat : IdsBelow(b)'
    <3>1. mixed' \in BOOLEAN \/ ~NoteMixed
      BY DEF NoteMixed
    <3>2. CASE /\ MigrationStep(t) \/ AbortMigration(t)
               /\ UNCHANGED <<rowVars, nextId, snapshotVars, importVars>>
      BY <3>2, TMigration
    <3>3. CASE /\ \/ SnapshotStep(t)
                  \/ (AbortBackup(t) \/ AbortRestore(t)) /\ UNCHANGED <<rowVars, nextId>>
               /\ UNCHANGED <<migrationVars, importVars>>
      BY <3>3, TSnapshot
    <3>4. CASE /\ \/ ImportStep(t) /\ mixed' \in BOOLEAN
                  \/ AbortImport(t) /\ mixed' = mixed
               /\ UNCHANGED <<migrationVars, file, draft, source, restorer>>
      BY <3>4, TImport
    <3>5. QED
      BY <2>1, <3>1, <3>2, <3>3, <3>4 DEF ToolStep, ToolDies, snapshotVars
  <2>2. /\ TablesTypeOK' /\ MigrationsTypeOK' /\ SnapshotTypeOK'
        /\ ImportTypeOK' /\ pc' \in [Tools -> Stages]
        /\ Places' /\ \E b \in Nat : IdsBelow(b)'
    BY <1>2, <2>1, TInUse, TLose DEF Next
  <2>3. runs' \in 0..MaxRuns /\ faults' \in 0..MaxFaults /\ losses' \in 0..MaxLosses
    <3> USE <1>1, RecoveryAssumption DEF RecoveryTypeOK
    <3>1. ASSUME NEW t \in Tools, ToolStep(t)
          PROVE  runs' \in 0..MaxRuns /\ UNCHANGED <<faults, losses>>
      BY <3>1 DEF ToolStep
    <3>2. ASSUME NEW t \in Tools, ToolDies(t)
          PROVE  faults' \in 0..MaxFaults /\ UNCHANGED <<runs, losses>>
      BY <3>2 DEF ToolDies
    <3>3. CASE InUse
      BY <3>3 DEF InUse, boundVars
    <3>4. CASE LoseDatabase
      BY <3>4 DEF LoseDatabase
    <3>5. QED  BY <1>2, <3>1, <3>2, <3>3, <3>4 DEF Next
  <2>4. QED  BY <2>2, <2>3 DEF TInv, RecoveryTypeOK
<1>3. CASE UNCHANGED vars
  <2>1. UNCHANGED <<rowVars, nextId, processVars, migrationVars, snapshotVars>>
        /\ UNCHANGED <<importVars, boundVars>>
    BY <1>3 DEF vars
  <2>2. RecoveryTypeOK'
    BY <1>1, <2>1 DEF RecoveryTypeOK, TablesTypeOK, MigrationsTypeOK, SnapshotTypeOK,
         ImportTypeOK, rowVars, processVars, migrationVars, snapshotVars,
         importVars, boundVars
  <2>3. Places' /\ \E b \in Nat : IdsBelow(b)'
    BY <2>1 DEF TInv, Places, IdsBelow, rowVars, processVars, migrationVars,
                snapshotVars
  <2>4. QED  BY <2>2, <2>3 DEF TInv
<1>4. QED  BY <1>2, <1>3

(* Every variable of the maintenance tools keeps its type: the numbers a   *)
(* restore computes from MAX(id), the files a migration comes to, and what *)
(* each process holds.                                                     *)
THEOREM RecoveryTypeCorrect == Spec => []RecoveryTypeOK
<1>1. TInv => RecoveryTypeOK
  BY DEF TInv
<1>2. QED  BY TInit, TStep, <1>1, PTL DEF Spec

LEMMA TAlways == Spec => []TInv
BY TInit, TStep, PTL DEF Spec

-----------------------------------------------------------------------------
\* The advisory locks.

LEMMA LInit == Init => LocksHeld
BY TablesAssumption
   DEF Init, TablesInit, MigrationsInit, SnapshotInit, LocksHeld, MigrationStages

\* Which locked stages a step leaves and enters.
LEMMA StagesOfMigration ==
  ASSUME RecoveryTypeOK, NEW t \in Tools, MigrationStep(t) \/ AbortMigration(t)
  PROVE  /\ pc[t] = "idle" \/ pc[t] \in MigrationStages
         /\ pc[t] = "idle" => migrator = None /\ migrator' = t /\ pc'[t] = "inspect"
         /\ pc[t] # "idle" /\ pc'[t] \in MigrationStages => migrator' = migrator
         /\ pc'[t] \notin MigrationStages =>
              /\ pc'[t] = "idle"
              /\ migrator' = IF migrator = t THEN None ELSE migrator
<1> USE DEF RecoveryTypeOK, MigrationStages, Begin, GoTo, AtFile, migrationVars
<1>1. CASE LockMigrations(t)
  BY <1>1 DEF LockMigrations
<1>2. CASE Inspect(t) \/ SkipFile(t) \/ AdoptFile(t) \/ RunFile(t) \/ RecordFile(t)
  BY <1>2 DEF Inspect, SkipFile, AdoptFile, RunFile, RecordFile
<1>3. CASE EndMigration(t) /\ pc[t] \in MigrationStages
  BY <1>3 DEF EndMigration, Finish
<1>4. QED
  BY <1>1, <1>2, <1>3
     DEF MigrationStep, AllFilesDone, RefuseChangedFile, AbortMigration

LEMMA StagesOfSnapshot ==
  ASSUME RecoveryTypeOK, NEW t \in Tools,
         SnapshotStep(t) \/ AbortBackup(t) \/ AbortRestore(t)
  PROVE  /\ pc[t] \notin MigrationStages /\ pc'[t] \notin MigrationStages
         /\ pc[t] \in {"idle", "save", "open"} =>
              \/ restorer = None /\ restorer' = t /\ pc'[t] = "load"
              \/ /\ restorer' \in {restorer, IF restorer = t THEN None ELSE restorer}
                 /\ pc'[t] \in {"idle", "save", "open"}
         /\ pc[t] \notin {"idle", "save", "open"} => pc[t] \in {"load", "commit"}
         /\ pc[t] \notin {"idle", "save", "open"} =>
              \/ restorer' = restorer /\ pc'[t] \in {"load", "commit"}
              \/ /\ restorer' = IF restorer = t THEN None ELSE restorer
                 /\ pc'[t] = "idle"
<1> USE DEF RecoveryTypeOK, MigrationStages, RestoreStages, Begin, GoTo,
            AtTable, snapshotVars
<1>1. CASE StartBackup(t) \/ SaveTable(t) \/ OpenFile(t)
  BY <1>1 DEF StartBackup, SaveTable, OpenFile
<1>2. CASE EndBackup(t) /\ pc[t] = "save"
  BY <1>2 DEF EndBackup, Finish
<1>3. CASE LockTarget(t)
  BY <1>3 DEF LockTarget
<1>4. CASE LoadTable(t) \/ SetSequence(t)
  BY <1>4 DEF LoadTable, SetSequence
<1>5. CASE EndRestore(t) /\ pc[t] \in RestoreStages
  BY <1>5 DEF EndRestore, Finish
<1>6. QED
  BY <1>1, <1>2, <1>3, <1>4, <1>5
     DEF SnapshotStep, RefuseBackup, ReplaceFile, RefuseTarget, RefuseTable,
         CommitRestore, AbortBackup, AbortRestore

LEMMA StagesOfImport ==
  ASSUME RecoveryTypeOK, NEW t \in Tools, ImportStep(t) \/ AbortImport(t)
  PROVE  /\ pc[t] \in {"idle"} \cup ImportStages
         /\ pc'[t] \in {"idle"} \cup ImportStages
<1> USE DEF RecoveryTypeOK, ImportStages, Begin, GoTo, AtRow, BatchFull, Finish
<1>1. CASE StartImport(t)
  BY <1>1 DEF StartImport
<1>2. CASE SkipDuplicate(t) \/ InsertRow(t)
  BY <1>2 DEF SkipDuplicate, InsertRow
<1>3. CASE RefuseRow(t) \/ ReadingClashes(t)
  BY <1>3 DEF RefuseRow, ReadingClashes
<1>4. CASE CommitBatch(t) \/ ReportCompleted(t) \/ AbortImport(t)
  BY <1>4 DEF CommitBatch, ReportCompleted, AbortImport
<1>5. QED  BY <1>1, <1>2, <1>3, <1>4 DEF ImportStep

LEMMA LStep == TInv /\ LocksHeld /\ [Next]_vars => LocksHeld'
<1> SUFFICES ASSUME TInv, LocksHeld, [Next]_vars PROVE LocksHeld'
  OBVIOUS
<1>1. RecoveryTypeOK /\ None \notin Tools
  BY TablesAssumption DEF TInv
<1>2. ASSUME NEW t \in Tools, ToolStep(t) \/ ToolDies(t)
      PROVE  LocksHeld'
  <2>1. \A u \in Tools \ {t} : pc'[u] = pc[u]
    BY <1>1, <1>2, Others DEF OthersAsTheyWere, AsItWas
  <2>2. CASE (MigrationStep(t) \/ AbortMigration(t)) /\ UNCHANGED restorer
    BY <1>1, <2>1, <2>2, StagesOfMigration DEF LocksHeld, MigrationStages
  <2>3. CASE /\ SnapshotStep(t) \/ AbortBackup(t) \/ AbortRestore(t)
             /\ UNCHANGED migrator
    <3>1. \A u \in Tools : pc'[u] \in MigrationStages <=> migrator' = u
      BY <1>1, <2>1, <2>3, StagesOfSnapshot DEF LocksHeld
    <3>2. CASE pc[t] \in {"idle", "save", "open"}
      <4>1. restorer # t
        BY <3>2 DEF LocksHeld
      <4>2. CASE restorer = None /\ restorer' = t /\ pc'[t] = "load"
        BY <1>1, <2>1, <3>1, <4>2 DEF LocksHeld
      <4>3. CASE restorer' = restorer /\ pc'[t] \in {"idle", "save", "open"}
        BY <2>1, <3>1, <4>1, <4>3 DEF LocksHeld
      <4>4. QED  BY <1>1, <2>3, <3>2, <4>1, <4>2, <4>3, StagesOfSnapshot
    <3>3. CASE pc[t] \notin {"idle", "save", "open"}
      <4>1. pc[t] \in {"load", "commit"}
        BY <1>1, <2>3, <3>3, StagesOfSnapshot
      <4>2. restorer = t
        BY <4>1 DEF LocksHeld
      <4>3. CASE restorer' = restorer /\ pc'[t] \in {"load", "commit"}
        BY <2>1, <3>1, <4>2, <4>3 DEF LocksHeld
      <4>4. CASE restorer' = None /\ pc'[t] = "idle"
        BY <1>1, <2>1, <3>1, <4>2, <4>4 DEF LocksHeld
      <4>5. QED  BY <1>1, <2>3, <3>3, <4>2, <4>3, <4>4, StagesOfSnapshot
    <3>4. QED  BY <3>2, <3>3
  <2>4. CASE (ImportStep(t) \/ AbortImport(t)) /\ UNCHANGED <<migrator, restorer>>
    BY <1>1, <2>1, <2>4, StagesOfImport DEF LocksHeld, MigrationStages, ImportStages
  <2>5. QED
    BY <1>2, <2>2, <2>3, <2>4 DEF ToolStep, ToolDies, snapshotVars, migrationVars
<1>3. CASE LoseDatabase
  BY <1>1, <1>3 DEF LoseDatabase, LocksHeld, MigrationStages
<1>4. CASE UNCHANGED <<pc, migrator, restorer>>
  BY <1>4 DEF LocksHeld
<1>5. QED
  BY <1>2, <1>3, <1>4
     DEF Next, InUse, vars, processVars, migrationVars, snapshotVars

LEMMA LAlways == Spec => []LocksHeld
BY TAlways, LInit, LStep, PTL DEF Spec

-----------------------------------------------------------------------------
\* Migrations.

LEMMA GInit == Init => GInv
<1> SUFFICES ASSUME Init PROVE GInv
  OBVIOUS
<1>1. /\ \A t \in Tools : pc[t] = "idle"
      /\ \A f \in Files : executed[f] = 0 /\ unrecorded[f] = 0
  BY DEF Init, TablesInit, MigrationsInit
<1>2. \A f, g \in Files : recorded[g] # None /\ f < g => recorded[f] # None
  <2>1. ASSUME NEW r \in Earlier, NEW f \in Files, NEW g \in Files,
               MigratedBy(r)[g] # None, f < g
        PROVE  MigratedBy(r)[f] # None
    <3>1. r \in Seq(Digests)
      BY MigrationsAssumption
    <3>2. g \in DOMAIN r /\ f \in Nat \ {0} /\ g \in Nat
      BY <2>1, FilesAreNumbers DEF MigratedBy
    <3>3. f \in DOMAIN r /\ r[f] \in Digests
      BY <2>1, <3>1, <3>2
    <3>4. QED  BY <3>3, MigrationsAssumption DEF MigratedBy
  <2>2. QED  BY <2>1 DEF Init, MigrationsInit, Blank
<1>3. /\ \A f \in Files : recorded[f] \in {None, applied[f]}
      /\ \/ \A f \in Files : recorded[f] = applied[f]
         \/ \A f \in Files : applied[f] # None => f = 1
  <2>1. CASE applied = Blank /\ recorded = Blank
    BY <2>1 DEF Blank
  <2>2. ASSUME NEW r \in Earlier, applied = MigratedBy(<<r[1]>>), recorded = Blank
        PROVE  /\ \A f \in Files : recorded[f] = None
               /\ \A f \in Files : applied[f] # None => f = 1
    <3>1. DOMAIN <<r[1]>> = {1}
      OBVIOUS
    <3>2. QED  BY <2>2, <3>1 DEF Blank, MigratedBy
  <2>3. CASE recorded = applied
    BY <2>3
  <2>4. QED  BY <2>1, <2>2, <2>3 DEF Init, MigrationsInit
<1>4. FilesInOrder
  <2>1. 1 \in Files /\ Files \subseteq Nat \ {0}
    BY FilesAreNumbers
  <2>2. \A f, g \in Files : f < g => g # 1
    BY <2>1
  <2>3. \A f \in Files, g \in Files : f < g /\ applied[g] # None => recorded[f] # None
    BY <1>2, <1>3, <2>2
  <2>4. QED  BY <1>1, <1>3, <2>1, <2>3 DEF FilesInOrder
<1>5. RunsCounted
  BY <1>1, FilesAreNumbers DEF RunsCounted
<1>6. \A t \in Tools : Knows(t)
  BY <1>1 DEF Knows
<1>7. QED  BY <1>4, <1>5, <1>6 DEF GInv

\* A process that does not migrate changes nothing of this.
LEMMA GFrame ==
  ASSUME GInv, UNCHANGED migrationVars,
         NEW t \in Tools, OthersAsTheyWere(t),
         pc[t] \notin MigrationStages, pc'[t] \notin MigrationStages
  PROVE  GInv'
<1>1. \A f : Pending(f)' <=> Pending(f)
  BY DEF Pending, OthersAsTheyWere, AsItWas, MigrationStages
<1>2. FilesInOrder' /\ RunsCounted'
  BY <1>1 DEF GInv, FilesInOrder, RunsCounted, migrationVars
<1>3. \A u \in Tools : Knows(u)'
  BY DEF GInv, Knows, OthersAsTheyWere, AsItWas, MigrationStages, migrationVars, HasTables
<1>4. QED  BY <1>2, <1>3 DEF GInv

\* From one file to the next.
LEMMA NextPlace ==
  ASSUME NEW m \in Nat, NEW n \in 1..m
  PROVE  /\ n + 1 \in Nat \ {0} /\ n + 1 # 1 /\ n + 1 <= m + 1
         /\ \A f \in Nat : f >= n + 1 => f >= n
         /\ \A f \in Nat : f < n + 1 => f < n \/ f = n
OBVIOUS

\* No other process migrates.
LEMMA Alone ==
  ASSUME RecoveryTypeOK, LocksHeld, NEW t \in Tools,
         MigrationStep(t) \/ AbortMigration(t)
  PROVE  \A u \in Tools \ {t} : pc[u] \notin MigrationStages
BY StagesOfMigration, TablesAssumption DEF LocksHeld

LEMMA GMigration ==
  ASSUME TInv, LocksHeld, GInv, NEW t \in Tools,
         MigrationStep(t) \/ AbortMigration(t),
         UNCHANGED <<snapshotVars, importVars>>
  PROVE  GInv'
<1>1. RecoveryTypeOK
  BY DEF TInv
<1>2. \A u \in Tools \ {t} :
        pc[u] \notin MigrationStages /\ pc'[u] \notin MigrationStages
  BY <1>1, Alone, OthersInMigration DEF OthersAsTheyWere, AsItWas
<1>3. /\ \A u \in Tools \ {t} : Knows(u)'
      /\ \A f : Pending(f) <=> pc[t] = "record" /\ pos[t] = f
      /\ \A f : Pending(f)' <=> pc'[t] = "record" /\ pos'[t] = f
  BY <1>2 DEF Knows, Pending, MigrationStages
<1>4. SUFFICES FilesInOrder' /\ RunsCounted' /\ Knows(t)'
  BY <1>3 DEF GInv
<1>5. /\ pos[t] \in Nat /\ release[t] \in Releases /\ release[t] \in Seq(Digests)
      /\ Files \subseteq Nat \ {0} /\ 1 \in Files /\ DOMAIN release[t] \subseteq Files
      /\ DOMAIN release[t] = 1..Len(release[t]) /\ Len(release[t]) \in Nat
      /\ \A f \in DOMAIN release[t] : release[t][f] \in Digests /\ release[t][f] # None
  <2>1. pos[t] \in Nat /\ release[t] \in Releases
    BY <1>1 DEF RecoveryTypeOK, TablesTypeOK, MigrationsTypeOK
  <2>2. release[t] \in Seq(Digests)
    BY <2>1, FilesAreNumbers
  <2>3. QED  BY <2>1, <2>2, FilesAreNumbers
<1>6. FilesInOrder /\ RunsCounted /\ Knows(t)
  BY DEF GInv
<1> USE <1>1, <1>3, <1>5, <1>6
    DEF RecoveryTypeOK, TablesTypeOK, MigrationsTypeOK, GoTo, MoveTo, Begin,
        migrationVars, MigrationStages
<1>7. CASE LockMigrations(t)
  <2>1. FilesInOrder' /\ RunsCounted'
    BY <1>7 DEF LockMigrations, FilesInOrder, RunsCounted
  <2>2. Knows(t)'
    BY <1>7 DEF LockMigrations, Knows
  <2>3. QED  BY <2>1, <2>2
<1>8. CASE Inspect(t)
  <2>1. FilesInOrder' /\ RunsCounted'
    BY <1>8 DEF Inspect, FilesInOrder, RunsCounted
  <2>2. Knows(t)'
    BY <1>8 DEF Inspect, Knows, HasTables
  <2>3. QED  BY <2>1, <2>2
<1>9. CASE SkipFile(t)
  <2>1. FilesInOrder' /\ RunsCounted'
    BY <1>9 DEF SkipFile, AtFile, FilesInOrder, RunsCounted
  <2>2. Knows(t)'
    <3>1. recorded[pos[t]] # None /\ recorded[pos[t]] = release[t][pos[t]]
      BY <1>9 DEF SkipFile, AtFile, Knows
    <3>2. /\ pc[t] = "file" /\ pc'[t] = "file" /\ pos'[t] = pos[t] + 1
          /\ pos[t] \in 1..Len(release[t])
          /\ UNCHANGED <<recorded, seen, release>>
      BY <1>9 DEF SkipFile, AtFile
    <3>3. /\ pos'[t] \in Nat \ {0} /\ pos'[t] # 1 /\ pos'[t] <= Len(release'[t]) + 1
          /\ \A f \in Files : f >= pos'[t] => f >= pos[t]
          /\ \A f \in Files : f < pos'[t] => f < pos[t] \/ f = pos[t]
      <4>1. pos'[t] = pos[t] + 1 /\ Len(release'[t]) = Len(release[t])
        BY <3>2
      <4>2. pos[t] \in 1..Len(release[t]) /\ Len(release[t]) \in Nat /\ Files \subseteq Nat
        BY <3>2
      <4>3. /\ pos[t] + 1 \in Nat \ {0} /\ pos[t] + 1 # 1 /\ pos[t] + 1 <= Len(release[t]) + 1
            /\ \A f \in Nat : f >= pos[t] + 1 => f >= pos[t]
            /\ \A f \in Nat : f < pos[t] + 1 => f < pos[t] \/ f = pos[t]
        BY <4>2, NextPlace
      <4> HIDE <1>1, <1>3, <1>5, <1>6
      <4>4. QED  BY <4>1, <4>2, <4>3, Zenon
    <3>4. \A f \in Files :
            f < pos'[t] => recorded'[f] # None /\ recorded'[f] = release'[t][f]
      BY <3>1, <3>2, <3>3 DEF Knows
    <3>5. QED  BY <3>2, <3>3, <3>4 DEF Knows
  <2>3. QED  BY <2>1, <2>2
<1>10. CASE AdoptFile(t)
  <2>1. /\ pc[t] = "file" /\ pos[t] = 1 /\ pos[t] \in Files
        /\ recorded[1] = None /\ applied[1] # None
    <3>1. /\ pc[t] = "file" /\ pos[t] = 1 /\ seen[t][1] = None /\ found[t]
      BY <1>10 DEF AdoptFile, AtFile
    <3>2. seen[t][1] = recorded[1]
      BY <3>1 DEF Knows
    <3>3. found[t] = HasTables
      BY <1>6, <3>1, Zenon DEF Knows
    <3>4. applied[1] # None
      BY <3>1, <3>3, Zenon DEF HasTables
    <3>5. QED  BY <3>1, <3>2, <3>4
  <2>2. FilesInOrder' /\ RunsCounted'
    BY <1>10, <2>1 DEF AdoptFile, FilesInOrder, RunsCounted
  <2>3. Knows(t)'
    BY <1>10, <2>1 DEF AdoptFile, Knows
  <2>4. QED  BY <2>2, <2>3
<1>11. CASE RunFile(t)
  <2>1. /\ pc[t] = "file" /\ pos[t] \in DOMAIN release[t] /\ pos[t] \in Files
        /\ recorded[pos[t]] = None
        /\ pos[t] = 1 => applied[1] = None
    BY <1>11 DEF RunFile, AtFile, Knows, HasTables
  <2>2. /\ applied' = [applied EXCEPT ![pos[t]] = release[t][pos[t]]]
        /\ executed' = [executed EXCEPT ![pos[t]] = @ + 1]
        /\ pc' = [pc EXCEPT ![t] = "record"]
        /\ UNCHANGED <<pos, hand, recorded, migrator, release, seen, found,
                       unrecorded>>
    BY <1>11 DEF RunFile
  <2>3. RunsCounted'
    BY <2>1, <2>2 DEF RunsCounted
  <2>4. FilesInOrder'
    <3>1. \A f \in Files : executed'[f] <= 1 + unrecorded'[f]
      <4>1. executed[pos[t]] <= unrecorded[pos[t]]
        <5>1. ~Pending(pos[t])
          BY <2>1
        <5>2. executed[pos[t]] <= unrecorded[pos[t]] + 0
          BY <2>1, <5>1 DEF RunsCounted
        <5>3. QED  BY <2>1, <5>2
      <4>2. \A f \in Files \ {pos[t]} : executed'[f] <= 1 + unrecorded'[f]
        BY <2>2 DEF FilesInOrder
      <4>3. QED  BY <2>1, <2>2, <4>1, <4>2
    <3>2. executed'[1] <= 1
      BY <2>1, <2>2 DEF RunsCounted, FilesInOrder
    <3>3. \A f \in Files : recorded'[f] # None => applied'[f] # None
      BY <2>1, <2>2 DEF FilesInOrder
    <3>4. \A f \in Files \ {1} : recorded'[f] \in {None, applied'[f]}
      BY <2>1, <2>2 DEF FilesInOrder
    <3>5. ASSUME NEW f \in Files, NEW g \in Files, f < g, applied'[g] # None
          PROVE  recorded'[f] # None
      BY <2>1, <2>2, <3>5 DEF FilesInOrder, Knows
    <3>6. QED  BY <3>1, <3>2, <3>3, <3>4, <3>5 DEF FilesInOrder
  <2>5. Knows(t)'
    BY <2>1, <2>2 DEF Knows
  <2>6. QED  BY <2>3, <2>4, <2>5
<1>12. CASE RecordFile(t)
  <2>1. /\ pc[t] = "record" /\ pos[t] \in DOMAIN release[t] /\ pos[t] \in Files
        /\ recorded[pos[t]] = None /\ applied[pos[t]] # None
        /\ pos[t] # 1 => applied[pos[t]] = release[t][pos[t]]
    BY <1>12 DEF RecordFile, Knows, TInv, Places
  <2>2. /\ recorded' = [recorded EXCEPT ![pos[t]] = release[t][pos[t]]]
        /\ pc' = [pc EXCEPT ![t] = "file"]
        /\ pos' = [pos EXCEPT ![t] = pos[t] + 1]
        /\ UNCHANGED <<applied, release, seen, executed, unrecorded>>
    BY <1>12 DEF RecordFile
  <2>3. RunsCounted'
    BY <2>1, <2>2 DEF RunsCounted
  <2>4. FilesInOrder'
    BY <2>1, <2>2 DEF FilesInOrder
  <2>5. Knows(t)'
    <3>1. /\ pos'[t] = pos[t] + 1 /\ pc'[t] = "file"
          /\ \A f \in Files : f < pos'[t] => f < pos[t] \/ f = pos[t]
          /\ \A f \in Files : f >= pos'[t] => f > pos[t]
      BY <2>1, <2>2
    <3>2. pos'[t] \in Nat \ {0} /\ pos'[t] # 1 /\ pos'[t] <= Len(release'[t]) + 1
      BY <2>1, <2>2, <3>1
    <3>3. \A f \in Files :
            f < pos'[t] => recorded'[f] # None /\ recorded'[f] = release'[t][f]
      BY <2>1, <2>2, <3>1 DEF Knows
    <3>4. \A f \in Files : f >= pos'[t] => seen'[t][f] = recorded'[f]
      BY <2>1, <2>2, <3>1 DEF Knows
    <3>5. QED  BY <3>1, <3>2, <3>3, <3>4 DEF Knows
  <2>6. QED  BY <2>3, <2>4, <2>5
<1>13. CASE EndMigration(t) /\ UNCHANGED unrecorded /\ pc[t] = "file"
  BY <1>13 DEF EndMigration, Finish, FilesInOrder, RunsCounted, Knows
<1>14. CASE AbortMigration(t)
  <2>1. /\ UNCHANGED <<applied, recorded, executed>> /\ pc'[t] = "idle"
        /\ \A f \in Files : unrecorded'[f] =
             IF pc[t] = "record" /\ f = pos[t] THEN unrecorded[f] + 1
                                               ELSE unrecorded[f]
    BY <1>14 DEF AbortMigration, EndMigration, Finish
  <2>2. RunsCounted'
    <3>1. \A f : ~Pending(f)'
      BY <2>1
    <3>2. ASSUME NEW f \in Files, pc[t] = "record", f = pos[t]
          PROVE  executed'[f] <= unrecorded'[f]
      <4>1. recorded[f] = None /\ Pending(f)
        BY <3>2 DEF Knows
      <4>2. executed[f] <= unrecorded[f] + 1
        BY <4>1 DEF RunsCounted
      <4>3. QED  BY <2>1, <3>2, <4>2
    <3>3. ASSUME NEW f \in Files, ~(pc[t] = "record" /\ f = pos[t])
          PROVE  executed'[f] <= unrecorded'[f] + (IF recorded'[f] # None THEN 1 ELSE 0)
      <4>1. ~Pending(f)
        BY <3>3
      <4>2. QED  BY <2>1, <3>3, <4>1 DEF RunsCounted
    <3>4. ASSUME NEW f \in Files
          PROVE  executed'[f] \in Nat /\ unrecorded'[f] \in Nat
      <4>1. /\ executed[f] \in Nat /\ unrecorded[f] \in Nat
            /\ executed'[f] = executed[f]
            /\ unrecorded'[f] \in {unrecorded[f], unrecorded[f] + 1}
        BY <2>1
      <4>2. QED  BY <4>1
    <3>5. \A f \in Files : executed'[f] <= unrecorded'[f]
                               + (IF recorded'[f] # None THEN 1 ELSE 0)
      BY <3>2, <3>3, <3>4
    <3>6. applied'[1] = None => executed'[1] = 0
      BY <2>1 DEF RunsCounted
    <3>7. QED  BY <3>1, <3>5, <3>6 DEF RunsCounted
  <2>3. FilesInOrder'
    <3>1. ASSUME NEW f \in Files
          PROVE  executed'[f] <= 1 + unrecorded'[f]
      <4>1. executed[f] \in Nat /\ unrecorded[f] \in Nat
            /\ executed[f] <= 1 + unrecorded[f] /\ executed'[f] = executed[f]
        BY <2>1 DEF FilesInOrder
      <4>2. unrecorded'[f] \in {unrecorded[f], unrecorded[f] + 1}
        BY <2>1
      <4>3. QED  BY <4>1, <4>2
    <3>2. QED  BY <2>1, <3>1 DEF FilesInOrder
  <2>4. Knows(t)'
    BY <2>1 DEF Knows
  <2>5. QED  BY <2>2, <2>3, <2>4
<1>15. QED
  BY <1>7, <1>8, <1>9, <1>10, <1>11, <1>12, <1>13, <1>14
     DEF MigrationStep, AllFilesDone, RefuseChangedFile, AtFile

LEMMA GStep == TInv /\ LocksHeld /\ GInv /\ [Next]_vars => GInv'
<1> SUFFICES ASSUME TInv, LocksHeld, GInv, [Next]_vars PROVE GInv'
  OBVIOUS
<1>1. RecoveryTypeOK
  BY DEF TInv
<1>2. ASSUME NEW t \in Tools, ToolStep(t) \/ ToolDies(t)
      PROVE  GInv'
  <2>1. OthersAsTheyWere(t)
    BY <1>1, <1>2, Others
  <2>2. CASE /\ MigrationStep(t) \/ AbortMigration(t)
             /\ UNCHANGED <<snapshotVars, importVars>>
    BY <2>2, GMigration
  <2>3. CASE /\ SnapshotStep(t) \/ AbortBackup(t) \/ AbortRestore(t)
             /\ UNCHANGED migrationVars
    BY <1>1, <2>1, <2>3, StagesOfSnapshot, GFrame
  <2>4. CASE (ImportStep(t) \/ AbortImport(t)) /\ UNCHANGED migrationVars
    <3>1. pc[t] \notin MigrationStages /\ pc'[t] \notin MigrationStages
      BY <1>1, <2>4, StagesOfImport DEF MigrationStages, ImportStages
    <3>2. QED  BY <2>1, <2>4, <3>1, GFrame
  <2>5. QED  BY <1>2, <2>2, <2>3, <2>4 DEF ToolStep, ToolDies
<1>3. CASE LoseDatabase
  <2>1. FilesInOrder'
    BY <1>3, FilesAreNumbers DEF LoseDatabase, FilesInOrder, Blank
  <2>2. RunsCounted'
    BY <1>3, FilesAreNumbers DEF LoseDatabase, RunsCounted
  <2>3. \A t \in Tools : Knows(t)'
    BY <1>3 DEF LoseDatabase, Knows
  <2>4. QED  BY <2>1, <2>2, <2>3 DEF GInv
<1>4. CASE UNCHANGED <<processVars, migrationVars>>
  BY <1>4 DEF processVars, migrationVars, GInv, FilesInOrder, RunsCounted,
              Pending, Knows, HasTables
<1>5. QED  BY <1>2, <1>3, <1>4 DEF Next, InUse, vars

(* However many processes start the migrations at once, whatever the       *)
(* releases ship and wherever the runs die, a file is run twice only if a  *)
(* run ended between the file and its row in schema_migrations; what is    *)
(* recorded is what was run, in the order of the files, and is the whole   *)
(* release when a run comes to its end.                                    *)
THEOREM RecoveryMigratedInOrder == Spec => []MigratedInOrder
<1>1. TInv /\ GInv => MigratedInOrder
  <2> SUFFICES ASSUME TInv, GInv PROVE ReleaseRecorded
    BY DEF GInv, MigratedInOrder
  <2> SUFFICES ASSUME NEW t \in Tools, pc[t] = "file", pos[t] \notin DOMAIN release[t],
                      NEW f \in DOMAIN release[t]
               PROVE  recorded[f] = release[t][f]
    BY DEF ReleaseRecorded
  <2>1. /\ release[t] \in Seq(Digests) /\ DOMAIN release[t] \subseteq Files
        /\ Len(release[t]) \in Nat /\ DOMAIN release[t] = 1..Len(release[t])
    <3>1. release[t] \in Releases
      BY DEF TInv, RecoveryTypeOK, MigrationsTypeOK
    <3>2. QED  BY <3>1, FilesAreNumbers
  <2>2. Knows(t)
    BY DEF GInv
  <2>3. pos[t] = Len(release[t]) + 1
    BY <2>1, <2>2 DEF Knows
  <2>4. QED  BY <2>1, <2>2, <2>3 DEF Knows
<1>2. QED  BY TAlways, LAlways, GInit, GStep, <1>1, PTL DEF Spec

-----------------------------------------------------------------------------
\* Rows: what the steps have in common.

LEMMA DInit == Init => DInv
<1> SUFFICES ASSUME Init PROVE DInv
  OBVIOUS
<1>1. /\ devices = {} /\ messages = {} /\ readings = {}
      /\ \A t \in Tools : pc[t] = "idle" /\ hand[t] = NoRows
      /\ file = NoFile /\ completed = {}
  BY DEF Init, TablesInit, NothingStored, SnapshotInit, ImportInit
<1>2. DatabaseWhole /\ Keyed(Stored)
  BY <1>1 DEF DatabaseWhole, ReferencesHold, NoMessageAlone, Keyed, Stored
<1>3. ASSUME NEW t \in Tools  PROVE ToolInv(t)
  <2>1. pc[t] = "idle" /\ hand[t] = NoRows
    BY <1>1
  <2>2. QED
    BY <2>1 DEF ToolInv, Referring, Keyed, NoRows, RestoreStages, ImportStages
<1>4. \A t \in Tools : Apart(hand[t], Stored) /\ \A u \in Tools : Apart(hand[t], hand[u])
  <2>1. \A rows : Apart(NoRows, rows)
    BY DEF Apart, NoRows
  <2>2. QED  BY <1>1, <2>1
<1>5. ReportsTrue
  BY <1>1 DEF ReportsTrue
<1>6. QED  BY <1>1, <1>2, <1>3, <1>4, <1>5 DEF DInv

LEMMA ApartSymmetric ==
  ASSUME NEW rs, NEW ss, Apart(rs, ss)
  PROVE  Apart(ss, rs)
BY DEF Apart, SameId, SameSlot

\* A process whose rows are in no stage that says something of them.
LEMMA AtRest ==
  ASSUME NEW t \in Tools, hand'[t] = NoRows,
         pc'[t] \in {"idle", "inspect", "file", "record"}
  PROVE  ToolInv(t)'
BY DEF ToolInv, Referring, Keyed, NoRows, RestoreStages, ImportStages

LEMMA EmptyHand ==
  ASSUME NEW t \in Tools, hand'[t] = NoRows, pc'[t] # "commit",
         pc'[t] = "save" => DraftInv(t)',
         pc'[t] \in RestoreStages => WholeFile(source'[t]),
         pc'[t] = "open" => pos'[t] = 1,
         pc'[t] = "load" => LoadInv(t)',
         pc'[t] \in ImportStages => ImportInv(t)'
  PROVE  ToolInv(t)'
<1>1. Referring(t)' /\ Keyed(hand[t])'
  BY DEF Referring, Keyed, NoRows
<1>2. QED  BY <1>1 DEF ToolInv, WholeFile

\* What a process knows stays true when others store rows.
LEMMA ToolInvGrows ==
  ASSUME NEW u \in Tools, AsItWas(u), ToolInv(u),
         devices \subseteq devices', messages \subseteq messages',
         readings \subseteq readings'
  PROVE  ToolInv(u)'
<1>1. /\ pc'[u] = pc[u] /\ pos'[u] = pos[u] /\ hand'[u] = hand[u]
      /\ draft'[u] = draft[u] /\ source'[u] = source[u]
      /\ target'[u] = target[u] /\ zone'[u] = zone[u]
  BY DEF AsItWas
<1>2. Referring(u)'
  BY <1>1 DEF ToolInv, Referring
<1>3. pc[u] = "save" => DraftInv(u)'
  BY <1>1 DEF ToolInv, DraftInv
<1>4. pc[u] \in ImportStages => ImportInv(u)'
  BY <1>1 DEF ToolInv, ImportInv
<1>5. /\ pc[u] \notin Writing => hand[u] = NoRows
      /\ Keyed(hand[u])
      /\ pc[u] \in RestoreStages => WholeFile(source[u])
      /\ pc[u] = "open" => pos[u] = 1
      /\ pc[u] = "load" => LoadInv(u)'
      /\ pc[u] = "commit" => hand[u] = source[u].rows
  BY <1>1 DEF ToolInv, LoadInv
<1>6. QED  BY <1>1, <1>2, <1>3, <1>4, <1>5 DEF ToolInv, Keyed, WholeFile

\* A step of one tool: what is left to prove.
LEMMA DCompose ==
  ASSUME DInv, NEW t \in Tools, OthersAsTheyWere(t),
         devices \subseteq devices', messages \subseteq messages',
         readings \subseteq readings',
         DatabaseWhole', Keyed(Stored)', ToolInv(t)',
         \A u \in Tools : Apart(hand[u], Stored)',
         \A u \in Tools \ {t} : Apart(hand'[t], hand[u]),
         file' # NoFile => WholeFile(file'),
         ReportsTrue'
  PROVE  DInv'
<1>1. \A u \in Tools : ToolInv(u)'
  BY ToolInvGrows DEF DInv, OthersAsTheyWere
<1>2. \A u, v \in Tools \ {t} : u # v => Apart(hand'[u], hand'[v])
  BY DEF DInv, OthersAsTheyWere, AsItWas
<1>3. \A u \in Tools \ {t} : Apart(hand'[t], hand'[u]) /\ Apart(hand'[u], hand'[t])
  BY ApartSymmetric DEF OthersAsTheyWere, AsItWas
<1>4. \A u, v \in Tools : u # v => Apart(hand'[u], hand'[v])
  BY <1>2, <1>3
<1>5. QED  BY <1>1, <1>4, Zenon DEF DInv

\* A step that stores nothing, and drops rows at most.
LEMMA DQuiet ==
  ASSUME DInv, NEW t \in Tools, OthersAsTheyWere(t),
         UNCHANGED <<rowVars, file>>, hand'[t] \in {hand[t], NoRows},
         ToolInv(t)', ReportsTrue'
  PROVE  DInv'
<1>1. UNCHANGED <<devices, messages, readings>>
  BY DEF rowVars
<1>2. DatabaseWhole' /\ Keyed(Stored)' /\ (file' # NoFile => WholeFile(file'))
  BY <1>1 DEF DInv, DatabaseWhole, ReferencesHold, NoMessageAlone, Keyed, Stored
<1>3. \A rows : Apart(NoRows, rows)
  BY DEF Apart, NoRows
<1>4. \A u \in Tools : Apart(hand[u], Stored)'
  BY <1>1, <1>3 DEF DInv, OthersAsTheyWere, AsItWas, Stored
<1>5. \A u \in Tools \ {t} : Apart(hand'[t], hand[u])
  BY <1>3 DEF DInv
<1>6. QED  BY <1>1, <1>2, <1>4, <1>5, DCompose

LEMMA DMigration ==
  ASSUME TInv, DInv, NEW t \in Tools, MigrationStep(t) \/ AbortMigration(t),
         UNCHANGED <<rowVars, nextId, snapshotVars, importVars>>
  PROVE  DInv'
<1>1. RecoveryTypeOK
  BY DEF TInv
<1>2. OthersAsTheyWere(t)
  BY <1>1, OthersInMigration
<1>3. hand'[t] \in {hand[t], NoRows}
  <2>1. hand \in [Tools -> Rows]
    BY <1>1 DEF RecoveryTypeOK, TablesTypeOK
  <2>2. CASE Finish(t)
    BY <2>1, <2>2 DEF Finish, Take
  <2>3. CASE UNCHANGED hand
    BY <2>3
  <2>4. QED
    BY <2>2, <2>3 DEF MigrationStep, LockMigrations, Inspect, SkipFile, AdoptFile,
         RunFile, RecordFile, AllFilesDone, RefuseChangedFile, AbortMigration,
         EndMigration
<1>4. hand[t] = NoRows
  <2>1. pc[t] \notin Writing
    BY <1>1, StagesOfMigration DEF MigrationStages, Writing
  <2>2. QED  BY <2>1 DEF DInv, ToolInv
<1>5. pc'[t] \in {"idle", "inspect", "file", "record"}
  BY <1>1, StagesOfMigration DEF MigrationStages
<1>6. ToolInv(t)'
  BY <1>3, <1>4, <1>5, AtRest
<1>7. ReportsTrue'
  BY DEF DInv, ReportsTrue, rowVars, importVars
<1>8. QED  BY <1>2, <1>3, <1>6, <1>7, DQuiet DEF snapshotVars

-----------------------------------------------------------------------------
\* Rows: backups.

\* The next table of a draft: parents before their children.
LEMMA DraftGrows ==
  ASSUME TInv, DInv, NEW t \in Tools, SaveTable(t), UNCHANGED <<rowVars, nextId>>
  PROVE  DraftInv(t)'
<1> DEFINE d == draft[t]  n == pos[t]  e == draft'[t]
<1>1. RecoveryTypeOK /\ Places
  BY DEF TInv
<1>2. pc[t] = "save" /\ n \in 1..3 /\ d.tables = n - 1
  BY <1>1 DEF SaveTable, Places, TableNames
<1>3. TablesTypeOK /\ MigrationsTypeOK /\ d \in Snapshot
  BY <1>1 DEF RecoveryTypeOK, SnapshotTypeOK
<1>4. e = WithTable(d, TableNames[n]) /\ pos'[t] = n + 1
  BY <1>1 DEF SaveTable, MoveTo, RecoveryTypeOK, SnapshotTypeOK, TablesTypeOK
<1>5. /\ e.rows = [devices  |-> IF n = 1 THEN devices ELSE d.rows.devices,
                   messages |-> IF n = 2 THEN messages ELSE d.rows.messages,
                   readings |-> IF n = 3 THEN readings ELSE d.rows.readings]
      /\ e.torn <=> \/ d.torn
                    \/ n > 1 /\ d.rows.devices # devices
                    \/ n > 2 /\ d.rows.messages # messages
  <2> DEFINE w == WithTable(d, TableNames[n])
  <2> HIDE DEF d
  <2>1. /\ w.rows = [devices  |-> IF n = 1 THEN devices ELSE d.rows.devices,
                     messages |-> IF n = 2 THEN messages ELSE d.rows.messages,
                     readings |-> IF n = 3 THEN readings ELSE d.rows.readings]
        /\ w.torn <=> \/ d.torn
                      \/ n > 1 /\ d.rows.devices # devices
                      \/ n > 2 /\ d.rows.messages # messages
    BY <1>2, <1>3, WithTableAdds
  <2> HIDE DEF w
  <2>2. e = w
    BY <1>4 DEF w
  <2>3. QED  BY <2>1, <2>2
<1>6. DraftInv(t)
  BY <1>2 DEF DInv, ToolInv
<1>7. /\ \A r \in readings : r.msg \in messages
      /\ \A m \in messages : m.dev \in devices
      /\ \A m \in messages : \E r \in readings : r.msg = m
  BY DEF DInv, DatabaseWhole, ReferencesHold, NoMessageAlone
<1>8. UNCHANGED <<devices, messages, readings>>
  BY DEF rowVars
<1>9. CASE n = 1
  BY <1>4, <1>5, <1>6, <1>8, <1>9 DEF DraftInv, Part
<1>10. CASE n = 2
  <2>1. e.rows = [devices |-> d.rows.devices, messages |-> messages, readings |-> {}]
    BY <1>5, <1>6, <1>10 DEF DraftInv, Part
  <2>2. e.torn \/ d.rows.devices = devices
    BY <1>5, <1>10
  <2>3. QED
    BY <1>4, <1>6, <1>7, <1>8, <1>10, <2>1, <2>2 DEF DraftInv, Part
<1>11. CASE n = 3
  <2>1. e.rows = [devices |-> d.rows.devices, messages |-> d.rows.messages,
                  readings |-> readings]
    BY <1>5, <1>11
  <2>2. e.torn \/ (d.rows.devices = devices /\ d.rows.messages = messages)
    BY <1>5, <1>11
  <2>3. /\ d.rows.devices \subseteq devices /\ d.rows.messages \subseteq messages
    BY <1>6 DEF DraftInv
  <2>4. NoMessageAlone(e.rows) /\ (e.torn \/ ReferencesHold(e.rows))
    BY <1>7, <2>1, <2>2, <2>3 DEF NoMessageAlone, ReferencesHold
  <2>5. e.torn \/ \A m \in e.rows.messages : m.dev \in e.rows.devices
    BY <1>7, <2>1, <2>2
  <2>6. e.rows = Part(e.rows, 4)
    BY <2>1 DEF Part
  <2>7. QED  BY <1>4, <1>8, <1>11, <2>1, <2>3, <2>4, <2>5, <2>6 DEF DraftInv
<1>12. QED  BY <1>2, <1>9, <1>10, <1>11

\* What takes the destination's name.
LEMMA DraftIsWhole ==
  ASSUME TInv, DInv, NEW t \in Tools, pc[t] = "save", pos[t] \notin 1..3
  PROVE  WholeFile(draft[t])
<1>1. pos[t] = 4 /\ draft[t].tables = 3
  BY DEF TInv, Places
<1>2. DraftInv(t) /\ Keyed(Stored) /\ DatabaseWhole
  BY DEF DInv, ToolInv
<1>3. /\ draft[t].rows.messages \subseteq messages
      /\ draft[t].rows.readings \subseteq readings
      /\ NoMessageAlone(draft[t].rows)
      /\ draft[t].torn \/ ReferencesHold(draft[t].rows)
  BY <1>1, <1>2 DEF DraftInv
<1>4. Keyed(draft[t].rows)
  BY <1>2, <1>3 DEF Keyed, Stored
<1>5. OneNamed(draft[t].rows)
  BY <1>2, <1>3 DEF OneNamed, Keyed, Stored, DatabaseWhole, ReferencesHold
<1>6. QED  BY <1>1, <1>3, <1>4, <1>5 DEF WholeFile

-----------------------------------------------------------------------------
\* Rows: restores.

\* The next table of the file goes in, and clashes with nothing.
LEMMA LoadKeeps ==
  ASSUME TInv, DInv, NEW t \in Tools, LoadTable(t), UNCHANGED <<rowVars, nextId>>,
         UNCHANGED importVars, OthersAsTheyWere(t)
  PROVE  DInv'
<1> DEFINE s == source[t]  n == pos[t]  h == hand[t]  g == hand'[t]
<1>1. RecoveryTypeOK
  BY DEF TInv
<1>2. /\ pc[t] = "load" /\ n \in 1..3 /\ KeysAllow(t, TableNames[n])
      /\ \A u \in Tools \ {t} : ~KeysWait(t, u, TableNames[n])
      /\ hand' = [hand EXCEPT ![t] = Loaded(t, TableNames[n])]
      /\ pos' = [pos EXCEPT ![t] = n + 1]
      /\ UNCHANGED <<pc, file, draft, source>>
  BY DEF LoadTable, AtTable, TableNames, MoveTo, Take, snapshotVars
<1>3. /\ ToolInv(t) /\ WholeFile(s) /\ h = Part(s.rows, n)
      /\ DatabaseWhole /\ Keyed(Stored)
  BY <1>2 DEF DInv, ToolInv, LoadInv, RestoreStages
<1>4. UNCHANGED <<devices, messages, readings>>
  BY DEF rowVars
<1>5. g = Part(s.rows, n + 1) /\ pos'[t] = n + 1
  <2>1. g = Loaded(t, TableNames[n]) /\ pos'[t] = n + 1
    BY <1>1, <1>2 DEF RecoveryTypeOK, TablesTypeOK
  <2>2. h = [devices |-> IF n > 1 THEN s.rows.devices ELSE {},
             messages |-> IF n > 2 THEN s.rows.messages ELSE {},
             readings |-> IF n > 3 THEN s.rows.readings ELSE {}]
    BY <1>3 DEF Part
  <2>3. CASE n = 1
    BY <2>1, <2>2, <2>3 DEF Loaded, TableNames, Part
  <2>4. CASE n = 2
    BY <2>1, <2>2, <2>4 DEF Loaded, TableNames, Part
  <2>5. CASE n = 3
    BY <2>1, <2>2, <2>5 DEF Loaded, TableNames, Part
  <2>6. QED  BY <1>2, <2>3, <2>4, <2>5
<1>6. n = 2 => /\ \A m \in s.rows.messages : m.dev \in devices \cup h.devices
               /\ \A m \in s.rows.messages, x \in messages : ~SameId(m, x)
               /\ \A u \in Tools \ {t} : pc[u] \in Writing =>
                    \A m \in s.rows.messages, x \in hand[u].messages : ~SameId(m, x)
  BY <1>2 DEF KeysAllow, KeysWait, TableNames
<1>7. n = 3 => /\ \A r \in s.rows.readings :
                    \E m \in messages \cup h.messages : SameId(m, r.msg)
               /\ \A r \in s.rows.readings, q \in readings : ~SameKey(q, r)
               /\ \A u \in Tools \ {t} : pc[u] \in Writing =>
                    \A r \in s.rows.readings, q \in hand[u].readings : ~SameKey(q, r)
  BY <1>2 DEF KeysAllow, KeysWait, TableNames
<1>8. /\ g.devices = s.rows.devices
      /\ g.messages = IF n > 1 THEN s.rows.messages ELSE {}
      /\ g.readings = IF n > 2 THEN s.rows.readings ELSE {}
      /\ h.devices = IF n > 1 THEN s.rows.devices ELSE {}
      /\ h.messages = IF n > 2 THEN s.rows.messages ELSE {}
      /\ h.readings = {}
  <2> HIDE DEF s, n, h, g
  <2>1. /\ n + 1 > 1 /\ (n + 1 > 2 <=> n > 1) /\ (n + 1 > 3 <=> n > 2) /\ ~(n > 3)
    BY <1>2
  <2>2. g = [devices |-> s.rows.devices,
             messages |-> IF n > 1 THEN s.rows.messages ELSE {},
             readings |-> IF n > 2 THEN s.rows.readings ELSE {}]
    BY <1>5, <2>1 DEF Part
  <2>3. h = [devices |-> IF n > 1 THEN s.rows.devices ELSE {},
             messages |-> IF n > 2 THEN s.rows.messages ELSE {},
             readings |-> {}]
    BY <1>3, <2>1 DEF Part
  <2>4. QED  BY <2>2, <2>3
<1>9. UNCHANGED completed /\ ReportsTrue
  BY DEF importVars, DInv
<1> HIDE DEF s, n, h, g
<1>10. Keyed(g)
  BY <1>3, <1>8 DEF WholeFile, Keyed
<1>11. /\ \A r \in g.readings : r.msg \in g.messages
       /\ \A m \in g.messages : m.dev \in devices \cup g.devices
  <2>1. ASSUME NEW m \in g.messages
        PROVE  m.dev \in devices \cup g.devices
    <3>1. CASE n = 2
      BY <1>6, <1>8, <2>1, <3>1
    <3>2. CASE n = 3
      <4>1. m \in h.messages
        BY <1>8, <2>1, <3>2
      <4>2. m.dev \in devices \cup h.devices
        BY <1>3, <4>1 DEF ToolInv, Referring, h
      <4>3. QED  BY <1>8, <3>2, <4>2
    <3>3. QED  BY <1>2, <1>8, <2>1, <3>1, <3>2
  <2>2. ASSUME NEW r \in g.readings
        PROVE  r.msg \in g.messages
    <3>1. n = 3 /\ r \in s.rows.readings
      BY <1>2, <1>8, <2>2
    <3>2. PICK m \in messages \cup h.messages : SameId(m, r.msg)
      BY <1>7, <3>1
    <3>3. CASE m \in messages
      <4>1. PICK q \in readings : q.msg = m
        BY <1>3, <3>3 DEF DatabaseWhole, NoMessageAlone
      <4>2. SameKey(q, r)
        BY <3>2, <4>1 DEF SameKey
      <4>3. QED  BY <1>7, <3>1, <4>1, <4>2
    <3>4. CASE m \in h.messages
      BY <1>3, <1>8, <3>1, <3>2, <3>4 DEF WholeFile, OneNamed
    <3>5. QED  BY <3>2, <3>3, <3>4
  <2>3. QED  BY <2>1, <2>2
<1>12. ToolInv(t)'
  <2>1. Referring(t)'
    BY <1>4, <1>11 DEF Referring, g
  <2>2. LoadInv(t)'
    <3>1. source'[t] = s /\ n + 1 \in 1..4
      BY <1>2 DEF s
    <3>2. QED  BY <1>5, <3>1 DEF LoadInv, g
  <2>3. WholeFile(source'[t]) /\ pc'[t] = "load"
    BY <1>2, <1>3 DEF s
  <2>4. QED
    BY <1>10, <2>1, <2>2, <2>3 DEF ToolInv, Writing, RestoreStages, ImportStages, g
<1>13. Apart(g, Stored)
  <2>1. ASSUME NEW m \in g.messages, NEW x \in messages
        PROVE  ~SameId(m, x)
    <3>1. CASE n = 2
      BY <1>6, <1>8, <2>1, <3>1
    <3>2. CASE n = 3
      <4>1. m \in h.messages
        BY <1>8, <2>1, <3>2
      <4>2. Apart(h, Stored)
        BY DEF DInv, h
      <4>3. QED  BY <2>1, <4>1, <4>2 DEF Apart, Stored
    <3>3. QED  BY <1>2, <1>8, <2>1, <3>1, <3>2
  <2>2. ASSUME NEW r \in g.readings, NEW q \in readings
        PROVE  ~SameSlot(r.msg, q.msg)
    <3>1. n = 3 /\ r \in s.rows.readings
      BY <1>2, <1>8, <2>2
    <3>2. ~SameKey(q, r)
      BY <1>7, <2>2, <3>1
    <3>3. QED  BY <3>2 DEF SameKey, SameSlot
  <2>3. QED  BY <2>1, <2>2 DEF Apart, Stored
<1>14. ASSUME NEW u \in Tools \ {t}
       PROVE  Apart(g, hand[u])
  <2>1. pc[u] \in Writing \/ hand[u] = NoRows
    BY DEF DInv, ToolInv
  <2>2. CASE hand[u] = NoRows
    BY <2>2 DEF Apart, NoRows
  <2>3. CASE pc[u] \in Writing
    <3>1. ASSUME NEW m \in g.messages, NEW x \in hand[u].messages
          PROVE  ~SameId(m, x)
      <4>1. CASE n = 2
        BY <1>6, <1>8, <2>3, <3>1, <4>1
      <4>2. CASE n = 3
        <5>1. m \in h.messages
          BY <1>8, <3>1, <4>2
        <5>2. Apart(h, hand[u])
          BY DEF DInv, h
        <5>3. QED  BY <3>1, <5>1, <5>2 DEF Apart
      <4>3. QED  BY <1>2, <1>8, <3>1, <4>1, <4>2
    <3>2. ASSUME NEW r \in g.readings, NEW q \in hand[u].readings
          PROVE  ~SameSlot(r.msg, q.msg)
      <4>1. n = 3 /\ r \in s.rows.readings
        BY <1>2, <1>8, <3>2
      <4>2. ~SameKey(q, r)
        BY <1>7, <2>3, <3>2, <4>1
      <4>3. QED  BY <4>2 DEF SameKey, SameSlot
    <3>3. QED  BY <3>1, <3>2 DEF Apart
  <2>4. QED  BY <2>1, <2>2, <2>3
<1>15. DatabaseWhole' /\ Keyed(Stored)' /\ ReportsTrue'
  BY <1>3, <1>4, <1>9
     DEF DatabaseWhole, ReferencesHold, NoMessageAlone, Keyed, Stored, ReportsTrue
<1>16. \A u \in Tools : Apart(hand[u], Stored)'
  BY <1>4, <1>13 DEF DInv, OthersAsTheyWere, AsItWas, Stored, g
<1>17. file' # NoFile => WholeFile(file')
  BY <1>2 DEF DInv
<1>18. QED
  BY <1>4, <1>12, <1>14, <1>15, <1>16, <1>17, DCompose DEF g

\* COMMIT: what was in a hand is stored, and clashes with nobody's rows.
LEMMA CommitKeeps ==
  ASSUME DInv, NEW t \in Tools, OthersAsTheyWere(t), Commit(t), hand'[t] = NoRows,
         NoMessageAlone(hand[t]), ToolInv(t)', file' = file, completed' = completed
  PROVE  DInv'
<1> DEFINE h == hand[t]
<1>1. /\ devices' = devices \cup h.devices
      /\ messages' = messages \cup h.messages
      /\ readings' = readings \cup h.readings
  BY DEF Commit
<1>2. /\ DatabaseWhole /\ Keyed(Stored) /\ Keyed(h) /\ Referring(t)
      /\ Apart(h, Stored)
  BY DEF DInv, ToolInv
<1>3. \A u \in Tools \ {t} : Apart(hand[u], h) /\ Apart(hand[u], Stored)
  BY DEF DInv
<1>4. Apart(Stored, h)
  BY <1>2, ApartSymmetric
<1>5. Referring(t) => /\ \A r \in h.readings : r.msg \in h.messages
                      /\ \A m \in h.messages : m.dev \in devices \cup h.devices
  BY DEF Referring
<1>6. ReportsTrue'
  BY <1>1 DEF DInv, ReportsTrue
<1> HIDE DEF h
<1>7. DatabaseWhole'
  <2>1. \A r \in readings' : r.msg \in messages'
    BY <1>1, <1>2, <1>5 DEF DatabaseWhole, ReferencesHold
  <2>2. \A m \in messages' : m.dev \in devices'
    BY <1>1, <1>2, <1>5 DEF DatabaseWhole, ReferencesHold
  <2>3. \A m \in messages' : \E r \in readings' : r.msg = m
    BY <1>1, <1>2 DEF DatabaseWhole, NoMessageAlone, h
  <2>4. QED  BY <2>1, <2>2, <2>3 DEF DatabaseWhole, ReferencesHold, NoMessageAlone
<1>8. Keyed(Stored)'
  <2>1. \A m, n \in messages' : SameId(m, n) => m = n
    BY <1>1, <1>2, <1>4 DEF Keyed, Apart, Stored
  <2>2. ASSUME NEW q \in readings', NEW r \in readings', q.msg = r.msg
        PROVE  q = r
    <3>1. CASE q \in readings /\ r \in readings
      BY <1>2, <2>2, <3>1 DEF Keyed, Stored
    <3>2. CASE q \in h.readings /\ r \in h.readings
      BY <1>2, <2>2, <3>2 DEF Keyed
    <3>3. ASSUME NEW x \in readings, NEW y \in h.readings
          PROVE  x.msg # y.msg
      <4>1. x.msg \in messages /\ y.msg \in h.messages
        BY <1>2, <1>5 DEF DatabaseWhole, ReferencesHold
      <4>2. ~SameId(x.msg, y.msg)
        BY <1>4, <4>1 DEF Apart, Stored
      <4>3. QED  BY <4>2 DEF SameId
    <3>4. QED  BY <1>1, <2>2, <3>1, <3>2, <3>3
  <2>3. \A q, r \in readings' : SameSlot(q.msg, r.msg) => q = r
    BY <1>1, <1>2, <1>4 DEF Keyed, Apart, Stored
  <2>4. QED  BY <2>1, <2>2, <2>3 DEF Keyed, Stored
<1>9. \A u \in Tools : Apart(hand[u], Stored)'
  <2>1. Apart(NoRows, Stored')
    BY DEF Apart, NoRows
  <2>2. ASSUME NEW u \in Tools \ {t}
        PROVE  Apart(hand[u], Stored')
    BY <1>1, <1>3 DEF Apart, Stored
  <2>3. QED  BY <2>1, <2>2 DEF OthersAsTheyWere, AsItWas
<1>10. \A u \in Tools \ {t} : Apart(hand'[t], hand[u])
  BY DEF Apart, NoRows
<1>11. /\ devices \subseteq devices' /\ messages \subseteq messages'
       /\ readings \subseteq readings' /\ (file' # NoFile => WholeFile(file'))
  BY <1>1 DEF DInv
<1>12. QED  BY <1>6, <1>7, <1>8, <1>9, <1>10, <1>11, DCompose

LEMMA DSnapshot ==
  ASSUME TInv, DInv, NEW t \in Tools,
         \/ SnapshotStep(t)
         \/ (AbortBackup(t) \/ AbortRestore(t)) /\ UNCHANGED <<rowVars, nextId>>,
         UNCHANGED <<migrationVars, importVars>>
  PROVE  DInv'
<1>1. RecoveryTypeOK /\ Places /\ OthersAsTheyWere(t)
  BY OthersInSnapshot DEF TInv
<1>2. ReportsTrue /\ UNCHANGED completed /\ ToolInv(t)
      /\ (file # NoFile => WholeFile(file))
  BY DEF DInv, importVars
<1>3. UNCHANGED rowVars => ReportsTrue'
  BY <1>2 DEF ReportsTrue, rowVars
<1>4. hand \in [Tools -> Rows] /\ pc \in [Tools -> Stages] /\ pos \in [Tools -> Nat]
      /\ source \in [Tools -> Snapshot] /\ draft \in [Tools -> Snapshot]
  BY <1>1 DEF RecoveryTypeOK, TablesTypeOK, SnapshotTypeOK
<1>6. pc[t] \notin Writing => hand[t] = NoRows
  BY <1>2 DEF ToolInv
<1> USE DEF Begin, GoTo, MoveTo, Take
<1>7. ASSUME Finish(t), UNCHANGED <<rowVars, file>>
      PROVE  DInv'
  <2>1. hand'[t] = NoRows /\ pc'[t] = "idle"
    BY <1>4, <1>7 DEF Finish
  <2>2. QED  BY <1>1, <1>3, <1>7, <2>1, AtRest, DQuiet
<1>8. ASSUME StartBackup(t), UNCHANGED <<rowVars, nextId>>
      PROVE  DInv'
  <2>1. /\ pc[t] = "idle" /\ pc'[t] = "save" /\ pos'[t] = 1 /\ hand'[t] = hand[t]
        /\ draft'[t] = draft[t] /\ file' = file
    BY <1>4, <1>8 DEF StartBackup, snapshotVars
  <2>2. hand[t] = NoRows /\ draft[t] = NoSnapshot
    BY <1>1, <1>6, <2>1 DEF Places, Writing
  <2>3. DraftInv(t)'
    BY <2>1, <2>2 DEF DraftInv, NoSnapshot, NoRows, Part
  <2>4. ToolInv(t)'
    BY <2>1, <2>2, <2>3, EmptyHand DEF RestoreStages, ImportStages
  <2>5. QED  BY <1>1, <1>3, <1>8, <2>1, <2>4, DQuiet
<1>9. ASSUME SaveTable(t), UNCHANGED <<rowVars, nextId>>
      PROVE  DInv'
  <2>1. pc[t] = "save" /\ pc'[t] = "save" /\ hand'[t] = hand[t] /\ file' = file
    BY <1>4, <1>9 DEF SaveTable
  <2>2. hand[t] = NoRows
    BY <1>6, <2>1 DEF Writing
  <2>3. ToolInv(t)'
    BY <1>9, <2>1, <2>2, DraftGrows, EmptyHand DEF RestoreStages, ImportStages
  <2>4. QED  BY <1>1, <1>3, <1>9, <2>1, <2>3, DQuiet
<1>10. ASSUME ReplaceFile(t), UNCHANGED <<rowVars, nextId>>
       PROVE  DInv'
  <2>1. pc[t] = "save" /\ pos[t] \notin 1..3 /\ file' = draft[t]
    BY <1>10 DEF ReplaceFile, TableNames
  <2>2. WholeFile(file')
    BY <2>1, DraftIsWhole
  <2>3. hand'[t] = NoRows /\ pc'[t] = "idle"
    BY <1>4, <1>10 DEF ReplaceFile, EndBackup, Finish
  <2>4. UNCHANGED <<devices, messages, readings>>
    BY <1>10 DEF rowVars
  <2>5. /\ ToolInv(t)' /\ DatabaseWhole' /\ Keyed(Stored)'
        /\ \A rows : Apart(NoRows, rows)
    BY <2>3, <2>4, AtRest
       DEF DInv, DatabaseWhole, ReferencesHold, NoMessageAlone, Keyed, Stored,
           Apart, NoRows
  <2>6. \A u \in Tools : Apart(hand[u], Stored)'
    BY <1>1, <2>3, <2>4, <2>5 DEF DInv, OthersAsTheyWere, AsItWas, Stored
  <2>7. QED
    BY <1>1, <1>3, <1>10, <2>2, <2>3, <2>4, <2>5, <2>6, DCompose
<1>11. ASSUME OpenFile(t), UNCHANGED <<rowVars, nextId>>
       PROVE  DInv'
  <2>1. /\ pc[t] = "idle" /\ pc'[t] = "open" /\ pos'[t] = 1 /\ hand'[t] = hand[t]
        /\ source'[t] = file /\ file' = file /\ file # NoFile
    BY <1>1, <1>4, <1>11 DEF OpenFile, RecoveryTypeOK, SnapshotTypeOK
  <2>2. hand[t] = NoRows
    BY <1>6, <2>1 DEF Writing
  <2>3. ToolInv(t)'
    BY <1>2, <2>1, <2>2, EmptyHand DEF RestoreStages, ImportStages
  <2>4. QED  BY <1>1, <1>3, <1>11, <2>1, <2>3, DQuiet
<1>12. ASSUME LockTarget(t), UNCHANGED <<rowVars, nextId>>
       PROVE  DInv'
  <2>1. /\ pc[t] = "open" /\ pc'[t] = "load" /\ pos'[t] = pos[t] /\ hand'[t] = hand[t]
        /\ source'[t] = source[t] /\ file' = file
    BY <1>4, <1>12 DEF LockTarget
  <2>2. hand[t] = NoRows /\ pos[t] = 1 /\ WholeFile(source[t])
    BY <1>2, <1>6, <2>1 DEF ToolInv, Writing, RestoreStages
  <2>3. LoadInv(t)'
    BY <2>1, <2>2 DEF LoadInv, Part, NoRows
  <2>4. ToolInv(t)'
    BY <2>1, <2>2, <2>3, EmptyHand DEF RestoreStages, ImportStages
  <2>5. QED  BY <1>1, <1>3, <1>12, <2>1, <2>4, DQuiet
<1>13. ASSUME SetSequence(t), UNCHANGED rowVars
       PROVE  DInv'
  <2>1. /\ pc[t] = "load" /\ pos[t] \notin 1..3 /\ pc'[t] = "commit"
        /\ hand'[t] = hand[t] /\ source'[t] = source[t] /\ file' = file
    BY <1>4, <1>13 DEF SetSequence, TableNames, snapshotVars
  <2>2. /\ LoadInv(t) /\ WholeFile(source[t]) /\ Keyed(hand[t]) /\ Referring(t)
    BY <1>2, <2>1 DEF ToolInv, RestoreStages
  <2>3. hand[t] = source[t].rows
    <3>1. pos[t] = 4 /\ hand[t] = Part(source[t].rows, pos[t])
      BY <2>1, <2>2 DEF LoadInv
    <3>2. source[t].rows \in Rows
      BY <1>4 DEF Snapshot
    <3>3. QED  BY <3>1, <3>2 DEF Part, Rows
  <2>4. ToolInv(t)'
    BY <1>13, <2>1, <2>2, <2>3
       DEF ToolInv, Referring, Writing, RestoreStages, ImportStages, rowVars
  <2>5. QED  BY <1>1, <1>3, <1>13, <2>1, <2>4, DQuiet
<1>14. ASSUME CommitRestore(t)
       PROVE  DInv'
  <2>1. /\ pc[t] = "commit" /\ Commit(t) /\ hand'[t] = NoRows /\ pc'[t] = "idle"
        /\ file' = file
    BY <1>4, <1>14 DEF CommitRestore, EndRestore, Finish
  <2>2. NoMessageAlone(hand[t])
    BY <1>2, <2>1 DEF ToolInv, WholeFile, RestoreStages
  <2>3. QED  BY <1>1, <1>2, <2>1, <2>2, AtRest, CommitKeeps
<1>15. ASSUME LoadTable(t), UNCHANGED <<rowVars, nextId>>
       PROVE  DInv'
  BY <1>1, <1>15, LoadKeeps
<1>16. QED
  BY <1>7, <1>8, <1>9, <1>10, <1>11, <1>12, <1>13, <1>14, <1>15
     DEF SnapshotStep, RefuseBackup, EndBackup, RefuseTarget, RefuseTable,
         EndRestore, AbortBackup, AbortRestore

-----------------------------------------------------------------------------
\* Rows: the import from Ver2.

\* A row that is new goes in, and clashes with nothing.
LEMMA InsertKeeps ==
  ASSUME TInv, DInv, NEW t \in Tools, InsertRow(t), OthersAsTheyWere(t),
         file' = file
  PROVE  DInv'
<1> DEFINE h == hand[t]  c == Converted(t)  new == [id |-> nextId, msg |-> c]
           g == hand'[t]
<1>1. RecoveryTypeOK
  BY DEF TInv
<1>2. /\ pc[t] \in ImportStages /\ pos[t] <= LegacyRows /\ target[t] \in devices
      /\ Known(t) = {} /\ ~Clashes(t) /\ RowFree(t)
      /\ hand' = [hand EXCEPT ![t] = [h EXCEPT !.messages = @ \cup {c},
                                               !.readings = @ \cup {new}]]
      /\ pc' = [pc EXCEPT ![t] = "row"] /\ pos' = [pos EXCEPT ![t] = pos[t] + 1]
      /\ UNCHANGED <<rowVars, importVars>>
  BY DEF InsertRow, AtRow, Take, GoTo, MoveTo
<1>3. /\ h \in Rows /\ pos[t] \in Nat /\ pc'[t] = "row" /\ pos'[t] = pos[t] + 1
      /\ g = [devices |-> h.devices, messages |-> h.messages \cup {c},
              readings |-> h.readings \cup {new}]
  <2>1. hand \in [Tools -> Rows] /\ pos \in [Tools -> Nat] /\ pc \in [Tools -> Stages]
    BY <1>1 DEF RecoveryTypeOK, TablesTypeOK
  <2>2. g = [h EXCEPT !.messages = @ \cup {c}, !.readings = @ \cup {new}]
    BY <1>2, <2>1
  <2>3. h \in Rows
    BY <2>1
  <2> HIDE DEF h, g, c, new
  <2>4. QED  BY <1>2, <2>1, <2>2, <2>3 DEF Rows
<1>4. /\ ImportInv(t) /\ Referring(t) /\ Keyed(h) /\ Apart(h, Stored)
      /\ DatabaseWhole /\ Keyed(Stored) /\ ReportsTrue
  BY <1>2 DEF DInv, ToolInv
<1>5. c = LegacyMessage(pos[t], zone[t], target[t]) /\ c.row = pos[t]
      /\ c.dev = target[t]
  BY DEF Converted, LegacyMessage
<1>6. UNCHANGED <<devices, messages, readings>> /\ UNCHANGED <<target, zone, completed>>
  BY <1>2 DEF rowVars, importVars
<1>7. /\ \A m \in messages : ~SameId(m, c)
      /\ \A r \in readings : ~SameSlot(r.msg, c)
  BY <1>2 DEF Known, Clashes
<1>8. /\ \A m \in h.messages : m.row < pos[t]
      /\ \A r \in h.readings : r.msg \in h.messages
      /\ \A m \in h.messages : m.dev \in devices \cup h.devices
      /\ NoMessageAlone(h) /\ h.devices = {}
  BY <1>4 DEF ImportInv, Referring
<1>9. \A u \in Tools \ {t} :
        /\ pc[u] \in Writing => \A m \in hand[u].messages : ~SameId(c, m)
        /\ pc[u] \in Writing => \A r \in hand[u].readings : ~SameSlot(c, r.msg)
        /\ pc[u] \notin Writing => hand[u] = NoRows
        /\ Apart(h, hand[u])
  BY <1>2 DEF RowFree, Blocks, HoldsMessage, HoldsReading, DInv, ToolInv
<1>10. new.msg = c
  OBVIOUS
<1> HIDE DEF h, c, new, g
<1>11. Keyed(g)
  <2>1. \A m \in h.messages : m.row # pos[t]
    <3>1. \A m \in h.messages : m.row \in Nat
      BY <1>3 DEF Rows, Message
    <3>2. QED  BY <1>3, <1>8, <3>1
  <2>2. \A m \in h.messages : ~SameId(m, c) /\ ~SameId(c, m) /\ m # c
        /\ ~SameSlot(m, c) /\ ~SameSlot(c, m)
    BY <1>5, <2>1 DEF SameId, SameSlot
  <2>3. \A m, n \in g.messages : SameId(m, n) => m = n
    BY <1>3, <1>4, <2>2 DEF Keyed
  <2>4. \A q, r \in g.readings : q.msg = r.msg \/ SameSlot(q.msg, r.msg) => q = r
    BY <1>3, <1>4, <1>8, <1>10, <2>2 DEF Keyed
  <2>5. QED  BY <2>3, <2>4 DEF Keyed
<1>12. ToolInv(t)'
  <2>1. Referring(t)'
    BY <1>2, <1>3, <1>5, <1>6, <1>8, <1>10 DEF Referring, g
  <2>2. ImportInv(t)'
    <3>1. pos'[t] >= 1 /\ \A m \in g.messages : m.row < pos'[t]
      <4>1. \A m \in h.messages : m.row \in Nat
        BY <1>3 DEF Rows, Message
      <4>2. pos[t] >= 1
        BY <1>4 DEF ImportInv
      <4>3. QED  BY <1>3, <1>5, <1>8, <4>1, <4>2
    <3>2. NoMessageAlone(g) /\ g.devices = {}
      BY <1>3, <1>8, <1>10 DEF NoMessageAlone
    <3>3. ASSUME NEW row \in 1..(pos'[t] - 1)
          PROVE  LegacyMessage(row, zone[t], target[t]) \in messages \cup g.messages
      <4>1. CASE row = pos[t]
        BY <1>3, <1>5, <4>1
      <4>2. CASE row \in 1..(pos[t] - 1)
        BY <1>3, <1>4, <4>2 DEF ImportInv, h
      <4>3. QED  BY <1>3, <4>1, <4>2
    <3>4. QED  BY <1>6, <3>1, <3>2, <3>3 DEF ImportInv, g
  <2>3. QED
    BY <1>3, <1>11, <2>1, <2>2 DEF ToolInv, Writing, RestoreStages, g
<1>13. Apart(g, Stored)
  BY <1>3, <1>4, <1>7, <1>10 DEF Apart, Stored, SameId, SameSlot
<1>14. ASSUME NEW u \in Tools \ {t}
       PROVE  Apart(g, hand[u])
  <2>1. CASE hand[u] = NoRows
    BY <2>1 DEF Apart, NoRows
  <2>2. CASE pc[u] \in Writing
    BY <1>3, <1>9, <1>10, <2>2 DEF Apart
  <2>3. QED  BY <1>9, <2>1, <2>2
<1>15. DatabaseWhole' /\ Keyed(Stored)' /\ ReportsTrue'
  BY <1>4, <1>6
     DEF DatabaseWhole, ReferencesHold, NoMessageAlone, Keyed, Stored, ReportsTrue
<1>16. \A u \in Tools : Apart(hand[u], Stored)'
  BY <1>6, <1>13 DEF DInv, OthersAsTheyWere, AsItWas, Stored, g
<1>17. file' # NoFile => WholeFile(file')
  BY DEF DInv
<1>18. QED
  BY <1>6, <1>12, <1>14, <1>15, <1>16, <1>17, DCompose DEF g

LEMMA DImport ==
  ASSUME TInv, DInv, NEW t \in Tools, ImportStep(t) \/ AbortImport(t),
         UNCHANGED <<migrationVars, file, draft, source, restorer>>
  PROVE  DInv'
<1>1. RecoveryTypeOK /\ OthersAsTheyWere(t)
  BY OthersInImport DEF TInv
<1>2. ReportsTrue /\ ToolInv(t)
  BY DEF DInv
<1>3. hand \in [Tools -> Rows] /\ pc \in [Tools -> Stages] /\ pos \in [Tools -> Nat]
  BY <1>1 DEF RecoveryTypeOK, TablesTypeOK
<1>4. pc[t] \notin Writing => hand[t] = NoRows
  BY <1>2 DEF ToolInv
<1> USE DEF Begin, GoTo, MoveTo, Take
<1>5. ASSUME Finish(t), UNCHANGED <<rowVars, completed>>
      PROVE  DInv'
  <2>1. hand'[t] = NoRows /\ pc'[t] = "idle"
    BY <1>3, <1>5 DEF Finish
  <2>2. ReportsTrue'
    BY <1>2, <1>5 DEF ReportsTrue, rowVars
  <2>3. QED  BY <1>1, <1>5, <2>1, <2>2, AtRest, DQuiet
<1>6. CASE StartImport(t)
  <2>1. /\ pc[t] = "idle" /\ pc'[t] = "fetch" /\ pos'[t] = 1 /\ hand'[t] = hand[t]
        /\ UNCHANGED <<rowVars, completed>>
    BY <1>3, <1>6 DEF StartImport
  <2>2. hand[t] = NoRows
    BY <1>4, <2>1 DEF Writing
  <2>3. ImportInv(t)'
    BY <2>1, <2>2 DEF ImportInv, NoRows, NoMessageAlone
  <2>4. ToolInv(t)' /\ ReportsTrue'
    BY <1>2, <2>1, <2>2, <2>3, EmptyHand DEF RestoreStages, ReportsTrue, rowVars
  <2>5. QED  BY <1>1, <2>1, <2>4, DQuiet
<1>7. CASE SkipDuplicate(t)
  <2>1. /\ pc[t] \in ImportStages /\ pc'[t] = "row" /\ pos'[t] = pos[t] + 1
        /\ hand'[t] = hand[t] /\ UNCHANGED <<rowVars, importVars>>
    BY <1>3, <1>7 DEF SkipDuplicate, AtRow
  <2>2. LegacyMessage(pos[t], zone[t], target[t]) \in messages
    <3>1. PICK n \in messages : SameId(n, Converted(t)) /\ n.dev = target[t]
      BY <1>7 DEF SkipDuplicate, Known
    <3>2. n \in Message
      BY <1>1 DEF RecoveryTypeOK, TablesTypeOK
    <3>3. n = LegacyMessage(pos[t], zone[t], target[t])
      BY <3>1, <3>2 DEF SameId, Converted, LegacyMessage, Message
    <3>4. QED  BY <3>3
  <2>3. ImportInv(t) /\ Referring(t) /\ Keyed(hand[t])
    BY <1>2, <2>1 DEF ToolInv
  <2>4. UNCHANGED <<devices, messages, readings, target, zone, completed>>
    BY <2>1 DEF rowVars, importVars
  <2>5. ImportInv(t)'
    <3>1. pos[t] \in Nat /\ pos[t] >= 1
      BY <1>3, <2>3 DEF ImportInv
    <3>2. ASSUME NEW row \in 1..(pos'[t] - 1)
          PROVE  LegacyMessage(row, zone[t], target[t]) \in messages \cup hand[t].messages
      BY <2>1, <2>2, <2>3, <3>1 DEF ImportInv
    <3>3. \A m \in hand[t].messages : m.row < pos'[t]
      <4>1. \A m \in hand[t].messages : m.row \in Nat
        BY <1>3 DEF Rows, Message
      <4>2. QED  BY <2>1, <2>3, <3>1, <4>1 DEF ImportInv
    <3>4. NoMessageAlone(hand[t]) /\ hand[t].devices = {} /\ pos'[t] >= 1
      BY <2>1, <2>3, <3>1 DEF ImportInv
    <3>5. QED  BY <2>1, <2>4, <3>2, <3>3, <3>4 DEF ImportInv
  <2>6. ToolInv(t)'
    BY <2>1, <2>3, <2>4, <2>5 DEF ToolInv, Referring, Writing, RestoreStages
  <2>7. ReportsTrue'
    BY <1>2, <2>4 DEF ReportsTrue
  <2>8. QED  BY <1>1, <2>1, <2>6, <2>7, DQuiet
<1>8. CASE InsertRow(t)
  BY <1>1, <1>8, InsertKeeps
<1>9. CASE CommitBatch(t)
  <2>1. /\ pc[t] = "row" /\ pc'[t] = "fetch" /\ pos'[t] = pos[t] /\ Commit(t)
        /\ hand'[t] = NoRows /\ UNCHANGED importVars
    BY <1>3, <1>9 DEF CommitBatch, BatchFull
  <2>2. ImportInv(t)
    BY <1>2, <2>1 DEF ToolInv, ImportStages
  <2>3. ImportInv(t)'
    BY <2>1, <2>2 DEF ImportInv, NoRows, NoMessageAlone, Commit, importVars
  <2>4. ToolInv(t)'
    BY <2>1, <2>3, EmptyHand DEF RestoreStages
  <2>5. NoMessageAlone(hand[t])
    BY <2>2 DEF ImportInv
  <2>6. QED  BY <1>1, <2>1, <2>4, <2>5, CommitKeeps DEF importVars
<1>10. CASE ReportCompleted(t)
  <2>1. /\ pc[t] = "fetch" /\ pos[t] > LegacyRows /\ pc'[t] = "idle"
        /\ hand'[t] = NoRows /\ UNCHANGED rowVars
        /\ completed' = completed \cup {<<zone[t], target[t]>>}
    BY <1>3, <1>10 DEF ReportCompleted, Finish
  <2>2. hand[t] = NoRows /\ ImportInv(t)
    BY <1>2, <1>4, <2>1 DEF ToolInv, Writing, ImportStages
  <2>3. \A row \in 1..LegacyRows : LegacyMessage(row, zone[t], target[t]) \in messages
    <3>1. 1..LegacyRows \subseteq 1..(pos[t] - 1)
      BY <1>3, <2>1, ImportAssumption
    <3>2. QED  BY <2>2, <3>1 DEF ImportInv, NoRows
  <2>4. ReportsTrue'
    BY <1>2, <2>1, <2>3 DEF ReportsTrue, rowVars
  <2>5. QED  BY <1>1, <2>1, <2>4, AtRest, DQuiet
<1>11. QED
  BY <1>5, <1>6, <1>7, <1>8, <1>9, <1>10
     DEF ImportStep, RefuseRow, ReadingClashes, AbortImport, importVars

-----------------------------------------------------------------------------
\* Rows: the system in use, and a lost database.

LEMMA DInUse == ASSUME TInv, DInv, InUse PROVE DInv'
<1>1. /\ UNCHANGED <<processVars, migrationVars, file, draft, source, importVars>>
      /\ UNCHANGED <<pc, pos, hand, completed>>
  BY DEF InUse, processVars, importVars
<1>2. \A u \in Tools : AsItWas(u)
  BY <1>1 DEF AsItWas, processVars, migrationVars, importVars
<1>3. /\ DatabaseWhole /\ Keyed(Stored) /\ ReportsTrue
      /\ \A u \in Tools : ToolInv(u) /\ Apart(hand[u], Stored)
      /\ file # NoFile => WholeFile(file)
  BY DEF DInv
<1>4. SUFFICES /\ DatabaseWhole' /\ Keyed(Stored)' /\ ReportsTrue'
               /\ devices \subseteq devices' /\ messages \subseteq messages'
               /\ readings \subseteq readings'
               /\ \A u \in Tools : Apart(hand[u], Stored')
  <2>1. \A u \in Tools : ToolInv(u)'
    BY <1>2, <1>3, <1>4, ToolInvGrows
  <2>2. \A u \in Tools : Apart(hand[u], Stored)'
    BY <1>1, <1>4
  <2>3. \A u, v \in Tools : u # v => Apart(hand'[u], hand'[v])
    BY <1>1 DEF DInv
  <2>4. QED  BY <1>1, <1>3, <1>4, <2>1, <2>2, <2>3 DEF DInv
<1>5. ASSUME NEW d \in Devices, Register(d)
      PROVE  /\ DatabaseWhole' /\ Keyed(Stored)' /\ ReportsTrue'
             /\ devices \subseteq devices' /\ messages \subseteq messages'
             /\ readings \subseteq readings'
             /\ \A u \in Tools : Apart(hand[u], Stored')
  <2>1. devices' = devices \cup {d} /\ UNCHANGED <<messages, readings>>
    BY <1>5 DEF Register
  <2>2. QED
    BY <1>1, <1>3, <2>1 DEF DatabaseWhole, ReferencesHold, NoMessageAlone, Keyed,
                            Stored, ReportsTrue, Apart
<1>6. ASSUME NEW d \in Devices, NEW n \in LiveSeqs, StoreLive(d, n)
      PROVE  /\ DatabaseWhole' /\ Keyed(Stored)' /\ ReportsTrue'
             /\ devices \subseteq devices' /\ messages \subseteq messages'
             /\ readings \subseteq readings'
             /\ \A u \in Tools : Apart(hand[u], Stored')
  <2> DEFINE m == [origin |-> "ver3", row |-> n, zone |-> NoZone, dev |-> d]
             new == [id |-> nextId, msg |-> m]
  <2>1. /\ d \in devices /\ m.dev = d /\ new.msg = m /\ UNCHANGED devices
        /\ \A x \in messages : ~SameId(m, x) /\ ~SameSlot(m, x)
        /\ \A u \in Tools : ~Blocks(u, m)
        /\ \/ UNCHANGED <<messages, readings>>
           \/ messages' = messages \cup {m} /\ readings' = readings \cup {new}
    BY <1>6 DEF StoreLive
  <2> HIDE DEF m, new
  <2>2. CASE UNCHANGED <<messages, readings>>
    BY <1>1, <1>3, <2>1, <2>2
       DEF DatabaseWhole, ReferencesHold, NoMessageAlone, Keyed, Stored,
           ReportsTrue, Apart
  <2>3. CASE messages' = messages \cup {m} /\ readings' = readings \cup {new}
    <3>1. /\ \A x \in messages : ~SameId(x, m) /\ ~SameSlot(x, m)
                                 /\ ~SameId(m, x) /\ ~SameSlot(m, x)
          /\ \A r \in readings : r.msg \in messages /\ r.msg # m
      <4>1. \A x \in messages : ~SameId(x, m) /\ ~SameSlot(x, m)
        BY <2>1 DEF SameId, SameSlot
      <4>2. m \notin messages
        BY <2>1 DEF SameId
      <4>3. QED  BY <1>3, <2>1, <4>1, <4>2 DEF DatabaseWhole, ReferencesHold
    <3>2. DatabaseWhole'
      BY <1>3, <2>1, <2>3 DEF DatabaseWhole, ReferencesHold, NoMessageAlone
    <3>3. Keyed(Stored)'
      BY <1>3, <2>1, <2>3, <3>1 DEF Keyed, Stored
    <3>4. ASSUME NEW u \in Tools
          PROVE  Apart(hand[u], Stored')
      <4>1. CASE hand[u] = NoRows
        BY <4>1 DEF Apart, NoRows
      <4>2. CASE pc[u] \in Writing
        <5>1. /\ \A x \in hand[u].messages : ~SameId(m, x) /\ ~SameId(x, m)
              /\ \A r \in hand[u].readings : ~SameSlot(m, r.msg) /\ ~SameSlot(r.msg, m)
          BY <2>1, <4>2 DEF Blocks, HoldsMessage, HoldsReading, SameId, SameSlot
        <5>2. Apart(hand[u], Stored)
          BY <1>3
        <5>3. QED  BY <2>1, <2>3, <5>1, <5>2 DEF Apart, Stored
      <4>3. QED  BY <1>3, <4>1, <4>2 DEF ToolInv
    <3>5. ReportsTrue'
      BY <1>1, <1>3, <2>3 DEF ReportsTrue
    <3>6. QED  BY <2>1, <2>3, <3>2, <3>3, <3>4, <3>5
  <2>4. QED  BY <2>1, <2>2, <2>3
<1>7. QED  BY <1>5, <1>6 DEF InUse

LEMMA DLose == ASSUME DInv, LoseDatabase PROVE DInv'
<1>1. /\ devices' = {} /\ messages' = {} /\ readings' = {} /\ completed' = {}
      /\ \A t \in Tools : pc'[t] = "idle" /\ hand'[t] = NoRows
      /\ file' = file
  BY DEF LoseDatabase
<1>2. DatabaseWhole' /\ Keyed(Stored)' /\ ReportsTrue'
  BY <1>1 DEF DatabaseWhole, ReferencesHold, NoMessageAlone, Keyed, Stored,
              ReportsTrue
<1>3. \A t \in Tools : ToolInv(t)'
  BY <1>1, AtRest
<1>4. \A rows : Apart(NoRows, rows)
  BY DEF Apart, NoRows
<1>5. file' # NoFile => WholeFile(file')
  BY <1>1 DEF DInv
<1>6. QED  BY <1>1, <1>2, <1>3, <1>4, <1>5 DEF DInv

LEMMA DStep == TInv /\ DInv /\ [Next]_vars => DInv'
<1> SUFFICES ASSUME TInv, DInv, [Next]_vars PROVE DInv'
  OBVIOUS
<1>1. ASSUME NEW t \in Tools, ToolStep(t) \/ ToolDies(t)
      PROVE  DInv'
  <2>1. CASE /\ MigrationStep(t) \/ AbortMigration(t)
             /\ UNCHANGED <<rowVars, nextId, snapshotVars, importVars>>
    BY <2>1, DMigration
  <2>2. CASE /\ \/ SnapshotStep(t)
                \/ (AbortBackup(t) \/ AbortRestore(t)) /\ UNCHANGED <<rowVars, nextId>>
             /\ UNCHANGED <<migrationVars, importVars>>
    BY <2>2, DSnapshot
  <2>3. CASE /\ ImportStep(t) \/ AbortImport(t)
             /\ UNCHANGED <<migrationVars, file, draft, source, restorer>>
    BY <2>3, DImport
  <2>4. QED  BY <1>1, <2>1, <2>2, <2>3 DEF ToolStep, ToolDies, snapshotVars
<1>2. CASE UNCHANGED vars
  <2>1. /\ UNCHANGED <<devices, messages, readings, file, completed, pc, pos, hand,
                       draft, source, target, zone>>
    BY <1>2 DEF vars, rowVars, processVars, snapshotVars, importVars
  <2>2. /\ DatabaseWhole' /\ Keyed(Stored)' /\ ReportsTrue'
        /\ file' # NoFile => WholeFile(file')
    BY <2>1 DEF DInv, DatabaseWhole, ReferencesHold, NoMessageAlone, Keyed,
                Stored, ReportsTrue
  <2>3. \A u \in Tools : ToolInv(u)'
    <3>1. \A u \in Tools : AsItWas(u)
      BY <1>2, <2>1 DEF vars, migrationVars, AsItWas
    <3>2. QED  BY <2>1, <3>1, ToolInvGrows DEF DInv
  <2>4. \A t \in Tools : Apart(hand[t], Stored)'
    BY <2>1 DEF DInv, Stored
  <2>5. \A t, u \in Tools : t # u => Apart(hand[t], hand[u])'
    BY <2>1 DEF DInv
  <2>6. QED  BY <2>2, <2>3, <2>4, <2>5, Zenon DEF DInv
<1>3. QED  BY <1>1, <1>2, DInUse, DLose DEF Next

LEMMA DAlways == Spec => []DInv
BY TAlways, DInit, DStep, PTL DEF Spec

(* A completed backup has every table and every message's reading,         *)
(* whatever was stored while it read them, and every row's parents if      *)
(* nothing was; such a file is refused by no key of an empty database.     *)
THEOREM RecoverySnapshotWhole == Spec => []SnapshotWhole
<1>1. DInv => SnapshotWhole
  <2> SUFFICES ASSUME DInv PROVE SnapshotWhole
    OBVIOUS
  <2>1. ASSUME NEW t \in Tools, AtTable(t), EmptyTakes(source[t])
        PROVE  KeysAllow(t, TableNames[pos[t]])
    <3>1. /\ devices = {} /\ messages = {} /\ readings = {}
          /\ source[t].wide => applied[WideFile] # None
      BY <2>1 DEF EmptyTakes, IsEmpty
    <3>2. ReferencesHold(source[t].rows) /\ hand[t] = Part(source[t].rows, pos[t])
      BY <2>1 DEF DInv, ToolInv, WholeFile, LoadInv, AtTable, EmptyTakes, RestoreStages
    <3>3. pos[t] \in {1, 2, 3}
      BY <2>1 DEF AtTable, TableNames
    <3>4. CASE pos[t] = 1
      <4>1. TableNames[pos[t]] = "devices"
        BY <3>4 DEF TableNames
      <4>2. QED  BY <3>1, <4>1 DEF KeysAllow
    <3>5. CASE pos[t] = 2
      <4>1. TableNames[pos[t]] = "messages" /\ hand[t].devices = source[t].rows.devices
        BY <3>2, <3>5 DEF TableNames, Part
      <4>2. QED  BY <3>1, <3>2, <4>1 DEF KeysAllow, ReferencesHold
    <3>6. CASE pos[t] = 3
      <4>1. TableNames[pos[t]] = "readings" /\ hand[t].messages = source[t].rows.messages
        BY <3>2, <3>6 DEF TableNames, Part
      <4>2. \A m : SameId(m, m)
        BY DEF SameId
      <4>3. QED  BY <3>1, <3>2, <4>1, <4>2 DEF KeysAllow, ReferencesHold
    <3>7. QED  BY <3>3, <3>4, <3>5, <3>6
  <2>2. QED  BY <2>1 DEF DInv, WholeFile, SnapshotWhole
<1>2. QED  BY DAlways, <1>1, PTL

(* Every message has its reading and every row its parents, at any time    *)
(* and after every restore.                                                *)
THEOREM RecoveryDatabaseWhole == Spec => []DatabaseWhole
<1>1. DInv => DatabaseWhole
  BY DEF DInv
<1>2. QED  BY DAlways, <1>1, PTL

(* No row of the Ver2 file is stored twice, and a completed import is      *)
(* there to its last row: however imports overlap, die and are repeated,   *)
(* with snapshots restored in between.                                     *)
THEOREM RecoveryLegacyStoredOnce == Spec => []LegacyStoredOnce
<1>1. TInv /\ DInv => LegacyStoredOnce
  <2> SUFFICES ASSUME TInv, DInv PROVE LegacyStoredOnce
    OBVIOUS
  <2>1. messages \subseteq Message /\ readings \subseteq Reading
    BY DEF TInv, RecoveryTypeOK, TablesTypeOK
  <2>2. DatabaseWhole /\ Keyed(Stored) /\ ReportsTrue
    BY DEF DInv
  <2>3. \A q, r \in readings : q.msg = r.msg => q = r
    BY <2>2 DEF Keyed, Stored
  <2>4. ASSUME NEW m \in messages, NEW n \in messages,
               m.origin = "ver2", n.origin = "ver2", m.row = n.row,
               (Numbered(m) /\ m.dev = n.dev) \/ m.zone = n.zone
        PROVE  m = n
    <3>1. CASE m.zone = n.zone
      <4>1. SameId(m, n)
        BY <2>4, <3>1 DEF SameId
      <4>2. QED  BY <2>2, <4>1 DEF Keyed, Stored
    <3>2. CASE Numbered(m) /\ m.dev = n.dev
      <4>1. SameSlot(m, n)
        BY <2>4, <3>2 DEF SameSlot, Numbered
      <4>2. PICK q \in readings, r \in readings : q.msg = m /\ r.msg = n
        BY <2>2 DEF DatabaseWhole, NoMessageAlone
      <4>3. q = r
        BY <2>2, <4>1, <4>2 DEF Keyed, Stored
      <4>4. QED  BY <4>2, <4>3
    <3>3. QED  BY <2>4, <3>1, <3>2
  <2>5. QED  BY <2>2, <2>3, <2>4 DEF LegacyStoredOnce, ReportsTrue, LegacyMessage
<1>2. QED  BY TAlways, DAlways, <1>1, PTL

-----------------------------------------------------------------------------
\* The sequence.

LEMMA SInit == Init => SInv
BY DEF Init, TablesInit, NothingStored, SInv, Fresh, Restoring

\* A step that touches neither readings nor the sequence, of a process that
\* comes to no stage with rows of its own.
LEMMA FreshQuiet ==
  ASSUME Fresh, NEW t \in Tools, OthersAsTheyWere(t), UNCHANGED <<readings, nextId>>,
         pc'[t] \in {"row", "commit"} => pc'[t] = pc[t] /\ hand'[t] = hand[t],
         pc'[t] \in {"load", "commit"} => pc[t] \in {"load", "commit"}
  PROVE  Fresh'
<1>1. Restoring' => Restoring
  BY DEF Restoring, OthersAsTheyWere, AsItWas
<1>2. \A u \in Tools : pc'[u] \in {"row", "commit"} =>
        pc'[u] = pc[u] /\ hand'[u] = hand[u]
  BY DEF OthersAsTheyWere, AsItWas
<1>3. QED  BY <1>1, <1>2 DEF Fresh

\* LockTarget finds no row, and so none on its way either.
LEMMA FreshLock ==
  ASSUME TInv, LocksHeld, DInv, NEW t \in Tools, LockTarget(t), OthersAsTheyWere(t),
         UNCHANGED <<rowVars, nextId>>
  PROVE  Fresh'
<1>1. /\ devices = {} /\ readings = {} /\ restorer = None /\ readings' = {}
      /\ pc'[t] = "load"
  BY DEF LockTarget, IsEmpty, GoTo, rowVars, TInv, RecoveryTypeOK
<1>2. \A u \in Tools : pc[u] # "commit"
  BY <1>1, TablesAssumption DEF LocksHeld
<1>3. ASSUME NEW u \in Tools, pc[u] = "row"
      PROVE  hand[u].readings = {}
  <2>1. ToolInv(u)
    BY DEF DInv
  <2>2. ImportInv(u) /\ Referring(u)
    BY <1>3, <2>1 DEF ToolInv, ImportStages
  <2>3. hand[u].devices = {}
    BY <2>2 DEF ImportInv
  <2>4. \A m \in hand[u].messages : FALSE
    BY <1>1, <2>2, <2>3 DEF Referring
  <2>5. \A r \in hand[u].readings : r.msg \in hand[u].messages
    BY <2>2 DEF Referring
  <2>6. QED  BY <2>4, <2>5
<1>4. /\ \A u \in Tools : pc'[u] # "commit"
      /\ \A u \in Tools : pc'[u] = "row" => pc[u] = "row" /\ hand'[u] = hand[u]
  BY <1>1, <1>2 DEF OthersAsTheyWere, AsItWas
<1>5. QED  BY <1>1, <1>3, <1>4 DEF Fresh

\* setval puts the sequence after every id there is.
LEMMA FreshSequence ==
  ASSUME TInv, LocksHeld, Fresh, NEW t \in Tools, SetSequence(t), OthersAsTheyWere(t),
         UNCHANGED rowVars
  PROVE  Fresh'
<1>1. /\ pc[t] = "load" /\ pc'[t] = "commit" /\ hand'[t] = hand[t]
      /\ nextId' = IF Ids(t) = {} THEN 1 ELSE Max(Ids(t)) + 1
      /\ UNCHANGED readings
  BY DEF SetSequence, GoTo, rowVars, TInv, RecoveryTypeOK
<1>2. Restoring /\ readings = {}
  BY <1>1 DEF Restoring, Fresh
<1>3. \A u \in Tools \ {t} : pc'[u] # "commit"
  BY <1>1 DEF LocksHeld, OthersAsTheyWere, AsItWas
<1>4. ASSUME NEW u \in Tools, pc'[u] = "row"
      PROVE  hand'[u].readings = {}
  BY <1>1, <1>2, <1>4 DEF Fresh, OthersAsTheyWere, AsItWas
<1>5. ASSUME NEW r \in hand[t].readings
      PROVE  r.id < nextId'
  <2>1. PICK b \in Nat : IdsBelow(b)
    BY DEF TInv
  <2>2. r.id \in Ids(t) /\ Ids(t) \in SUBSET (0..b)
    BY <2>1 DEF Ids, IdsBelow, TInv, RecoveryTypeOK, TablesTypeOK, Rows, Reading
  <2>3. \A i \in Ids(t) : i <= Max(Ids(t))
    BY <2>1, <2>2, MaxInSet
  <2>4. Ids(t) # {} /\ r.id <= Max(Ids(t)) /\ r.id \in Nat
    BY <2>2, <2>3
  <2>5. Max(Ids(t)) \in Nat
    BY <2>1, <2>2, <2>4, MaxIsNumber
  <2>6. QED  BY <1>1, <2>4, <2>5
<1>6. QED  BY <1>1, <1>2, <1>3, <1>4, <1>5 DEF Fresh

\* The restored ids are behind the sequence, and nobody else restores.
LEMMA FreshCommit ==
  ASSUME TInv, LocksHeld, Fresh, NEW t \in Tools, CommitRestore(t),
         OthersAsTheyWere(t), UNCHANGED nextId
  PROVE  Fresh'
<1>1. /\ pc[t] = "commit" /\ pc'[t] = "idle"
      /\ readings' = readings \cup hand[t].readings
  BY DEF CommitRestore, EndRestore, Finish, Commit, GoTo, TInv, RecoveryTypeOK
<1>2. \A u \in Tools \ {t} : pc'[u] \notin {"load", "commit"}
  BY <1>1 DEF LocksHeld, OthersAsTheyWere, AsItWas
<1>3. ~Restoring'
  BY <1>1, <1>2 DEF Restoring
<1>4. \A u \in Tools : pc'[u] \in {"row", "commit"} =>
        pc'[u] = pc[u] /\ hand'[u] = hand[u]
  BY <1>1 DEF OthersAsTheyWere, AsItWas
<1>5. \A r \in readings' : r.id < nextId
  BY <1>1 DEF Fresh
<1>6. QED  BY <1>3, <1>4, <1>5 DEF Fresh

LEMMA FreshSnapshot ==
  ASSUME TInv, LocksHeld, DInv, SInv, NEW t \in Tools,
         \/ SnapshotStep(t)
         \/ (AbortBackup(t) \/ AbortRestore(t)) /\ UNCHANGED <<rowVars, nextId>>,
         UNCHANGED <<migrationVars, importVars>>
  PROVE  SInv'
<1>1. OthersAsTheyWere(t) /\ pc \in [Tools -> Stages] /\ hand \in [Tools -> Rows]
  BY OthersInSnapshot DEF TInv, RecoveryTypeOK, TablesTypeOK
<1>2. ASSUME LockTarget(t), UNCHANGED <<rowVars, nextId>>
      PROVE  SInv'
  BY <1>1, <1>2, FreshLock DEF SInv
<1>3. ASSUME UNCHANGED <<readings, nextId, mixed>>,
             pc'[t] \in {"row", "commit"} => pc'[t] = pc[t] /\ hand'[t] = hand[t],
             pc'[t] \in {"load", "commit"} => pc[t] \in {"load", "commit"}
      PROVE  SInv'
  BY <1>1, <1>3, FreshQuiet DEF SInv
<1>4. ASSUME SetSequence(t), UNCHANGED rowVars
      PROVE  SInv'
  <2>1. UNCHANGED mixed
    BY <1>4 DEF SetSequence, snapshotVars
  <2>2. QED  BY <1>1, <1>4, <2>1, FreshSequence DEF SInv
<1>5. ASSUME CommitRestore(t), UNCHANGED nextId
      PROVE  SInv'
  <2>1. UNCHANGED mixed
    BY <1>5 DEF CommitRestore
  <2>2. QED  BY <1>1, <1>5, <2>1, FreshCommit DEF SInv
<1>6. ASSUME StartBackup(t) \/ SaveTable(t) \/ OpenFile(t) \/ LoadTable(t),
             UNCHANGED <<rowVars, nextId>>
      PROVE  SInv'
  <2>1. /\ UNCHANGED <<readings, nextId, mixed>>
        /\ pc'[t] \in {"save", "open", "load"} /\ (pc'[t] = "load" => pc[t] = "load")
    BY <1>1, <1>6 DEF StartBackup, SaveTable, OpenFile, LoadTable, AtTable, Begin,
                      GoTo, snapshotVars, rowVars
  <2>2. QED  BY <1>3, <2>1
<1>7. ASSUME Finish(t), UNCHANGED <<rowVars, nextId, mixed>>
      PROVE  SInv'
  <2>1. pc'[t] = "idle" /\ UNCHANGED <<readings, nextId, mixed>>
    BY <1>1, <1>7 DEF Finish, GoTo, rowVars
  <2>2. QED  BY <1>3, <2>1
<1>8. QED
  BY <1>2, <1>4, <1>5, <1>6, <1>7
     DEF SnapshotStep, RefuseBackup, ReplaceFile, EndBackup, RefuseTarget,
         RefuseTable, EndRestore, AbortBackup, AbortRestore

LEMMA FreshImport ==
  ASSUME TInv, DInv, SInv, NEW t \in Tools,
         ImportStep(t) \/ AbortImport(t), NoteMixed,
         UNCHANGED <<migrationVars, file, draft, source, restorer>>
  PROVE  SInv'
<1>1. /\ OthersAsTheyWere(t) /\ pc \in [Tools -> Stages] /\ hand \in [Tools -> Rows]
      /\ nextId \in Nat /\ readings \subseteq Reading
  BY OthersInImport DEF TInv, RecoveryTypeOK, TablesTypeOK
<1>2. ASSUME nextId' # nextId, ~mixed'  PROVE ~Restoring
  BY <1>2, Zenon DEF NoteMixed
<1>3. SUFFICES ASSUME ~mixed' PROVE Fresh'
  BY DEF SInv
<1>4. ~mixed /\ Fresh
  BY <1>3 DEF NoteMixed, SInv
<1>5. pc[t] \notin Writing => hand[t] = NoRows
  BY DEF DInv, ToolInv
<1> USE DEF Begin, GoTo, MoveTo, Take
<1>6. ASSUME Finish(t), UNCHANGED <<rowVars, nextId>>
      PROVE  Fresh'
  <2>1. pc'[t] = "idle" /\ UNCHANGED <<readings, nextId>>
    BY <1>1, <1>6 DEF Finish, rowVars
  <2>2. QED  BY <1>1, <1>4, <2>1, FreshQuiet
<1>7. CASE StartImport(t)
  <2>1. pc'[t] = "fetch" /\ UNCHANGED <<readings, nextId>>
    BY <1>1, <1>7 DEF StartImport, rowVars
  <2>2. QED  BY <1>1, <1>4, <2>1, FreshQuiet
<1>8. \A i \in Nat : i < nextId => i < nextId + 1
  BY <1>1
<1>9. \A r \in readings : r.id \in Nat
  BY <1>1 DEF Reading
<1>10. \A u \in Tools : \A r \in hand[u].readings : r.id \in Nat
  BY <1>1 DEF Rows, Reading
<1>11. CASE SkipDuplicate(t)
  <2>1. /\ pc[t] \in {"fetch", "row"} /\ pc'[t] = "row" /\ hand'[t] = hand[t]
        /\ UNCHANGED <<readings, nextId>>
    BY <1>1, <1>11 DEF SkipDuplicate, AtRow, ImportStages, rowVars
  <2>2. CASE pc[t] = "row"
    BY <1>1, <1>4, <2>1, <2>2, FreshQuiet
  <2>3. CASE pc[t] = "fetch"
    <3>1. hand'[t].readings = {}
      BY <1>5, <2>1, <2>3 DEF Writing, NoRows
    <3>2. Restoring' => Restoring
      BY <1>1, <2>1 DEF Restoring, OthersAsTheyWere, AsItWas
    <3>3. QED
      BY <1>1, <1>4, <2>1, <3>1, <3>2 DEF Fresh, OthersAsTheyWere, AsItWas
  <2>4. QED  BY <2>1, <2>2, <2>3
<1>12. CASE InsertRow(t)
  <2>1. /\ pc[t] \in {"fetch", "row"} /\ pc'[t] = "row" /\ UNCHANGED readings
        /\ nextId' = nextId + 1
        /\ hand' = [hand EXCEPT ![t] = [hand[t] EXCEPT
                      !.messages = @ \cup {Converted(t)},
                      !.readings = @ \cup {[id |-> nextId, msg |-> Converted(t)]}]]
    BY <1>1, <1>12 DEF InsertRow, AtRow, ImportStages, rowVars
  <2>2. ~Restoring
    BY <1>1, <1>2, <1>3, <2>1
  <2>3. ~Restoring'
    BY <1>1, <2>1, <2>2 DEF Restoring, OthersAsTheyWere, AsItWas
  <2>4. \A r \in hand'[t].readings : r \in hand[t].readings \/ r.id = nextId
    BY <1>1, <2>1 DEF Rows
  <2>5. \A r \in hand[t].readings : r.id < nextId
    BY <1>4, <1>5, <2>1 DEF Writing, NoRows, Fresh
  <2>6. \A r \in hand'[t].readings : r.id < nextId'
    BY <1>1, <1>8, <1>10, <2>1, <2>4, <2>5
  <2>7. \A r \in readings' : r.id < nextId'
    BY <1>4, <1>8, <1>9, <2>1 DEF Fresh
  <2>8. ASSUME NEW u \in Tools \ {t}, pc'[u] \in {"row", "commit"},
               NEW r \in hand'[u].readings
        PROVE  r.id < nextId'
    BY <1>1, <1>4, <1>8, <1>10, <2>1, <2>8 DEF Fresh, OthersAsTheyWere, AsItWas
  <2>9. QED  BY <2>3, <2>6, <2>7, <2>8 DEF Fresh
<1>13. CASE ReadingClashes(t)
  <2>1. /\ pc[t] \in {"fetch", "row"} /\ pc'[t] = "idle" /\ UNCHANGED readings
        /\ nextId' = nextId + 1
    BY <1>1, <1>13 DEF ReadingClashes, AtRow, ImportStages, Finish, rowVars
  <2>2. ~Restoring
    BY <1>1, <1>2, <1>3, <2>1
  <2>3. ~Restoring'
    BY <1>1, <2>1, <2>2 DEF Restoring, OthersAsTheyWere, AsItWas
  <2>4. \A r \in readings' : r.id < nextId'
    BY <1>4, <1>8, <1>9, <2>1 DEF Fresh
  <2>5. ASSUME NEW u \in Tools, pc'[u] \in {"row", "commit"},
               NEW r \in hand'[u].readings
        PROVE  r.id < nextId'
    BY <1>1, <1>4, <1>8, <1>10, <2>1, <2>5 DEF Fresh, OthersAsTheyWere, AsItWas
  <2>6. QED  BY <2>3, <2>4, <2>5 DEF Fresh
<1>14. CASE CommitBatch(t)
  <2>1. /\ pc[t] = "row" /\ pc'[t] = "fetch" /\ UNCHANGED nextId
        /\ readings' = readings \cup hand[t].readings
    BY <1>1, <1>14 DEF CommitBatch, BatchFull, Commit
  <2>2. Restoring' => Restoring
    BY <1>1, <2>1 DEF Restoring, OthersAsTheyWere, AsItWas
  <2>3. Restoring => readings' = {}
    BY <1>4, <2>1 DEF Fresh
  <2>4. \A u \in Tools : pc'[u] \in {"row", "commit"} =>
          pc'[u] = pc[u] /\ hand'[u] = hand[u]
    BY <1>1, <2>1 DEF OthersAsTheyWere, AsItWas
  <2>5. \A r \in readings' : r.id < nextId
    BY <1>4, <2>1 DEF Fresh
  <2>6. QED  BY <1>4, <2>1, <2>2, <2>3, <2>4, <2>5 DEF Fresh
<1>15. QED
  BY <1>6, <1>7, <1>11, <1>12, <1>13, <1>14
     DEF ImportStep, RefuseRow, ReportCompleted, AbortImport

LEMMA FreshInUse == ASSUME TInv, SInv, InUse PROVE SInv'
<1>1. nextId \in Nat /\ readings \subseteq Reading /\ hand \in [Tools -> Rows]
  BY DEF TInv, RecoveryTypeOK, TablesTypeOK
<1>2. UNCHANGED <<pc, hand>>
  BY DEF InUse, processVars
<1>3. Restoring' <=> Restoring
  BY <1>2 DEF Restoring
<1>4. ASSUME NEW d \in Devices, Register(d)
      PROVE  SInv'
  BY <1>2, <1>3, <1>4 DEF Register, SInv, Fresh
<1>5. ASSUME NEW d \in Devices, NEW n \in LiveSeqs, StoreLive(d, n)
      PROVE  SInv'
  <2>1. /\ NoteMixed /\ nextId' = nextId + 1
        /\ \A r \in readings' : r \in readings \/ r.id = nextId
    BY <1>5 DEF StoreLive
  <2>2. SUFFICES ASSUME ~mixed' PROVE Fresh'
    BY DEF SInv
  <2>3. ~mixed /\ Fresh
    BY <2>1, <2>2 DEF NoteMixed, SInv
  <2>4. ~Restoring
    <3>1. nextId' # nextId
      BY <1>1, <2>1
    <3>2. QED  BY <2>1, <2>2, <3>1, Zenon DEF NoteMixed
  <2>5. \A i \in Nat : i < nextId => i < nextId + 1
    BY <1>1
  <2>6. \A r \in readings : r.id \in Nat /\ r.id < nextId
    BY <1>1, <2>3 DEF Fresh, Reading
  <2>7. \A r \in readings' : r.id < nextId'
    BY <1>1, <2>1, <2>5, <2>6
  <2>8. ASSUME NEW u \in Tools, pc'[u] \in {"row", "commit"},
               NEW r \in hand'[u].readings
        PROVE  r.id < nextId'
    <3>1. r.id \in Nat /\ r.id < nextId
      BY <1>1, <1>2, <2>3, <2>8 DEF Fresh, Rows, Reading
    <3>2. QED  BY <2>1, <2>5, <3>1
  <2>9. QED  BY <1>3, <2>4, <2>7, <2>8 DEF Fresh
<1>6. QED  BY <1>4, <1>5 DEF InUse

LEMMA SStep == TInv /\ LocksHeld /\ DInv /\ SInv /\ [Next]_vars => SInv'
<1> SUFFICES ASSUME TInv, LocksHeld, DInv, SInv, [Next]_vars PROVE SInv'
  OBVIOUS
<1>1. RecoveryTypeOK /\ mixed \in BOOLEAN
  BY DEF TInv, RecoveryTypeOK, SnapshotTypeOK
<1>2. ASSUME NEW t \in Tools, ToolStep(t) \/ ToolDies(t)
      PROVE  SInv'
  <2>1. CASE /\ MigrationStep(t) \/ AbortMigration(t)
             /\ UNCHANGED <<rowVars, nextId, snapshotVars, importVars>>
    <3>1. OthersAsTheyWere(t)
      BY <1>1, <2>1, OthersInMigration
    <3>2. pc'[t] \in {"idle", "inspect", "file", "record"}
      BY <1>1, <2>1, StagesOfMigration DEF MigrationStages
    <3>3. UNCHANGED <<readings, nextId, mixed>>
      BY <2>1 DEF rowVars, snapshotVars
    <3>4. QED  BY <3>1, <3>2, <3>3, FreshQuiet DEF SInv
  <2>2. CASE /\ \/ SnapshotStep(t)
                \/ (AbortBackup(t) \/ AbortRestore(t)) /\ UNCHANGED <<rowVars, nextId>>
             /\ UNCHANGED <<migrationVars, importVars>>
    BY <2>2, FreshSnapshot
  <2>3. CASE /\ ImportStep(t) \/ AbortImport(t)
             /\ NoteMixed
             /\ UNCHANGED <<migrationVars, file, draft, source, restorer>>
    BY <2>3, FreshImport
  <2>4. ASSUME AbortImport(t), UNCHANGED mixed
        PROVE  NoteMixed
    <3>1. nextId' = nextId
      BY <2>4 DEF AbortImport
    <3>2. QED  BY <1>1, <2>4, <3>1, Zenon DEF NoteMixed
  <2>5. QED
    BY <1>2, <2>1, <2>2, <2>3, <2>4 DEF ToolStep, ToolDies, snapshotVars
<1>3. CASE LoseDatabase
  <2>1. readings' = {} /\ \A t \in Tools : pc'[t] = "idle"
    BY <1>3 DEF LoseDatabase
  <2>2. QED  BY <2>1 DEF SInv, Fresh, Restoring
<1>4. CASE UNCHANGED vars
  <2>1. UNCHANGED <<readings, nextId, pc, hand, mixed>>
    BY <1>4 DEF vars, rowVars, processVars, snapshotVars
  <2>2. QED  BY <2>1 DEF SInv, Fresh, Restoring
<1>5. QED  BY <1>2, <1>3, <1>4, FreshInUse DEF Next

(* The sequence stays ahead of every stored and every uncommitted id,      *)
(* through rollbacks, losses and restores, unless others inserted readings *)
(* during a restore.                                                       *)
THEOREM RecoveryIdsAreFresh == Spec => []IdsAreFresh
<1>1. SInv => IdsAreFresh
  BY DEF SInv, Fresh, IdsAreFresh
<1>2. QED  BY TAlways, LAlways, DAlways, SInit, SStep, <1>1, PTL DEF Spec

(* What a restore commits is the file, row for row, unless others inserted *)
(* readings since it found the tables empty.                               *)
THEOREM RecoveryRestoreIsExact == Spec => RestoreIsExact
<1> DEFINE Exact == \A t \in Tools :
                      CommitRestore(t) /\ ~mixed =>
                        messages' = source[t].rows.messages /\ readings' = source[t].rows.readings
<1>1. ASSUME DInv, SInv PROVE Exact
  <2> SUFFICES ASSUME NEW t \in Tools, CommitRestore(t), ~mixed
               PROVE  /\ messages' = source[t].rows.messages
                      /\ readings' = source[t].rows.readings
    OBVIOUS
  <2>1. pc[t] = "commit" /\ hand[t] = source[t].rows
    BY <1>1 DEF CommitRestore, DInv, ToolInv
  <2>2. readings = {}
    BY <1>1, <2>1 DEF SInv, Fresh, Restoring
  <2>3. messages = {}
    BY <1>1, <2>2 DEF DInv, DatabaseWhole, NoMessageAlone
  <2>4. QED  BY <2>1, <2>2, <2>3 DEF CommitRestore, Commit
<1>2. Spec => []SInv
  BY TAlways, LAlways, DAlways, SInit, SStep, PTL DEF Spec
<1>3. QED  BY <1>1, <1>2, DAlways, PTL DEF Spec, RestoreIsExact
=============================================================================
