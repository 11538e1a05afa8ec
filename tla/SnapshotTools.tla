---------------------------- MODULE SnapshotTools ----------------------------
(***************************************************************************)
(* backup_postgres_to_sqlite.py and restore_sqlite_snapshot.py.  A backup  *)
(* reads the tables one after the other, parents first, into a temporary   *)
(* file that takes the destination's place in the end; every SELECT of its *)
(* READ COMMITTED transaction sees what is committed by then.  A restore   *)
(* fills an empty database from the file in one transaction, which the     *)
(* foreign keys and unique keys can still refuse, and sets the sequence.   *)
(***************************************************************************)
EXTENDS Migrations, FiniteSetsExt

CONSTANT NoFile

\* TABLES, of which the model has three.
TableNames == <<"devices", "messages", "readings">>

\* Rows and columns of a file, how many tables it has, and whether a table
\* had changed when a later one was read (history).
Snapshot == [rows : Rows, wide : BOOLEAN, tables : 0..3, torn : BOOLEAN]
NoSnapshot == [rows |-> NoRows, wide |-> FALSE, tables |-> 0, torn |-> FALSE]

VARIABLES
  file,         \* the destination, or NoFile
  draft,        \* what a backup has in its temporary file
  source,       \* the file a restore has opened
  restorer,     \* holder of advisory lock 3000003, or None
  mixed         \* history: others inserted readings during a restore

snapshotVars == <<file, draft, source, restorer, mixed>>

RestoreStages == {"open", "load", "commit"}

SnapshotTypeOK ==
  /\ file \in Snapshot \cup {NoFile}
  /\ draft \in [Tools -> Snapshot]
  /\ source \in [Tools -> Snapshot]
  /\ restorer \in Tools \cup {None}
  /\ mixed \in BOOLEAN

SnapshotInit ==
  /\ file = NoFile
  /\ draft = [t \in Tools |-> NoSnapshot]
  /\ source = [t \in Tools |-> NoSnapshot]
  /\ restorer = None
  /\ mixed = FALSE

-----------------------------------------------------------------------------
\* Backup.

\* mkstemp; an existing destination needs --overwrite.
StartBackup(t) ==
  /\ Begin(t, "save")
  /\ UNCHANGED <<hand, snapshotVars>>

\* A draft with one more table, as it is now.
WithTable(d, name) ==
  [d EXCEPT !.rows = CASE name = "devices" -> [@ EXCEPT !.devices = devices]
                       [] name = "messages" -> [@ EXCEPT !.messages = messages]
                       [] OTHER -> [@ EXCEPT !.readings = readings],
            !.wide = IF name = "devices" THEN applied[WideFile] # None ELSE @,
            !.tables = @ + 1,
            !.torn = \/ @
                     \/ d.tables >= 1 /\ d.rows.devices # devices
                     \/ d.tables >= 2 /\ d.rows.messages # messages]

\* Mutant of SaveTable: the tables in alphabetical order, more or less.
SaveTableBackwards(t) ==
  /\ pc[t] = "save" /\ pos[t] \in DOMAIN TableNames
  /\ HasTables
  /\ draft' = [draft EXCEPT ![t] = WithTable(@, TableNames[4 - pos[t]])]
  /\ MoveTo(t, pos[t] + 1)
  /\ UNCHANGED <<pc, hand, file, source, restorer, mixed>>

\* SELECT * FROM one table; BKP-E001 without the table.
SaveTable(t) ==
  /\ pc[t] = "save" /\ pos[t] \in DOMAIN TableNames
  /\ HasTables
  /\ draft' = [draft EXCEPT ![t] = WithTable(@, TableNames[pos[t]])]
  /\ MoveTo(t, pos[t] + 1)
  /\ UNCHANGED <<pc, hand, file, source, restorer, mixed>>

EndBackup(t) ==
  /\ Finish(t)
  /\ draft' = [draft EXCEPT ![t] = NoSnapshot]
  /\ UNCHANGED <<source, restorer, mixed>>

RefuseBackup(t) ==
  /\ pc[t] = "save" /\ pos[t] \in DOMAIN TableNames
  /\ ~HasTables
  /\ EndBackup(t)
  /\ UNCHANGED file

\* The temporary file is committed and takes the destination's name.
ReplaceFile(t) ==
  /\ pc[t] = "save" /\ pos[t] \notin DOMAIN TableNames
  /\ file' = draft[t]
  /\ EndBackup(t)

\* An exception, which removes the temporary file, or the process dies and
\* leaves it: nobody reads it.
AbortBackup(t) ==
  /\ pc[t] = "save"
  /\ EndBackup(t)
  /\ UNCHANGED file

-----------------------------------------------------------------------------
\* Restore.

\* sqlite3.connect and the metadata; a later os.replace leaves the open file
\* as it is.
OpenFile(t) ==
  /\ file # NoFile
  /\ Begin(t, "open")
  /\ source' = [source EXCEPT ![t] = file]
  /\ UNCHANGED <<hand, file, draft, restorer, mixed>>

\* The transaction ends and gives the lock back.
EndRestore(t) ==
  /\ Finish(t)
  /\ restorer' = IF restorer = t THEN None ELSE restorer
  /\ source' = [source EXCEPT ![t] = NoSnapshot]
  /\ UNCHANGED <<file, draft>>

IsEmpty == devices = {} /\ messages = {} /\ readings = {}

\* pg_advisory_xact_lock(3000003), and an empty target.
LockTarget(t) ==
  /\ pc[t] = "open"
  /\ restorer = None
  /\ HasTables /\ IsEmpty
  /\ restorer' = t
  /\ GoTo(t, "load")
  /\ mixed' = FALSE
  /\ UNCHANGED <<pos, hand, file, draft, source>>

\* RST-E003 and RST-E004, after the same wait for the lock
RefuseTarget(t) ==
  /\ pc[t] = "open"
  /\ restorer = None
  /\ ~(HasTables /\ IsEmpty)
  /\ EndRestore(t)
  /\ UNCHANGED mixed

\* The rows of one table of the file are inserted.
Loaded(t, name) ==
  LET rows == source[t].rows IN
  CASE name = "devices" -> [hand[t] EXCEPT !.devices = rows.devices]
    [] name = "messages" -> [hand[t] EXCEPT !.messages = rows.messages]
    [] OTHER -> [hand[t] EXCEPT !.readings = rows.readings]

\* Two readings that a unique key does not let stand together.
SameKey(q, r) ==
  q.id = r.id \/ SameId(q.msg, r.msg) \/ SameSlot(q.msg, r.msg)

\* Mutant of KeysAllow: foreign keys are off, as in a bulk load.
UniqueKeysAllow(t, name) ==
  LET rows == source[t].rows IN
  CASE name = "devices" ->
         /\ rows.devices \cap devices = {}
         /\ source[t].wide => applied[WideFile] # None
    [] name = "messages" ->
         \A m \in rows.messages, n \in messages : ~SameId(m, n)
    [] OTHER -> \A r \in rows.readings, q \in readings : ~SameKey(q, r)

\* The keys and columns of a table let its rows in.
KeysAllow(t, name) ==
  LET rows == source[t].rows IN
  CASE name = "devices" ->
         /\ rows.devices \cap devices = {}
         /\ source[t].wide => applied[WideFile] # None
    [] name = "messages" ->
         /\ \A m \in rows.messages : m.dev \in devices \cup hand[t].devices
         /\ \A m \in rows.messages, n \in messages : ~SameId(m, n)
    [] OTHER ->
         /\ \A r \in rows.readings :
              \E m \in messages \cup hand[t].messages : SameId(m, r.msg)
         /\ \A r \in rows.readings, q \in readings : ~SameKey(q, r)

\* Rows that process u has inserted and may roll back are waited for.
KeysWait(t, u, name) ==
  /\ pc[u] \in Writing
  /\ \/ /\ name = "messages"
        /\ \E m \in source[t].rows.messages, n \in hand[u].messages : SameId(m, n)
     \/ /\ name = "readings"
        /\ \E r \in source[t].rows.readings, q \in hand[u].readings : SameKey(q, r)

AtTable(t) == pc[t] = "load" /\ pos[t] \in DOMAIN TableNames

LoadTable(t) ==
  /\ AtTable(t)
  /\ \A u \in Tools \ {t} : ~KeysWait(t, u, TableNames[pos[t]])
  /\ KeysAllow(t, TableNames[pos[t]])
  /\ Take(t, Loaded(t, TableNames[pos[t]]))
  /\ MoveTo(t, pos[t] + 1)
  /\ UNCHANGED <<pc, snapshotVars>>

\* A key or a missing column refuses a row, before or after one that waits:
\* the transaction is rolled back.
RefuseTable(t) ==
  /\ AtTable(t)
  /\ ~KeysAllow(t, TableNames[pos[t]])
  /\ EndRestore(t)
  /\ UNCHANGED mixed

Ids(t) == {r.id : r \in readings \cup hand[t].readings}

\* Mutant of SetSequence: is_called is always false.
SetSequenceToMax(t) ==
  /\ pc[t] = "load" /\ pos[t] \notin DOMAIN TableNames
  /\ nextId' = IF Ids(t) = {} THEN 1 ELSE Max(Ids(t))
  /\ GoTo(t, "commit")
  /\ UNCHANGED <<pos, hand, snapshotVars>>

\* Mutant of SetSequence: MAX without COALESCE, which an empty table makes NULL.
SetSequenceToNull(t) ==
  /\ pc[t] = "load" /\ pos[t] \notin DOMAIN TableNames
  /\ nextId' = IF Ids(t) = {} THEN None ELSE Max(Ids(t)) + 1
  /\ GoTo(t, "commit")
  /\ UNCHANGED <<pos, hand, snapshotVars>>

\* setval, which no rollback takes back: MAX(id), called, or 1, not called.
SetSequence(t) ==
  /\ pc[t] = "load" /\ pos[t] \notin DOMAIN TableNames
  /\ nextId' = IF Ids(t) = {} THEN 1 ELSE Max(Ids(t)) + 1
  /\ GoTo(t, "commit")
  /\ UNCHANGED <<pos, hand, snapshotVars>>

CommitRestore(t) ==
  /\ pc[t] = "commit"
  /\ Commit(t)
  /\ EndRestore(t)
  /\ UNCHANGED mixed

AbortRestore(t) ==
  /\ pc[t] \in RestoreStages
  /\ EndRestore(t)
  /\ UNCHANGED mixed

\* Steps that change nothing in the tables, and the two that do.
SnapshotStep(t) ==
  \/ /\ \/ StartBackup(t)
        \/ SaveTable(t)
        \/ RefuseBackup(t)
        \/ ReplaceFile(t)
        \/ OpenFile(t)
        \/ LockTarget(t)
        \/ RefuseTarget(t)
        \/ LoadTable(t)
        \/ RefuseTable(t)
     /\ UNCHANGED <<rowVars, nextId>>
  \/ SetSequence(t) /\ UNCHANGED rowVars
  \/ CommitRestore(t) /\ UNCHANGED nextId

-----------------------------------------------------------------------------
(* A file at the destination has every table, and for each message the     *)
(* reading that was committed with it, even if rows were stored while the  *)
(* tables were read; if none were, it has the parents of its rows too, and *)
(* a database that is empty and has its columns takes every table of it.   *)
(* No death of a backup leaves part of a file there.                       *)
ReferencesHold(rows) ==
  /\ \A r \in rows.readings : r.msg \in rows.messages
  /\ \A m \in rows.messages : m.dev \in rows.devices

NoMessageAlone(rows) ==
  \A m \in rows.messages : \E r \in rows.readings : r.msg = m

EmptyTakes(s) == ~s.torn /\ IsEmpty /\ (s.wide => applied[WideFile] # None)

SnapshotWhole ==
  /\ file # NoFile =>
       /\ file.tables = 3
       /\ NoMessageAlone(file.rows)
       /\ file.torn \/ ReferencesHold(file.rows)
  /\ \A t \in Tools :
       AtTable(t) /\ EmptyTakes(source[t]) => KeysAllow(t, TableNames[pos[t]])

(* Whatever a completed backup leaves at the destination can be restored:  *)
(* no row in it lacks its parent.  (The tool calls it an atomic recovery   *)
(* snapshot.)                                                              *)
SnapshotRestorable == file # NoFile => ReferencesHold(file.rows)
=============================================================================
