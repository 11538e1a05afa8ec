---------------------------- MODULE LegacyImport ----------------------------
(***************************************************************************)
(* migrate_legacy_sqlite.py: the rows of a Ver2 SQLite file, in the order  *)
(* of their ids, become messages and readings of one device, which is      *)
(* active.  A batch is a transaction, and the run ends at the first        *)
(* exception.                                                              *)
(***************************************************************************)
EXTENDS Tables

CONSTANTS
  LegacyRows,   \* number of rows in the Ver2 file
  BatchSize     \* --batch-size

ASSUME ImportAssumption ==
  /\ LegacyRows \in Nat
  /\ BatchSize \in Nat \ {0}
  /\ Devices # {} /\ Zones # {}

VARIABLES
  target,       \* --device-id of a run
  zone,         \* --source-timezone of a run
  completed     \* runs that reported "completed" on this database

importVars == <<target, zone, completed>>

ImportStages == {"fetch", "row"}

ImportTypeOK ==
  /\ target \in [Tools -> Devices]
  /\ zone \in [Tools -> Zones]
  /\ completed \subseteq Zones \X Devices

ImportInit ==
  /\ target = [t \in Tools |-> CHOOSE d \in Devices : TRUE]
  /\ zone = [t \in Tools |-> CHOOSE z \in Zones : TRUE]
  /\ completed = {}

\* Mutant of Converted: rows are counted in their batch.
ConvertedInBatch(t) ==
  [origin |-> "ver2", row |-> 1 + ((pos[t] - 1) % BatchSize), zone |-> zone[t],
   dev |-> target[t]]

\* convert_row: the message id is uuid5 of the row, with its time as the zone
\* makes it.
Converted(t) ==
  [origin |-> "ver2", row |-> pos[t], zone |-> zone[t], dev |-> target[t]]

StartImport(t) ==
  /\ Begin(t, "fetch")
  /\ \E d \in Devices : target' = [target EXCEPT ![t] = d]
  /\ \E z \in Zones : zone' = [zone EXCEPT ![t] = z]
  /\ UNCHANGED <<hand, rowVars, nextId, completed>>

\* The open transaction has all rows of its batch.
BatchFull(t) ==
  pc[t] = "row" /\ ((pos[t] - 1) % BatchSize = 0 \/ pos[t] > LegacyRows)

AtRow(t) ==
  /\ pc[t] \in ImportStages
  /\ ~BatchFull(t)
  /\ pos[t] <= LegacyRows

\* In this transaction: the rows of other ones are there once committed.
MessageFree(t) == \A u \in Tools \ {t} : ~HoldsMessage(u, Converted(t))
RowFree(t) == \A u \in Tools \ {t} : ~Blocks(u, Converted(t))
Known(t) == {n \in messages : SameId(n, Converted(t))}
Clashes(t) ==
  \/ \E r \in readings : SameSlot(r.msg, Converted(t))
  \/ IdTaken(readings \cup hand[t].readings)

\* MIG-E003: the device is not there; MIG-E005: the row is another device's.
RefuseRow(t) ==
  /\ AtRow(t)
  /\ \/ target[t] \notin devices
     \/ MessageFree(t) /\ \E n \in Known(t) : n.dev # target[t]
  /\ Finish(t)
  /\ UNCHANGED <<rowVars, nextId, importVars>>

\* ON CONFLICT (message_id): the same row is there for the same device.
SkipDuplicate(t) ==
  /\ AtRow(t)
  /\ target[t] \in devices
  /\ MessageFree(t)
  /\ Known(t) # {}
  /\ \A n \in Known(t) : n.dev = target[t]
  /\ GoTo(t, "row")
  /\ MoveTo(t, pos[t] + 1)
  /\ UNCHANGED <<hand, rowVars, nextId, importVars>>

InsertRow(t) ==
  /\ AtRow(t)
  /\ target[t] \in devices
  /\ RowFree(t)
  /\ Known(t) = {} /\ ~Clashes(t)
  /\ Take(t, [hand[t] EXCEPT
                !.messages = @ \cup {Converted(t)},
                !.readings = @ \cup {[id |-> nextId, msg |-> Converted(t)]}])
  /\ nextId' = nextId + 1
  /\ GoTo(t, "row")
  /\ MoveTo(t, pos[t] + 1)
  /\ UNCHANGED <<rowVars, importVars>>

\* device_seq or id of the reading is taken; a value of the sequence is gone.
ReadingClashes(t) ==
  /\ AtRow(t)
  /\ target[t] \in devices
  /\ RowFree(t)
  /\ Known(t) = {} /\ Clashes(t)
  /\ nextId' = nextId + 1
  /\ Finish(t)
  /\ UNCHANGED <<rowVars, importVars>>

CommitBatch(t) ==
  /\ BatchFull(t)
  /\ Commit(t)
  /\ Take(t, NoRows)
  /\ GoTo(t, "fetch")
  /\ UNCHANGED <<pos, nextId, importVars>>

\* The file is read to its end: the report says "completed".
ReportCompleted(t) ==
  /\ pc[t] = "fetch" /\ pos[t] > LegacyRows
  /\ Finish(t)
  /\ completed' = completed \cup {<<zone[t], target[t]>>}
  /\ UNCHANGED <<rowVars, nextId, target, zone>>

\* The process dies or loses its connection, and the batch with it.
AbortImport(t) ==
  /\ pc[t] \in ImportStages
  /\ Finish(t)
  /\ UNCHANGED <<rowVars, nextId, importVars>>

ImportStep(t) ==
  \/ StartImport(t)
  \/ SkipDuplicate(t)
  \/ InsertRow(t)
  \/ RefuseRow(t)
  \/ ReadingClashes(t)
  \/ CommitBatch(t)
  \/ ReportCompleted(t)

-----------------------------------------------------------------------------
(* However often the import is started, dies, overlaps with another one or *)
(* is repeated after a restore, no row of Ver2 is stored twice: not for    *)
(* one device if the row has a number, and not in one zone at all.  What a *)
(* run reported as completed is there to the last row, and each message    *)
(* has one reading.                                                        *)
LegacyStoredOnce ==
  /\ \A m, n \in messages :
       /\ m.origin = "ver2" /\ n.origin = "ver2" /\ m.row = n.row
       /\ (Numbered(m) /\ m.dev = n.dev) \/ m.zone = n.zone
       => m = n
  /\ \A q, r \in readings : q.msg = r.msg => q = r
  /\ \A run \in completed, row \in 1..LegacyRows :
       [origin |-> "ver2", row |-> row, zone |-> run[1], dev |-> run[2]]
         \in messages
=============================================================================
