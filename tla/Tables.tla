------------------------------- MODULE Tables -------------------------------
(***************************************************************************)
(* The tables the maintenance tools of ver3/tools work on, as far as the   *)
(* tools depend on each other: devices, ingest_messages (its committed     *)
(* rows, all of status 'inserted') and sensor_readings, which migration    *)
(* 001 creates; and the processes that run the tools, each at most one     *)
(* tool at a time.  A tool's uncommitted rows are in its hand: nobody      *)
(* else reads them, but a row that would clash with one waits for it.      *)
(***************************************************************************)
EXTENDS Naturals

CONSTANTS
  Tools,        \* processes that can run a tool
  Devices,      \* device_id
  Zones,        \* values of --source-timezone
  NoZone,       \* for a reading of Ver3
  ManualRows,   \* rows of the Ver2 file that an operator had typed in
  None          \* no file, no digest, no holder of a lock

ASSUME TablesAssumption ==
  /\ ManualRows \subseteq Nat
  /\ NoZone \notin Zones
  /\ None \notin Tools

VARIABLES
  devices,      \* devices
  messages,     \* ingest_messages
  readings,     \* sensor_readings
  nextId,       \* sequence behind sensor_readings.id
  pc,           \* where a process is in the tool it runs
  pos,          \* the file, table or row it has come to
  hand          \* rows read and not saved, or written and not committed

rowVars == <<devices, messages, readings>>
processVars == <<pc, pos, hand>>

\* A message and its reading's device_seq.  Readings of Ver2 have the row
\* number of the old file; the id of such a message is a digest of the row,
\* whose time depends on the zone, and not of the device it is imported for.
Message == [origin : {"ver2", "ver3"}, row : Nat,
            zone : Zones \cup {NoZone}, dev : Devices]
Reading == [id : Nat, msg : Message]

SameId(m, n) ==
  /\ <<m.origin, m.row, m.zone>> = <<n.origin, n.row, n.zone>>
  /\ m.origin = "ver3" => m.dev = n.dev

\* device_seq is NULL for what was typed in.
Numbered(m) == ~(m.origin = "ver2" /\ m.row \in ManualRows)

\* UNIQUE (device_id, device_seq)
SameSlot(m, n) ==
  Numbered(m) /\ Numbered(n) /\ m.dev = n.dev /\ m.row = n.row

Rows == [devices : SUBSET Devices, messages : SUBSET Message,
         readings : SUBSET Reading]
NoRows == [devices |-> {}, messages |-> {}, readings |-> {}]

IdTaken(rs) == \E r \in rs : r.id = nextId

\* The stages of a transaction that inserts rows.
Writing == {"load", "commit", "row"}

\* A unique key is waited for while a row that has it may be rolled back.
HoldsMessage(u, m) ==
  pc[u] \in Writing /\ \E n \in hand[u].messages : SameId(m, n)
HoldsReading(u, m) ==
  /\ pc[u] \in Writing
  /\ \E r \in hand[u].readings : r.id = nextId \/ SameSlot(m, r.msg)
Blocks(u, m) == HoldsMessage(u, m) \/ HoldsReading(u, m)

TablesTypeOK ==
  /\ devices \subseteq Devices
  /\ messages \subseteq Message
  /\ readings \subseteq Reading
  /\ nextId \in Nat
  /\ pos \in [Tools -> Nat]
  /\ hand \in [Tools -> Rows]

\* The tables of a database nothing was written to.
NothingStored ==
  /\ devices = {}
  /\ messages = {}
  /\ readings = {}
  /\ nextId = 1

TablesInit ==
  /\ NothingStored
  /\ pc = [t \in Tools |-> "idle"]
  /\ pos = [t \in Tools |-> 0]
  /\ hand = [t \in Tools |-> NoRows]

-----------------------------------------------------------------------------
\* The steps of a process.

GoTo(t, stage) == pc' = [pc EXCEPT ![t] = stage]
MoveTo(t, n) == pos' = [pos EXCEPT ![t] = n]
Take(t, rows) == hand' = [hand EXCEPT ![t] = rows]

\* The end of a run, good or bad; what was not committed is gone.
Finish(t) ==
  /\ GoTo(t, "idle")
  /\ MoveTo(t, 0)
  /\ Take(t, NoRows)

\* Open transactions that have read devices, which keeps ALTER TABLE waiting.
HoldsDevices(t) ==
  \/ pc[t] = "save" /\ pos[t] > 1
  \/ pc[t] \in Writing

\* COMMIT of a process's rows.
Commit(t) ==
  /\ devices' = devices \cup hand[t].devices
  /\ messages' = messages \cup hand[t].messages
  /\ readings' = readings \cup hand[t].readings

Begin(t, stage) ==
  /\ pc[t] = "idle"
  /\ GoTo(t, stage)
  /\ MoveTo(t, 1)

=============================================================================
