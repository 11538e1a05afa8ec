------------------------------ MODULE Monitor ------------------------------
(***************************************************************************)
(* DeviceMonitor, of the monitor process (ver3/web-app/monitor.py): it     *)
(* reads what the ingest server and the dashboard store, keeps a memory of *)
(* what it has seen and writes monitor_events.  What becomes of an event   *)
(* is module Notifier's; dispatch_pending changes nothing that is read     *)
(* here, and a cycle that fails in it goes on like one that ends.          *)
(*                                                                         *)
(* An id is handed out when a row is inserted, and the row is seen when    *)
(* its transaction commits: rows become visible in any order.  Each SELECT *)
(* of the monitor reads what is committed at that moment.                  *)
(*                                                                         *)
(* Abstractions.  Devices are those with monitoring_enabled and status     *)
(* 'active'; rows of others are not returned by any query here.  Time is   *)
(* one fact: a device is silent (no reading within STALE_THRESHOLD_SEC).   *)
(* An insertion is taken to be short against the threshold.                *)
(***************************************************************************)
EXTENDS Integers, Sequences, FiniteSets, FiniteSetsExt

CONSTANTS
  Devices,      \* monitored, active devices
  Sensors,      \* required, enabled capabilities
  MaxSeq,       \* bound on device_seq; 0 is NULL, a manual reading's
  Kinds,        \* the readings a device may produce: <<device_seq, what it lacks>>
  MaxRows,      \* bound on the readings of a run
  MaxFaults     \* bound on crashes and failed statements

ASSUME MonitorAssumption ==
  /\ MaxSeq \in Nat
  /\ Kinds \subseteq (0..MaxSeq) \X SUBSET Sensors
  /\ MaxRows \in Nat
  /\ MaxFaults \in Nat

VARIABLES
  rows,         \* sensor_readings by id: [dev, seq, lacks, stored]
  silent,       \* device -> nothing received within the threshold
  events,       \* monitor_events by event_id
  pc,           \* what the monitor does next
  lastChecked,  \* last_checked_id
  lastSeq,      \* last_seq, 0 where it has no entry
  missingState, \* missing_state, {} where it has no entry
  staleSince,   \* the keys of stale_since
  work,         \* what is left of the rows or devices just read
  written,      \* events of the transaction that is open
  examined,     \* history: ids of the rows that entered lastSeq
  baseSeq,      \* history: the last_seq from which numbers were followed
  failed,       \* history: a transaction failed since the monitor started
  faults        \* failures so far (bounded by MaxFaults)

dbVars == <<rows, silent, events>>
memoryVars == <<lastChecked, lastSeq, missingState, staleSince>>
monitorVars == <<rows, silent, events, pc, lastChecked, lastSeq, missingState, staleSince, work, written, examined, baseSeq, failed, faults>>

ReadingRow == [dev : Devices, seq : 0..MaxSeq, lacks : SUBSET Sensors, stored : BOOLEAN]

StatefulCodes == {"DATA-MISSING", "DEVICE-STALE"}
EventCodes == StatefulCodes \cup {"SEQ-GAP", "OUT-OF-ORDER"}
EventStates == {"open", "recovered"}
Event == [dev : Devices, code : EventCodes, state : EventStates,
          sensors : SUBSET Sensors, previous : 0..MaxSeq, current : 0..MaxSeq]

NewEvent(d, code, state, sensors, previous, current) ==
  [dev |-> d, code |-> code, state |-> state, sensors |-> sensors,
   previous |-> previous, current |-> current]

StoredIds == {i \in DOMAIN rows : rows[i].stored}

\* The ids of d's events with this code in a log, and the newest of them.
Of(log, d, code) == {e \in DOMAIN log : log[e].dev = d /\ log[e].code = code}
Newest(log, d, code) == log[Max(Of(log, d, code))]
IsOpen(log, d, code) ==
  Of(log, d, code) # {} /\ Newest(log, d, code).state = "open"

Stages == {"down", "initSeqs", "initStates", "rows", "examine", "stale", "check"}

\* No step leaves a variable outside its type; work holds only what the stage
\* that is running may still look up.
MonitorTypeOK ==
  /\ rows \in Seq(ReadingRow) /\ Len(rows) <= MaxRows
  /\ silent \in [Devices -> BOOLEAN]
  /\ events \in Seq(Event)
  /\ pc \in Stages
  /\ lastChecked \in 0..Len(rows)
  /\ lastSeq \in [Devices -> 0..MaxSeq]
  /\ missingState \in [Devices -> SUBSET Sensors]
  /\ staleSince \subseteq Devices
  /\ work \subseteq (IF pc = "check" THEN Devices
                     ELSE IF pc = "examine" THEN DOMAIN rows ELSE {})
  /\ written \in Seq(Event)
  /\ examined \subseteq DOMAIN rows
  /\ baseSeq \in [Devices -> 0..MaxSeq]
  /\ failed \in BOOLEAN
  /\ faults \in 0..MaxFaults

MonitorInit ==
  /\ rows = <<>>
  /\ silent = [d \in Devices |-> TRUE]
  /\ events = <<>>
  /\ pc = "down"
  /\ lastChecked = 0
  /\ lastSeq = [d \in Devices |-> 0]
  /\ missingState = [d \in Devices |-> {}]
  /\ staleSince = {}
  /\ work = {}
  /\ written = <<>>
  /\ examined = {}
  /\ baseSeq = [d \in Devices |-> 0]
  /\ failed = FALSE
  /\ faults = 0

-----------------------------------------------------------------------------
\* What the other processes do to the database.

Insert(d, s, lacks) ==
  /\ Len(rows) < MaxRows
  /\ s = 0 \/ \A i \in DOMAIN rows : rows[i].dev # d \/ rows[i].seq # s
  /\ rows' = Append(rows, [dev |-> d, seq |-> s, lacks |-> lacks, stored |-> FALSE])
  /\ UNCHANGED <<silent, events, pc, memoryVars, work, written,
                 examined, baseSeq, failed, faults>>

CommitRow(i) ==
  /\ i \in DOMAIN rows \ StoredIds
  /\ rows' = [rows EXCEPT ![i].stored = TRUE]
  /\ silent' = [silent EXCEPT ![rows[i].dev] = FALSE]
  /\ UNCHANGED <<events, pc, memoryVars, work, written, examined, baseSeq,
                 failed, faults>>

\* STALE_THRESHOLD_SEC pass without a reading of d.
FallSilent(d) ==
  /\ ~silent[d]
  /\ silent' = [silent EXCEPT ![d] = TRUE]
  /\ UNCHANGED <<rows, events, pc, memoryVars, work, written,
                 examined, baseSeq, failed, faults>>

-----------------------------------------------------------------------------
\* initialize: three SELECTs.

InitializeCursor ==
  /\ pc = "down"
  /\ pc' = "initSeqs"
  /\ lastChecked' = Max(StoredIds \cup {0})
  /\ failed' = FALSE
  /\ UNCHANGED <<dbVars, lastSeq, missingState, staleSince, work,
                 written, examined, baseSeq, faults>>

InitializeSeqs ==
  /\ pc = "initSeqs"
  /\ pc' = "initStates"
  /\ lastSeq' = [d \in Devices |->
       Max({rows[i].seq : i \in {j \in StoredIds : rows[j].dev = d}} \cup {0})]
  /\ examined' = examined \cup StoredIds
  /\ baseSeq' = lastSeq'
  /\ UNCHANGED <<dbVars, lastChecked, missingState, staleSince, work,
                 written, failed, faults>>

NothingRestored == {}                                       \* mutant
OpenSilences == {d \in Devices : IsOpen(events, d, "DEVICE-STALE")}

InitializeStates ==
  /\ pc = "initStates"
  /\ pc' = "rows"
  /\ staleSince' = OpenSilences
  /\ missingState' = [d \in Devices |->
       IF IsOpen(events, d, "DATA-MISSING")
       THEN Newest(events, d, "DATA-MISSING").sensors ELSE {}]
  /\ UNCHANGED <<dbVars, lastChecked, lastSeq, work, written,
                 examined, baseSeq, failed, faults>>

-----------------------------------------------------------------------------
\* _record_event: what it adds to the log, the open transaction included.

AlwaysRecorded(d, code, state, sensors, previous, current) ==  \* mutant
  <<NewEvent(d, code, state, sensors, previous, current)>>

Recorded(d, code, state, sensors, previous, current) ==
  LET log == events \o written IN
  IF /\ code \in StatefulCodes
     /\ Of(log, d, code) # {}
     /\ Newest(log, d, code).state = state
  THEN <<>>
  ELSE <<NewEvent(d, code, state, sensors, previous, current)>>

\* check_new_rows: the SELECT, one step per row, COMMIT.

ReadRows ==
  /\ pc = "rows"
  /\ pc' = "examine"
  /\ work' = {i \in StoredIds : i > lastChecked}
  /\ UNCHANGED <<dbVars, memoryVars, written, examined, baseSeq, failed, faults>>

MissingEvents(d, missing) ==
  LET before == missingState[d] IN
  IF missing # {} /\ missing # before
  THEN Recorded(d, "DATA-MISSING", "open", missing, 0, 0)
  ELSE IF missing = {} /\ before # {}
       THEN Recorded(d, "DATA-MISSING", "recovered", before, 0, 0)
       ELSE <<>>

SeqEvents(d, seq) ==
  LET previous == lastSeq[d] IN
  IF seq = 0 \/ previous = 0 THEN <<>>
  ELSE IF seq > previous + 1
       THEN Recorded(d, "SEQ-GAP", "open", {}, previous, seq)
       ELSE IF seq <= previous
            THEN Recorded(d, "OUT-OF-ORDER", "open", {}, previous, seq)
            ELSE <<>>

LatestSeq(previous, seq) == IF seq = 0 THEN previous ELSE seq     \* mutant
HighestSeq(previous, seq) == Max({previous, seq})

ExamineRow ==
  /\ pc = "examine" /\ work # {}
  /\ LET i == Min(work)
         r == rows[i]
     IN /\ work' = work \ {i}
        /\ lastChecked' = Max({lastChecked, i})
        /\ written' = written \o MissingEvents(r.dev, r.lacks) \o SeqEvents(r.dev, r.seq)
        /\ missingState' = [missingState EXCEPT ![r.dev] = r.lacks]
        /\ lastSeq' = [lastSeq EXCEPT ![r.dev] = HighestSeq(@, r.seq)]
        /\ examined' = examined \cup {i}
        /\ baseSeq' = [baseSeq EXCEPT ![r.dev] = IF lastSeq[r.dev] = 0 THEN r.seq ELSE @]
  /\ UNCHANGED <<dbVars, pc, staleSince, failed, faults>>

\* COMMIT of the open transaction.
CommitEvents(stage) ==
  /\ work = {}
  /\ pc' = stage
  /\ events' = events \o written
  /\ written' = <<>>
  /\ UNCHANGED <<rows, silent, memoryVars, work, examined, baseSeq, failed, faults>>

CommitRows == pc = "examine" /\ CommitEvents("stale")

-----------------------------------------------------------------------------
\* check_stale_devices: the SELECT, one step per device that has changed, COMMIT.

NewlySilent == {d \in Devices \ staleSince : silent[d]}           \* mutant
Changed == {d \in Devices : silent[d] # (d \in staleSince)}

ReadDevices ==
  /\ pc = "stale"
  /\ pc' = "check"
  /\ work' = Changed
  /\ UNCHANGED <<dbVars, memoryVars, written, examined, baseSeq, failed, faults>>

ReportStale(d) ==
  /\ d \notin staleSince
  /\ staleSince' = staleSince \cup {d}
  /\ written' = written \o Recorded(d, "DEVICE-STALE", "open", {}, 0, 0)

ReportRecovered(d) ==
  /\ d \in staleSince
  /\ staleSince' = staleSince \ {d}
  /\ written' = written \o Recorded(d, "DEVICE-STALE", "recovered", {}, 0, 0)

CheckDevice(d) ==
  /\ pc = "check" /\ d \in work
  /\ work' = work \ {d}
  /\ ReportStale(d) \/ ReportRecovered(d)
  /\ UNCHANGED <<dbVars, pc, lastChecked, lastSeq, missingState,
                 examined, baseSeq, failed, faults>>

CommitStale == pc = "check" /\ CommitEvents("rows")

\* A statement or the COMMIT of either transaction fails.  The rows written are
\* rolled back, the memory is not, and run goes on with the next cycle.
FailTransaction ==
  /\ pc \in {"examine", "check"} /\ faults < MaxFaults
  /\ pc' = "rows"
  /\ work' = {} /\ written' = <<>>
  /\ failed' = TRUE
  /\ faults' = faults + 1
  /\ UNCHANGED <<dbVars, memoryVars, examined, baseSeq>>

\* _record_event fails: the row has moved last_checked_id, and missing_state if
\* it was SEQ-GAP or OUT-OF-ORDER that could not be recorded.
FailInRow ==
  /\ pc = "examine" /\ work # {} /\ faults < MaxFaults
  /\ LET i == Min(work)
         r == rows[i]
         recorded == MissingEvents(r.dev, r.lacks)
         numbered == SeqEvents(r.dev, r.seq)
     IN /\ lastChecked' = Max({lastChecked, i})
        /\ \/ recorded # <<>> /\ UNCHANGED missingState
           \/ numbered # <<>> /\ missingState' = [missingState EXCEPT ![r.dev] = r.lacks]
  /\ pc' = "rows"
  /\ work' = {} /\ written' = <<>>
  /\ failed' = TRUE
  /\ faults' = faults + 1
  /\ UNCHANGED <<dbVars, lastSeq, staleSince, examined, baseSeq>>

\* The SELECT of the stale check fails: the rest of the cycle is skipped.
CycleFails ==
  /\ pc = "stale" /\ faults < MaxFaults
  /\ pc' = "rows"
  /\ faults' = faults + 1
  /\ UNCHANGED <<dbVars, memoryVars, work, written, examined, baseSeq, failed>>

-----------------------------------------------------------------------------
\* The process ends, with its memory; systemd starts it again.
ForgetMemory ==
  /\ lastChecked' = 0
  /\ lastSeq' = [d \in Devices |-> 0]
  /\ missingState' = [d \in Devices |-> {}]
  /\ staleSince' = {}
  /\ written' = <<>>
  /\ baseSeq' = [d \in Devices |-> 0]

CrashMidWork ==                                             \* mutant of Crash
  /\ pc # "down" /\ faults < MaxFaults
  /\ pc' = "down"
  /\ ForgetMemory
  /\ faults' = faults + 1
  /\ UNCHANGED <<dbVars, work, examined, failed>>

Crash ==
  /\ pc # "down" /\ faults < MaxFaults
  /\ pc' = "down"
  /\ ForgetMemory
  /\ work' = {}
  /\ faults' = faults + 1
  /\ UNCHANGED <<dbVars, examined, failed>>

MonitorStep ==
  \/ InitializeCursor \/ InitializeSeqs \/ InitializeStates
  \/ ReadRows \/ ExamineRow \/ CommitRows
  \/ ReadDevices \/ (\E d \in Devices : CheckDevice(d)) \/ CommitStale

MonitorFault == FailTransaction \/ FailInRow \/ CycleFails \/ Crash

Environment ==
  \/ \E d \in Devices, k \in Kinds : Insert(d, k[1], k[2])
  \/ \E i \in DOMAIN rows : CommitRow(i)
  \/ \E d \in Devices : FallSilent(d)

MonitorNext == MonitorStep \/ MonitorFault \/ Environment

MonitorSpec == MonitorInit /\ [][MonitorNext]_monitorVars

\* run loops for ever and systemd restarts it.  Nothing is assumed of the devices,
\* nor of the order in which readings commit.
MonitorFairSpec ==
  /\ MonitorSpec
  /\ WF_monitorVars(MonitorStep)

-----------------------------------------------------------------------------
\* The alerts of a device alternate: neither a restart, a rolled back
\* transaction nor a change in which sensors are missing opens an alert that is
\* open or closes one that is closed, although the decision to record one is
\* taken from the memory (monitor.py:184, 233, 298).
AlertsAlternate ==
  \A d \in Devices, code \in StatefulCodes :
    \A e, f \in Of(events, d, code) :
      (e < f /\ events[e].state = events[f].state) =>
        \E g \in Of(events, d, code) : e < g /\ g < f /\ events[g].state # events[e].state

\* A number of d that a row had which was looked at, or that lies in a gap.
Seen(d, n) == \E i \in examined : rows[i].dev = d /\ rows[i].seq = n
InGap(log, d, n) ==
  \E e \in Of(log, d, "SEQ-GAP") : log[e].previous < n /\ n < log[e].current

\* Between cycles the memory says what the log says, in particular after a
\* restart has rebuilt it (initialize), unless a transaction has been rolled back
\* since the start; then a restart is what makes them agree again.  Behind
\* last_seq there is no number that was neither seen nor reported missing, in
\* whatever order the readings came, from the first one on that was followed.
MemoryMatchesLog ==
  (pc = "rows" /\ ~failed) =>
    \A d \in Devices :
      /\ (d \in staleSince) = IsOpen(events, d, "DEVICE-STALE")
      /\ (missingState[d] # {}) = IsOpen(events, d, "DATA-MISSING")
      /\ \A n \in (baseSeq[d] + 1)..lastSeq[d] : Seen(d, n) \/ InGap(events, d, n)

\* A SEQ-GAP is never contradicted by what the monitor had looked at: none of
\* the numbers it reports missing was in a row that entered last_seq before,
\* across restarts and readings that arrive out of order.
GapIsReal ==
  [][\A e \in DOMAIN written' \ DOMAIN written :
       written'[e].code = "SEQ-GAP" =>
         \A i \in examined :
           \/ rows[i].dev # written'[e].dev
           \/ rows[i].seq <= written'[e].previous
           \/ written'[e].current <= rows[i].seq]_monitorVars

\* Unless a rolled back transaction has left the memory wrong, a device that
\* stays silent ends with an open alert and one that keeps talking with none,
\* whatever crashes and failures precede.
SilenceNoticed ==
  <>[]~failed => \A d \in Devices :
    /\ <>[]silent[d] => <>[]IsOpen(events, d, "DEVICE-STALE")
    /\ <>[]~silent[d] => <>[]~IsOpen(events, d, "DEVICE-STALE")

\* Without the premise of SilenceNoticed: every lasting silence is reported.
EverySilenceReported ==
  \A d \in Devices : <>[]silent[d] => <>IsOpen(events, d, "DEVICE-STALE")
=============================================================================
