# Verification of the IoT sensor monitoring platform

TLA+ models of the platform in this repository, the TLC runs that check them on
small instances, and proofs that TLAPS checks for instances of every size.
Every definition is translated from the source; `PROJECT.json` ("map") names the
lines it stands for.

Contents: 1 The system, 2 The modules, 3 The runs, 4 What is proved,
5 Findings, 6 What is not modelled, 7 Plan.

## 1. The system

### Components

| Component | Code | State | Operations |
|---|---|---|---|
| Raspberry Pi client | `ver3/sensor_client_tiered.py` (and the simulator `sensor_client_sim.py`) | position in its loop, nothing durable | flush, read sensors, number, enqueue, send, apply the answer |
| Edge queue | `ver3/edge_queue.py` | SQLite: `device_seq` counter, `pending_messages` | `next_device_seq`, `enqueue`, `pending`, `mark_attempt`, `acknowledge` |
| Ingest server | `ver3/sensor_server.py`, `PostgresRepository.insert_sensor` in `ver3/database.py` | PostgreSQL: `ingest_messages`, `sensor_readings`, `devices`, `api_credentials`, `device_capabilities`; open connections | one request and one acknowledgement per connection |
| Remote control, agent | `ver3/control_agent.py` | SQLite: `processed_commands`, `outbox`, `metadata`; the machine's power state | poll, execute, report, confirm a boot |
| Remote control, server | `queue_/poll_/record_control_*` in `database.py`, the `device-control` routes of `web-app/app.py` | `control_commands`, `control_events`, `devices.last_control_poll_at` | queue a command, hand it out, record an event |
| Monitor | `ver3/web-app/monitor.py` | in memory: `last_checked_id`, `last_seq`, `missing_state`, `stale_since`; the table `monitor_events` | rebuild the memory, check new rows, check stale devices, deliver webhooks |
| Manual entry | `insert_manual` in `database.py`, `insert_data` in `app.py`, `insert.html`, Android `FeatureScreens.kt` | `ingest_messages`, `sensor_readings`, `manual_input_audit`; the app's queued payload, in memory and on disk | type, save, confirm, retry |
| Administrator session | `app.py` | Flask session, failure counter | elevate, touch, expire, command |
| Migrations | `apply_migrations` in `database.py`, `migrations/*.sql` | the tables themselves, `schema_migrations`, a session advisory lock | run the files a database lacks, record them |
| Backup and restore | `tools/backup_postgres_to_sqlite.py`, `tools/restore_sqlite_snapshot.py` | the snapshot file and its draft, an advisory lock, the sequence of `sensor_readings` | save table by table, replace the file; check the target, load, set the sequence |
| Import from Ver2 | `tools/migrate_legacy_sqlite.py` | the position in the old file; rows in `ingest_messages` and `sensor_readings` | convert and insert row by row, a transaction per batch |

The Pi talks to the ingest server over TCP, one JSON line per connection, one
acknowledgement back.  The server runs `insert_sensor` in a worker thread, so
that transactions of several connections interleave in PostgreSQL.  The agent
and the Android app talk HTTP to the Flask application.  Server processes share
nothing but the database.  The maintenance tools are processes of their own that
somebody starts, at any time and more than one at once; they meet the rest, and
each other, in the tables and in the snapshot file.

### What is hard

* **Retries overlap what they repeat.**  The client waits five seconds; its
  handler does not know and goes on.  Two transactions with one message id and
  one slot run at once.
* **Nobody knows whether a COMMIT happened** when its connection breaks, or when
  the acknowledgement is lost, or when either side loses power.
* **Order.**  A flush that fails is followed by the send of the newest reading;
  handed-out numbers may never be used; imported rows own some of them.
* **A reboot between two durable writes** of the control agent, and events that
  reach the server late, twice or out of order.
* **Commit order is not id order** for the monitor, which remembers the largest
  id it has seen.
* **A memory and a log.**  The monitor decides from its memory and writes a log;
  a rollback undoes the one and not the other, a restart rebuilds the memory.
* **Tools on a database in use.**  A migration file and its record are two
  transactions; a backup reads one table after the other; an import commits per
  batch; a restore sets a sequence that no rollback takes back.  Any of them can
  die, be repeated, or overlap with another one and with arriving readings.
* **A queue in front of a form.**  The Android app keeps one payload until it is
  confirmed, beside a screen that can show another one.

`PROJECT.json` ("hazards") lists these at their lines.

### What makes each component correct

* Ingest: a success is durable and exact; one row per message id, one reading
  per (device, number); a refusal is final and true; handlers never wait for each
  other in a circle.
* Edge queue and client: no reading is lost, none is stored twice, none is
  forgotten before it is stored; every one is settled in the end.
* Remote control: a dangerous command is executed at most once, and only after
  the server stored the event that announces it; the status an administrator
  reads is what happened; every command gets a result.
* Monitor: the alerts of a device alternate between open and recovered and say
  what was seen, and no number is passed over unseen and unreported; what is to be
  reported reaches the webhook, and is not marked
  before it has.
* Manual entry: what is called saved is stored; one form is one row, however
  often it is sent; no dangerous value without a confirmation.
* Maintenance tools: migrations run in order and once; no row loses its parent
  or a message its reading; a snapshot is of a whole database, and a restore
  brings back exactly that; no row of Ver2 is stored twice, and what was
  reported as imported is there; the next id is free.

## 2. The modules

| Module | Models |
|---|---|
| `Ingest` | the handlers of the ingest server and their transactions |
| `IdempotentStore` | what the server promises: each message is decided once, in one step |
| `EdgeQueue` | the SQLite queue on the Pi: state and operations |
| `SensorDelivery` | the client's loop, composed with `EdgeQueue` and `Ingest` |
| `DeliveryContract` | what the delivery path promises |
| `RemoteControl` | the agent on one Pi and the server's command table |
| `ControlContract` | what remote control promises |
| `Monitor` | detection: the rows that are seen, the memory and the alerts |
| `Notifier` | delivery of the alerts to the webhook |
| `ManualEntry` | the operator, the app or the form, and the dashboard that stores |
| `Tables` | the three tables the tools depend on each other in, keys, the tools' processes |
| `Migrations` | `apply_migrations` |
| `SnapshotTools` | backup and restore |
| `LegacyImport` | the import from Ver2 |
| `Recovery` | the three on one database that is in use, can be lost and is restored |
| `IngestProofs`, `SensorDeliveryProofs`, `RemoteControlProofs`, `MonitorProofs`, `NotifierProofs`, `ManualEntryProofs`, `RecoveryProofs` | the theorems |
| `SetBounds` | lemmas about least and greatest elements, for `MonitorProofs`, `NotifierProofs` and `RecoveryProofs` |
| `MCIngest`, `MCSensorDelivery`, `MCRemoteControl`, `MCMonitor`, `MCNotifier`, `MCManualEntry`, `MCRecovery` | model values and definitions for TLC |

### Ingest

A handler serves one connection.  `pc[h]` is the statement it runs next:

    idle -> pool -> auth -> caps -> claim -> store    -> commitInserted -> acking -> sent -> idle
                                         \              \ commitRejected /
                                          \-> existing -> end ----------/

| Action | Code |
|---|---|
| `Receive` | `handle_client` up to `parse_envelope`; a malformed body is answered at once |
| `Acquire` | `pool.connection()` |
| `Authenticate`, `CheckCapabilities` | the two SELECTs and their early returns |
| `Claim` | `INSERT INTO ingest_messages ... ON CONFLICT DO NOTHING`; waits while another transaction holds the same id |
| `ReadExisting` / `AnswerFor` | the SELECT after a conflict, and the four answers it leads to |
| `StoreReading` | the savepoint: INSERT of the reading, or UniqueViolation; and the UPDATE of the claim |
| `Commit` | the end of `conn.transaction()` |
| `FailTransaction`, `CommitUnreported` | an exception in `insert_sensor` before, or after, COMMIT took effect: `retry` |
| `ServerRestart` | the process dies; systemd starts it again |
| `ChangeAccess`, `ChangeCapabilities` | an operator changes the tables that are checked first |

Uncommitted rows are not a variable: which ones exist follows from `pc` and
`req` (`HoldsClaim`, `HoldsSlot`).  PostgreSQL is external and modelled as the
code uses it: READ COMMITTED, unique indexes that make an INSERT wait for an
uncommitted row with the same key, savepoints, atomic COMMIT.  A request is
`[mid, dev, seq, body]`; `canonical_payload_hash` covers all of it, so that
equal hashes are equal requests (SHA-256 collisions are left out), and
`body` stands for the trigger, the time and the values.  A body the checks of
`parse_envelope` refuse is in `Malformed`; what a device's capabilities allow is a
subset of the others (`WellFormed`).

A handler waits in three places: for a connection of the pool (`PoolFree`), for a
message id and for a slot another transaction has inserted.  `WaitsFor` is that
relation, `Blocked` the handlers that cannot go on.

### EdgeQueue and SensorDelivery

`outbox` is the table `pending_messages`, `seq` the counter.  `at` is where the
client is in its loop; `batch` is the list `flush_buffer` works on; `conn` is the
handler at the other end.  `TakeAck` applies an answer, `GiveUp` is a timeout
or a lost answer with the handler left running, `SeeHangUp` the end of a
connection whose server died, `CannotConnect` a server that is down,
`ClientCrash` a power cut at any step: SQLite transactions survive, the rest is
gone.  `Proceed` holds the one difference between the two clients: after a
rejected message `sensor_client_tiered.py` goes on with the flush,
`sensor_client_sim.py` ends it.  `BreakOnReject` is the set of the behaviours an
instance allows: `{FALSE}`, `{TRUE}`, or both.  `made` and `revised` are
history variables: what was ever queued, and whether an operator stepped in.

### RemoteControl

Server, agent and machine of one Pi that is registered and `control_enabled`.
Requests are numbered in the order in which they are made, `0` is "none".

* Server: `command`, `status`, `expired`, `recorded` (`control_events`) and
  `online`.  `HandlePoll` is `poll_control_command` and `RecordEvent` is
  `record_control_event`; each is one transaction under a row lock, and
  `SKIP LOCKED` is the choice of `locked` in `HandlePoll`.
* Agent, durable: `processed`, `outbox`, `pendingBoot`, `prepared`, `bootEvent` -
  the three SQLite tables.  Volatile: `at`, `ret` (where `flush_outbox` returns),
  `current`, `event`, `dryRun`.
* The stages are the commits of the code, in its order:

      start -> bootNote -> flush -> bootCheck -> bootForget      report_pending_boot
      flush -> poll -> execute                                   main
      execute -> reply -> flush                                  status, or a dry run
      execute -> announce -> note -> flush -> announced
              -> commit -> markExecuting -> systemctl            restart, shutdown

  `mark`, `enqueue_event`, `metadata_set` and `metadata_delete` commit separately,
  and `AgentCrash` and `PowerCut` can come between any two.
* A request without an answer (`SendUnanswered`, `PollUnanswered`) stays in
  `lateEvents` or `latePolls`, and the server may handle it at any later time, or
  never.  Several copies of one event can be under way.
* `systemctl` returns before the machine goes down; until `PowerDown` the agent
  goes on.  A `systemctl` that refuses or hangs is `AgentCrash` at stage
  `systemctl`: nothing catches `CalledProcessError` and `TimeoutExpired`, and
  systemd restarts the process.  One that cannot be started at all (an `OSError`)
  is caught by the loop, which goes on: `SystemctlNotStarted`.
* `DryRunSettings` are the values `CONTROL_DRY_RUN` may have when the agent
  starts; every start chooses one.

`made`, `ran` and `wentDown` are history.  The outbox is ordered by the number of
the event, which is the order of `created_at` as long as the clock of the Pi does
not step back.

### Monitor and Notifier

Both are parts of one process; they share the loop and the table
`monitor_events` and nothing else.  `Monitor` is everything up to the INSERT of
an event, `Notifier` what becomes of it: the rest of the loop is the stage
"cycle" there, and `dispatch_pending` is nothing here.

    down -> initSeqs -> initStates -> rows -> examine* -> stale -> check* -> rows
            initialize                check_new_rows     check_stale_devices

* `Insert` and `CommitRow` are two steps of a sensor or manual transaction: the
  id, which the monitor's cursor goes by, is handed out in the first, and the row
  is visible after the second.  Every SELECT of the monitor is one step and sees
  what is committed then; the three of `initialize` are three steps.
* `written` is what the open transaction has inserted, so that `Recorded`
  (`_record_event`) sees it and a rollback drops it; `lastChecked`, `lastSeq`,
  `missingState` and `staleSince` are the attributes of `DeviceMonitor`, which a
  rollback leaves as they are (`FailTransaction`, `FailInRow`).
* Time is one fact per device, `silent`: `FallSilent` is the passing of
  `STALE_THRESHOLD_SEC` without a reading.
* `Notifier` counts time in units of the shortest back-off.  `PostAccepted` and
  `MarkNotified` are two steps, the webhook's answer and the UPDATE;
  `Interrupted` is a database error (psycopg's exceptions are none of those that
  are caught per event) or the end of the process between any two steps.

`examined`, `baseSeq` and `failed` in `Monitor` are history: the rows that went
into `lastSeq`, the number it started from, and whether a transaction was lost
since the start.  `posts` in `Notifier` counts what the webhook received.

### ManualEntry

`kind` says whether the operator uses the app or the form.  A request is served in
one step: `insert_manual` takes the claim in `ingest_messages` as `insert_sensor`
does, and `Ingest` shows that protocol to be atomic.  What is interleaved is
everything around it.

| Action | Code |
|---|---|
| `Type` | the fields; in both they stay editable while a request is out, only the button is disabled |
| `Tick`, `Untick` | the app's checkbox, shown while the values are dangerous; an edit leaves it as it is |
| `Save` / `ToSend` | the button: the queued payload if there is one, else what is typed |
| `Serve` / `Answer` | `authenticate_request`, `needs_confirmation`, `insert_manual` |
| `ServeFails` | an exception before or after COMMIT: 503, or the form again |
| `TakeSaved`, `TakeRejected`, `TakeRetry` | the three branches of the app; the first is also the form's redirect |
| `TakePage`, `TakeLogin` | the page, filled in again with what was sent, with its message id and, if asked for, the confirmation's required checkbox; the login page |
| `GiveUp`, `ServeStray` | a timeout, and the abandoned request that arrives later |
| `ApplyPending` | `SharedPreferences.apply()` reaches the file |
| `Leave` | the screen is left, or the process ends with what is not in the file |
| `ChangeAccess` | a key, an identity or a device is switched off or on |

`confirmed` is `dangerConfirmed` of the app, and in the page whether it shows the
checkbox, without which it does not send then.  Either goes into the payload as it
is.

`SameHash` is `payload_hash`: message id, values and time, but not the
confirmation; a blank `measured_at` is the time of the request and never the same
twice.  `told`, `entries`, `used` and `revised` are history, and so is the number
of the form (`entry`) in a payload.

### Tables, Migrations, SnapshotTools, LegacyImport and Recovery

A process `t` runs one tool at a time.  `pc[t]` is its stage, `pos[t]` the file,
table or row it has come to, and `hand[t]` the rows it has written and not
committed, which a death drops.  Nobody reads another's hand, but an INSERT
waits for one that has a row with the same key (`HoldsMessage`, `Blocks`).

    migrate  idle -> inspect -> file <-> record -> idle
    back up  idle -> save (a table per step) -> idle
    restore  idle -> open -> load (a table per step) -> commit -> idle
    import   idle -> fetch <-> row -> idle

| Action | Code |
|---|---|
| `LockMigrations` | `pg_advisory_lock`, held by the session: the connection is in autocommit mode |
| `Inspect`, `SkipFile`, `AdoptFile`, `RefuseChangedFile` | `existing_schema` and the recorded digests, and what they decide |
| `RunFile`, `RecordFile` | the file, and the row in `schema_migrations`: two transactions, since nothing joins them; 004 alters `devices` and waits for its readers |
| `SaveTable`, `ReplaceFile` | one SELECT per table in a READ COMMITTED transaction, `os.replace` at the end |
| `OpenFile`, `LockTarget`, `RefuseTarget` | the snapshot is opened; `pg_advisory_xact_lock`, and the tables have to be empty |
| `LoadTable`, `RefuseTable` | the INSERTs of one table, which keys, foreign keys or a missing column can refuse |
| `SetSequence`, `CommitRestore` | `setval`, outside the transaction, then COMMIT |
| `InsertRow`, `SkipDuplicate`, `RefuseRow`, `ReadingClashes` | a row of the old file: new, known, MIG-E003 or MIG-E005, or its number or id is taken |
| `CommitBatch`, `ReportCompleted` | the end of a batch; the report |
| `ToolDies` | the process, its connection or a statement fails, at any step |
| `Register`, `StoreLive` | the system in use: `register_device`, `insert_sensor` |
| `LoseDatabase` | a new, empty database in place of the old one; the snapshot file is elsewhere |

The message id of a Ver2 row is a `uuid5` of its contents, in which the zone
counts (it makes the time) and the device does not: `SameId`.  What the tools do
not tell apart is left out: a row is its message, and a reading its id and its
message.  `executed`, `unrecorded`, `torn`, `mixed` and `completed` are history.

### Abstract specifications

* `IdempotentStore`: messages are stored or refused in one atomic step each, and
  a connection is only ever told what is then true.  `Ingest` implements it with
  `stored <- readings`, `refused` the payloads of the rejected rows and `said`
  the written answers (`ImplementsStore`).  `ManualEntry` implements the same store,
  with the message ids for the connections and nothing refused for ever
  (`ImplementsManualStore`): a manual reading has no slot another one could hold.
* `DeliveryContract`: produce, store, forget, quarantine; forgetting needs
  storing first, storing happens at most once.  `SensorDelivery` implements it
  with the outbox read as "not forgotten" (`ImplementsContract`).
* `ControlContract`: a command is asked for, offered, answered or given up; it
  runs at most once, and only when its announcement is on record.
  `RemoteControl` implements it with `announced` read off `control_events`.

What a specification of these promises by itself is stated in its module and
proved from it alone: `OneFate` and `DecisionsStay`, `OnlyStoredForgotten` and
`NothingReturns`, `OnceAndOnRecord` and `NoReturn`.  Whatever implements it keeps it.

## 3. The runs

| Run | Instance | Shows |
|---|---|---|
| `ingest` | 3 handlers that share 2 connections, 2 message ids, 2 bodies (one malformed), numbers 1..2, 1 fault, symmetry | types, `VerdictsAreTrue`, `TablesAgree`, `WaitsEnd`, `ImplementsStore`, no deadlock |
| `delivery` | the same server and both clients, numbers 1..2, an imported row that has one of them, flush limit 1, 1 fault, 2 mishaps | types, `NothingLost`, `SeqNamesOneReading`, `OnlyImportsConflict`, `QuarantineJustified`, `ImplementsContract`; `AtLeastOnce` and `EventuallySettled` under fairness; no deadlock |
| `control` | 2 commands of any kind, 1 mishap, dry run on or off at each start | types, `NoEventLost`, `StatusTellsTruth`, `RefusedIsNotRun`, `ImplementsContract`; `NeverLeftOpen` and `BootIsReported` under fairness; no deadlock |
| `controlStuck` | 1 command, 1 mishap, dry run off | `AnnouncedIsFinished` is violated (section 5) |
| `monitor` | 1 device, 3 readings (two lack a sensor, each another one) that start and commit in any order, 2 faults | types, `AlertsAlternate`, `MemoryMatchesLog`, `GapIsReal`; `SilenceNoticed` under fairness; no deadlock |
| `monitorSilence` | 1 reading, 1 fault | `EverySilenceReported` is violated (section 5) |
| `notifier` | 4 events, 2 always refused, LIMIT 2, back-off up to 4 units, up to 2 per cycle, 2 faults | types, `NotifiedIsDelivered`, `PostedOnce`; `AlertsDelivered` under fairness; no deadlock |
| `manual` | app and form, 2 message ids, 2 forms (safe or dangerous, timed or not), 4 mishaps | types, `EntryStoredOnce`, `DangerConfirmed`, `ImplementsManualStore`; `EventuallyTold` under fairness |
| `manualRetry`, `manualCleared` | the same with 1 mishap | `RetryIsRecognised`, `ClearedIsSaved` are violated (section 5) |
| `recovery` | 2 processes, 5 runs of any tool, 2 migration files, 3 rows of Ver2 in batches of 2 (one typed in, without a number), a Pi that stores a number of its own, 1 death, 1 loss of the database, symmetry | types, `MigratedInOrder`, `SnapshotWhole`, `LegacyStoredOnce`, `DatabaseWhole`, `IdsAreFresh` |
| `recoveryTorn` | the same | `SnapshotRestorable` is violated (section 5) |

**Bounds.**  Two handlers are what it takes for a retry to overlap the attempt
it repeats; each pair of transactions can meet at every statement.  A third one,
and a pool of two, add the wait for a connection and the wait for somebody who
waits (`WaitsEnd`; the longest chain, pool, message id and slot, takes four, and
the theorem covers it).  Two message ids and two numbers give every collision
there is: same id and content, same id and other content, same slot under two
ids.  One fault is a rollback, an unreported COMMIT or a restart at any
statement.  In `delivery` it takes three failures (one fault, two mishaps) until
two messages wait at one flush, and only then does a flush limit of one leave
one of them for the next flush, or does a refusal end a flush early.  `MaxSeq`,
`MaxFaults` and `MaxMishaps` are the only bounds that the code does not have;
the theorems hold for all their values. Symmetry is used in `ingest` (message
ids and handlers) and in `recovery` (processes), where nothing is checked under
fairness.

Two commands are what it takes for a restart to meet another command that is
still open, in either order of `SKIP LOCKED`.  The run with fairness has one
mishap; a crash in the recovery from a lost answer is outside it, and covered
for the safety properties by the theorems, which hold for every `MaxMishaps`.

One device is enough for the monitor: its decisions and its memory are per
device.  Three numbers are what it takes for a gap, for a row that comes late
into that gap, and for a row below the cursor; two faults for a lost
transaction after a restart, or a restart after one.  Manual readings (number
`0`) are part of the model but not of the run, where they would behave like
readings that never make a gap.  In `notifier` the refused events fill a whole
batch, so that their back-off is all that lets others through; the webhook's
limits are scaled down (20 rows to 2, 30 units to 4), keeping a back-off that
outgrows a cycle.  In `manual` two ids let a reading meet the next one under the
same id (after a refusal) and under another; four mishaps are a lost answer, a
restart and two changes of access.  The operator may stop at any time, so that
deadlock is not checked there (`CHECK_DEADLOCK FALSE`); `MaxRows`, `MaxEvents`,
`MaxEntries`, `MaxFaults`, `MaxMishaps` and the set `Ids` are bounds of the
model, `MaxSeq` and `MaxCycle` too.

In `recovery` two processes let any two tools overlap, a tool with itself
included.  Five runs are what a whole recovery takes: migrate, import or back
up, and after the loss migrate, restore and import again; one death can fall
into any of them.  Three rows in batches of two give a full batch, a rest, and a
death between the two; `WideFile` (the file that adds columns, 004 in the code)
is the second of two.  A Pi sends number 2, which the second row of Ver2 has
too, so that either can find its slot taken.  The runs start from a new
database, from one that is older than the tool, and from one that an earlier
release with another second file has migrated.  Under these bounds `StoreLive`
never meets an id that is taken: that needs a restore that other transactions
insert beside, and a reading after it; the theorem covers it.  Nobody has to run
a tool, so that deadlock is not checked; `MaxRuns`, `MaxFaults` and `MaxLosses`
are bounds of the model.

**Fairness.**  `WF_vars(ClientStep)`: the loop runs, and systemd restarts the
process.  `SF_vars(HandlerProgress(h))`: the event loop and the worker threads
run, and pool slots and row locks are handed over, so that a step that is
possible again and again is taken.  Faults and mishaps are not fair and are
finite in number: a server that is down for ever delivers nothing.  The client
may always skip a reading (`SkipReading`), so that liveness is about readings
that were queued.  Remote control: `WF_vars(AgentStep)`, because the loop of the
agent never ends and systemd restarts it; `WF` of `Expire`, because time passes;
`WF` of `PowerDown` and `PowerOn`: an accepted reboot happens, and somebody
switches the Pi on after a poweroff - without that, nothing is confirmed.
Administrators and late requests have no fairness.  Monitor: `WF` of its steps,
because `run` never returns and systemd restarts it (that the checks take turns
with the writers of rows is nothing assumed of the writers).  Notifier: the same,
and strong fairness of a call before which time has passed: `sleep` sees to that.
Manual entry: the operator ticks the box and presses the button again as long as the
form is open (unticking it is a mishap), and server and client answer; nothing makes anyone type.

**Mutants.**  Each property of each passing run has a mutant in `PROJECT.json`: a
plausible bug (a SELECT in place of the claiming INSERT, an answer kept after a
rollback, numbers taken from the rows that are left, ...) under which TLC finds
the property violated.

## 4. What is proved

TLAPS checks the following for every number of handlers, messages, devices and
faults (and of commands, events, forms, mishaps, tools, migration files, rows of
Ver2 and losses), from the assumptions `IngestAssumption`,
`FlushLimitAssumption`, `DeliveryAssumption`, `ControlAssumption`,
`MonitorAssumption`, `NotifierAssumption`, `ManualAssumption`,
`TablesAssumption`, `MigrationsAssumption`, `ImportAssumption` and
`RecoveryAssumption` on the constants.

* `IngestProofs`: `IngestTypeCorrect`, `IngestVerdictsAreTrue` (and its halves
  `IngestSuccessIsDurable`, `IngestConflictIsReal`), `IngestTablesAgree`,
  `IngestWaitsEnd`, `IngestImplementsStore`, `IngestDecidesOnce`.
* `SensorDeliveryProofs`: `DeliveryServerIsIngest`, `DeliveryTypeCorrect`,
  `DeliveryNothingLost`, `DeliverySeqNamesOneReading`,
  `DeliveryOnlyImportsConflict`, `DeliveryQuarantineJustified`,
  `DeliveryImplementsContract`, `DeliveryServerKeepsPromises`,
  `DeliveryNothingTakenBack`.
* `RemoteControlProofs`: `ControlTypeCorrect`, `ControlNoEventLost`,
  `ControlAnnouncedBeforeRun`, `ControlRefusedIsNotRun`, `ControlRunsOnce`,
  `ControlStatusTellsTruth`, `ControlImplementsContract`, `ControlNothingTakenBack`.
* `MonitorProofs`: `MonitorTypeCorrect`, `MonitorAlertsAlternate`,
  `MonitorMemoryMatchesLog`, `MonitorGapIsReal`.
* `NotifierProofs`: `NotifierTypeCorrect`, `NotifierNotifiedIsDelivered`,
  `NotifierPostedOnce`.
* `ManualEntryProofs`: `ManualTypeCorrect`, `ManualSavedIsStored`,
  `ManualEntryStoredOnce`, `ManualDangerConfirmed`, `ManualEntryImplementsStore`,
  `ManualTimedRetryRecognised`, `ManualQueuedUntilAnswered`, `ManualDecidesOnce`.
* `RecoveryProofs`: `RecoveryTypeCorrect`, `RecoveryMigratedInOrder`,
  `RecoverySnapshotWhole`, `RecoveryDatabaseWhole`, `RecoveryLegacyStoredOnce`,
  `RecoveryIdsAreFresh`, `RecoveryRestoreIsExact`.

Some of these state a property that no run has, because it follows from one that a
run does have, or is a part of it: `AnnouncedBeforeRun` and `SavedIsStored` from the
contracts; `TimedRetryRecognised`, `QueuedUntilAnswered`, `RestoreIsExact` and the
promises of the abstract specifications (`ManualDecidesOnce` among others) are stated
next to what the runs check, and hold in TLC on the same instances.

**The argument for the server.**  None of the properties is inductive: they
speak of committed rows, and it is the uncommitted ones that could break them at
COMMIT.  `IInv` says what a transaction in flight has secured: no two hold the
same claim or slot (`ClaimsDisjoint`, `SlotsDisjoint`), what was new when it was
inserted is still new (`ClaimsFresh`, `SlotsFresh`), and every decided answer is
true already (`AnswersTrue`).  `CommitKeepsIInv` is the only step where
uncommitted rows become committed; every other step is quiet
(`QuietKeepsIInv`).  For the refinement, a commit is `Store` or `Refuse`,
writing an answer is `Say`, closing and restarting are `HangUp`, and the rest
stutters.  `IngestDecidesOnce` then is a matter of the store alone
(`StorePromises`): one fate and one content per message id, one reading per slot,
nothing taken back.

`WaitsEnd` rests on the order in which the code takes what it waits for: a
connection, then the message id, then the slot.  Who holds a slot is about to
commit (`SlotHolderProceeds`); who holds a message id goes on or waits for a slot
(`ClaimHolderProceeds`); a pool that is empty is held by transactions
(`PoolIsHeld`).  So three steps along `WaitsFor` end at a handler that can go on.
`ExistingThere` takes care of the one wait nobody could end: a handler at "existing"
finds the row it conflicted with, because that row was committed when the INSERT
returned, and rows stay.

**The argument for the delivery path.**  `ComposedStep` shows that every step of
the composition is a step of `Ingest` or leaves the server alone, so that `IInv`
holds.  `DInv` adds what relates the two ends: the server knows only payloads the
client made (`ServerKnowsMade`), one name is one payload (`NamesUnique`), what
the client is about to send is in its outbox (`InHand`), and the handler it
waits on serves exactly that (`Connected`) - so that the answer `TakeAck` applies
is the answer to the row it deletes, and `AnswersTrue` says that this row is
stored.  `CInv` and `RInv` strengthen it for the two properties about refusals:
two requests of one client for one slot are the same request, hence a taken slot
was imported; and how far a request has come says which checks it has passed.

**The argument for remote control.**  `CInv` says what each stage of the agent
may rely on after any crash.  `Prepared`: the id in `event`, or noted in
`prepared`, names an announcement of this very request - so that "its row is
gone from the outbox" and `NoEventLost` together mean that the server has it.
`Marked`: on the way to `systemctl` the request is not marked as done, what ran
is marked `executing` and what was refused `dry_run_rejected`, and marks of
these kinds are never overwritten - hence no second run, and no run of a refused
command.  `Known`: whatever the agent has in hand was handed out by the server,
so that every event is an answer to a command that has left the queue.
`StatusTellsTruth` needs three more.  `Truth`: a pending boot and a boot report
speak of an announced request.  `Settled`: a status says which event it comes
from, and once the announcement is on record only an event moves it, so that
neither a poll nor expiry can make it look open or lost; one run per command is
a part of it (`ControlRunsOnce`).  `Straight`: while nothing has failed and
nothing was run, an announcement that was made is in the agent's hand, alone,
and nothing is left in the outbox when the agent looks for it.  One lemma per
part goes through all actions; a poll is `Offer`, an event that arrives is
`Answer`, `Systemctl` is `Run`, the rest stutters.

**The argument for the monitor.**  `Log` is the log as the open transaction sees
it, `events \o written`.  `LogsGood` says of it, and of what would be left after a
rollback, that alerts alternate and that an open DATA-MISSING names its sensors;
`RecordGood` is the one lemma about `_record_event` that keeps this, whatever the
memory made the monitor ask for - which is why `AlertsAlternate` survives failures
and `MemoryMatchesLog` needs its premise.  `MemoryIsLog` is that property at every
statement of a cycle, with `Log` for the events, and `SeqsAccounted` the part about
numbers: `last_seq` moves to a number only together with the examined row, and by
more than one only together with the SEQ-GAP between.  `SeqsKnown` (nothing examined is
beyond `last_seq`) and `OnlyCommitted` (only committed rows are examined, so that
`MAX(device_seq)` after a restart covers them) give `GapIsReal`, an action property.

**The argument for the notifier.**  `NInv`: the batch is of unsent events
(`BatchUnsent`), the one about to be marked was received (`MarkedReceived`), and
an event was posted no more often than there were failures, once more if it is
marked or about to be (`PostsOwed`).  An event is taken from the batch by `Min`
and the batch is cut by counting, so the proof needs that a nonempty set of
numbers has a least element and a bounded one a greatest (`SetBounds`, from the
well-foundedness of strict inclusion of finite sets).

**The argument for manual entry.**  A form is stored once because all copies of a
form that may still arrive - under way, queued, on disk, answered late - carry one
id (`OneIdPerEntry`), which is the one on the screen as long as the form is open
(`FormUnderId`), and an id names one row (`IdStoredOnce`).  A success is the truth
when it is sent (`AnswerIsTrue`), and stays it, since no row is changed.  The app
sends no dangerous value without a warning (`AppConfirms`), the server stores none.
For the refinement a request that is served is `Store` or nothing, and an answer that
is taken is `Say`; what it says was true when it was sent and no row goes away.  A
refusal names a row under the id with another hash (`RefusalIsConflict`), which
for a reading with a measuring time cannot be its own row.  `PageWaits` says that
the page keeps the id it has sent until the answer comes: when it is filled in again
with an earlier form, the copies of that form are under this id.  The app's checkbox
may be ticked for one value and used for the next, but what the payload says is what
it showed when the payload was built, and a payload is not changed.

**The argument for the maintenance tools.**  Four invariants, each resting on the
ones before.  `TInv`: types; the ids that exist anywhere, hands and files
included, are bounded, which is what makes `MAX(id)` a number.  `GInv`: the
migration lock has one holder (`LocksHeld`), so that what it has read stays true
until it acts on it, and every file before the one it has come to is recorded as
this release ships it (`Knows`), and a file was run once more than it was left
unrecorded only if it is recorded or about to be (`RunsCounted`).  `DInv`:
stored rows respect the keys (`Keyed(Stored)`), and the rows in any two hands
are apart from each other and from the stored ones (`Apart`), because an INSERT
waits - so that a COMMIT breaks no key.  Each stage says what its process has
(`ToolInv`): a draft is a part of what is stored, with the parents of its rows
unless it is `torn`; a restore's hand is the part of its file it has loaded; an
import's rows up to `pos` are stored or in its hand.  In a torn
file a reading can lack its message, but no other message there has its id
(`OneNamed`): the restore then is refused by the foreign key and never commits a
row without its parent.  When `LockTarget` finds the tables empty, no import has
rows in hand: their device would be stored.  `RestoreIsExact` comes out of the same:
between the check of the target and COMMIT nobody but the restore itself has
inserted, or `mixed` says so.
`SInv` says that ids are below the sequence, in hands too, unless `mixed`: a
reading was inserted by somebody else while a restore was loading, whose
explicit ids the sequence does not know.

**Only model-checked:** `AtLeastOnce`, `EventuallySettled`, `NeverLeftOpen`,
`BootIsReported`, `SilenceNoticed`, `AlertsDelivered` and `EventuallyTold`
(liveness is out of the prover's reach).

## 5. Findings

* `controlStuck`: after a failed flush the command is marked
  `waiting_for_server_ack`.  The flush at the top of the loop then delivers
  `shutdown_started`, the server sets the status to `shutting_down`, and no poll
  hands the command out again.  It is neither executed nor given up.  The theorem
  `ControlStatusTellsTruth` says that there are two ways into this: something has
  failed, as here, or the machine went down for another command meanwhile.
* `monitorSilence`: `check_stale_devices` notes a device in `stale_since` before its
  transaction commits.  If the transaction fails, the alert is gone and the note
  stays: this silence is never reported, though the monitor runs on and the
  database is back.  Only a reading of the device or a restart of the monitor
  ends that; `SilenceNoticed` holds where no transaction is lost.
* `manualRetry`: without a measuring time, the time of the request is hashed, so
  that the retry of a stored reading is refused as another one (`MSG-E002`).  The
  app then drops its payload with "save refused", the page goes on asking to try
  again - and a reading typed anew, under a new id, is stored twice.  With a
  measuring time every retry is recognised (`ManualTimedRetryRecognised`).
* `manualCleared`: the app sends what is queued, whatever the screen shows, and the
  screen can be edited while a request is out.  On success it clears the screen:
  a reading that was typed and never sent is gone, under the message that the
  save was confirmed.  The page is no safer: its fields can be edited during the
  POST too, and the page that answers replaces them - an empty one after a success,
  one with the values that were sent after a refusal.  Nothing there says that a
  reading is kept until it is confirmed, so that the property is about the app.

* `recoveryTorn`: `backup_postgres_to_sqlite.py:1` calls its result an atomic recovery
  snapshot, but each table is read by a SELECT of its own under READ COMMITTED,
  parents first.  A device that is registered, and its first message, between two
  of them leave a message without its device; the report says "completed", and
  the restore is refused by a foreign key and rolls back.  `SnapshotWhole` says
  what does hold: a message in the file never lacks its reading, and no row its
  parent if nothing was stored during the backup.

Consequences of the code that were met on the way and have no run of their own:

* Remote control: the Pi never reads `expires_at` (`admin.html:69` says it does), so
  that a command which was handed out in time runs however late its
  announcement gets through.  The pending boot is committed before `systemctl` is
  called; when that fails, the restarted agent reports `boot_confirmed` although
  nothing went down - or the agent is not restarted (`SystemctlNotStarted`), and the
  command waits, marked as executing, until it is.
* Manual entry: the app's confirmation belongs to the screen, not to the values.  It
  survives an edit and a refusal, so that a second dangerous value is sent without
  having been confirmed, and a harmless one can be sent with a confirmation in its
  audit row.  `DangerConfirmed` is about the box that was ticked.
* Delivery: access is checked before the message id.  A message that is stored,
  whose acknowledgement was lost, and whose device loses its access before the
  retry, is quarantined as refused (`QuarantineJustified` excuses exactly that);
  the same holds for a manual reading.
* Monitor: a row that commits after one with a larger id was seen is never
  looked at, and counts as missing in a `SEQ-GAP` (`GapIsReal` is about rows
  that were looked at).  `last_seq` moves before the transaction that holds the
  `SEQ-GAP` commits, so that a gap whose transaction is rolled back is reported
  by nobody; and `initialize` starts from the largest number in the table, so
  that a gap that opened while the monitor was down is not reported either
  (`MemoryMatchesLog` is about the numbers since, where no transaction was
  lost).  A row that commits between the first two SELECTs of `initialize` is
  reported `OUT-OF-ORDER`.  It looks at no value, though `ver3/README.md:18`
  names implausible ones: those are refused by the physical ranges of ingest, or
  compared on the Pi.  The webhook can receive "recovered" before "open", and an
  event twice after a failure.
* Remote control, again: a delayed copy of an event writes the status once more, so
  that a completed command can go back to `shutting_down` (`database.py:516`); and
  a second restart that is taken on before the machine goes down overwrites
  `pending_boot_request_id`, so that the first is never confirmed
  (`BootIsReported` is about the request that is pending when the machine goes
  down).
* Maintenance: a crash between a file and its record runs the file again
  (`MigratedInOrder` counts these).  The restore locks out other restores and
  nothing else: a reading that is stored while it loads can take an id of the
  snapshot, which ends the restore, or the sequence can be set behind it
  (`IdsAreFresh` excuses `mixed`).  The same Ver2 row imported under two zones is
  two messages; its number keeps a second one out, but a row that was typed in
  has none and is stored twice (`LegacyStoredOnce` says which).

## 6. What is not modelled

Sensor drivers, configuration and start-up checks, page rendering, logging and
message texts; wire format and size limits (one kind of malformed request);
SQLite's and PostgreSQL's internals (external, as used); clocks, except where a
timeout ends a wait; `attempt_count` and the other columns nothing reads.

The administrator session (`app.py`): password, elevation, idle and absolute
timeout, and the limit on failed logins.  It decides who may queue a command;
what follows from a command is `RemoteControl`, where administrators queue what
they like.  Its state is a signed cookie and a list in the memory of one worker
(so that the limit is per worker), and no other component reads it.

Of the maintenance tools: the conversion of values, statistics and `--dry-run`
of the import; eight of the eleven tables of a snapshot, which relate to each
other as the three do; whether the device of an import is active, which only
refuses more rows.  Of the migrations, what the files contain beyond the tables
and the columns 004 adds.  Sensor plausibility on the Pi compares two readings
and keeps nothing.

`PROJECT.json` ("components") gives the reason for every part.

## 7. Plan

Done: `Ingest`, `EdgeQueue`, `SensorDelivery`, `RemoteControl`, `Monitor`, `Notifier`,
`ManualEntry`, and `Migrations`, `SnapshotTools`, `LegacyImport` with their
composition `Recovery`; every invariant, action property and refinement that a run
checks is proved as well.

What follows:

1. An abstract specification of `Recovery`: a database that is emptied, filled from
   a snapshot, and extended.
2. `Recovery` with the clients of `SensorDelivery`: what a loss of the database
   means for messages that were acknowledged after the last snapshot.

Modules are written to be proved about: no `RECURSIVE` operator, named assumptions
on the constants, one action per operation, invariants in named parts.
