-------------------------------- MODULE Ingest --------------------------------
(***************************************************************************)
(* The TCP ingest server: handle_client (ver3/sensor_server.py) running    *)
(* PostgresRepository.insert_sensor (ver3/database.py) in a worker thread. *)
(* One handler serves one connection.  Its transaction is a sequence of    *)
(* statements, and those of several handlers interleave.                   *)
(*                                                                         *)
(* PostgreSQL is external code: READ COMMITTED, and an INSERT that meets   *)
(* an uncommitted row with the same unique key waits for that transaction  *)
(* to end.  A handler's uncommitted rows follow from its pc and req.       *)
(*                                                                         *)
(* A request is [mid, dev, seq, body].  The token and the measuring time   *)
(* are not kept apart from it: canonical_payload_hash covers all the rest, *)
(* so that equal hashes are equal requests.                                *)
(***************************************************************************)
EXTENDS Integers, FiniteSets

CONSTANTS
  MessageIds,   \* UUIDs chosen by the clients
  Devices,      \* device_id values
  Bodies,       \* what else an envelope says: trigger, time, sensor values
  Malformed,    \* the bodies that parse_envelope refuses
  MaxSeq,       \* bound on device_seq (a BIGINT from 1 in the code)
  NoRequest,    \* what an idle handler serves
  Handlers,     \* connections that can be open at the same time
  PoolSize,     \* database connections (max_size=10 in the code)
  Prior,        \* <<dev, seq>> of readings imported from an older system
  MaxFaults     \* bound on the failures and policy changes of a run

Request == [mid : MessageIds, dev : Devices, seq : 1..MaxSeq, body : Bodies]

ASSUME IngestAssumption ==
  /\ Malformed \subseteq Bodies
  /\ Prior \subseteq Devices \X Nat
  /\ MaxSeq \in Nat
  /\ NoRequest \notin Request
  /\ PoolSize \in Nat \ {0}
  /\ MaxFaults \in Nat

VARIABLES
  active,       \* device -> its token is valid and its status is 'active'
  supported,    \* device -> bodies whose values all have an enabled capability
  ingest,       \* committed rows of ingest_messages
  readings,     \* committed rows of sensor_readings (their requests)
  pc,           \* handler -> the statement it runs next
  req,          \* handler -> the request it serves
  ack,          \* handler -> the acknowledgement it has decided on
  faults        \* failures so far (bounded by MaxFaults)

dbVars == <<ingest, readings>>
policyVars == <<active, supported>>
ingestVars == <<active, supported, ingest, readings, pc, req, ack, faults>>

\* Bodies that parse_envelope lets through, and so have values to be supported.
WellFormed == Bodies \ Malformed

Slot(r) == <<r.dev, r.seq>>

Statuses == {"processing", "inserted", "rejected"}
Row == [payload : Request, status : Statuses]

AckStatuses == {"none", "inserted", "duplicate", "rejected", "retry"}
Codes == {"none", "MSG-E001", "MSG-E002", "MSG-E013", "AUTH-E002", "CAP-E001",
          "DB-E006"}
Ack(s, c) == [status |-> s, code |-> c]
NoAck == Ack("none", "none")
UnknownStatusAck == Ack("error", "DB-E006")          \* mutant of RetryAck
RetryAck == Ack("retry", "DB-E006")
Success == {"inserted", "duplicate"}

\* States in which a handler is inside its transaction.
ReadingOnly == {"auth", "caps", "claim", "existing", "end"}
Claiming == {"store", "commitInserted", "commitRejected"}
InTransaction == ReadingOnly \cup Claiming
Stages == {"idle", "pool", "acking", "sent"} \cup InTransaction

\* Mutant of HoldsClaim: a SELECT looks for the message id, and nothing waits.
ClaimsNothing(h, m) == FALSE

\* The handler holds an uncommitted ingest_messages row for its message id ...
HoldsClaim(h, m) == pc[h] \in Claiming /\ req[h].mid = m
\* Mutant of HoldsSlot: a share lock on the slot is taken together with the claim.
HoldsSlotEarly(h, s) == pc[h] \in Claiming /\ Slot(req[h]) = s
\* ... and an uncommitted sensor_readings row for its slot.
HoldsSlot(h, s) == pc[h] = "commitInserted" /\ Slot(req[h]) = s

SlotTaken(s) == s \in Prior \/ \E r \in readings : Slot(r) = s

IngestTypeOK ==
  /\ active \in [Devices -> BOOLEAN]
  /\ supported \in [Devices -> SUBSET WellFormed]
  /\ ingest \subseteq Row
  /\ readings \subseteq Request
  /\ pc \in [Handlers -> Stages]
  /\ req \in [Handlers -> Request \cup {NoRequest}]
  /\ ack \in [Handlers -> [status : AckStatuses, code : Codes]]
  /\ faults \in 0..MaxFaults

IngestInit ==
  /\ active \in [Devices -> BOOLEAN]
  /\ supported \in [Devices -> SUBSET WellFormed]
  /\ ingest = {}
  /\ readings = {}
  /\ pc = [h \in Handlers |-> "idle"]
  /\ req = [h \in Handlers |-> NoRequest]
  /\ ack = [h \in Handlers |-> NoAck]
  /\ faults = 0

-----------------------------------------------------------------------------
\* The steps of one handler.

Goto(h, stage) ==
  /\ pc' = [pc EXCEPT ![h] = stage]
  /\ UNCHANGED ack

\* The verdict of the transaction, and the statement that ends it.
Conclude(h, a, stage) ==
  /\ ack' = [ack EXCEPT ![h] = a]
  /\ pc' = [pc EXCEPT ![h] = stage]

\* readuntil, json.loads and parse_envelope touch nothing shared.
Receive(h, r) ==
  /\ pc[h] = "idle"
  /\ req' = [req EXCEPT ![h] = r]
  /\ IF r.body \in Malformed
     THEN Conclude(h, Ack("rejected", "MSG-E001"), "acking")
     ELSE Goto(h, "pool")
  /\ UNCHANGED <<policyVars, dbVars, faults>>

\* pool.connection(): wait for one of the PoolSize connections.
PoolFree == Cardinality({g \in Handlers : pc[g] \in InTransaction}) < PoolSize

Acquire(h) ==
  /\ pc[h] = "pool"
  /\ PoolFree
  /\ Goto(h, "auth")
  /\ UNCHANGED <<policyVars, dbVars, req, faults>>

Authenticate(h) ==
  /\ pc[h] = "auth"
  /\ IF active[req[h].dev]
     THEN Goto(h, "caps")
     ELSE Conclude(h, Ack("rejected", "AUTH-E002"), "end")
  /\ UNCHANGED <<policyVars, dbVars, req, faults>>

CheckCapabilities(h) ==
  /\ pc[h] = "caps"
  /\ IF req[h].body \in supported[req[h].dev]
     THEN Goto(h, "claim")
     ELSE Conclude(h, Ack("rejected", "CAP-E001"), "end")
  /\ UNCHANGED <<policyVars, dbVars, req, faults>>

\* INSERT INTO ingest_messages ... ON CONFLICT (message_id) DO NOTHING.
Claim(h) ==
  /\ pc[h] = "claim"
  /\ ~\E g \in Handlers \ {h} : HoldsClaim(g, req[h].mid)
  /\ IF \E row \in ingest : row.payload.mid = req[h].mid
     THEN Goto(h, "existing")
     ELSE Goto(h, "store")
  /\ UNCHANGED <<policyVars, dbVars, req, faults>>

\* Mutant of AnswerFor: the content is not compared.
AnswerForAnyContent(row, r) ==
  IF row.status = "inserted" THEN Ack("duplicate", "none")
  ELSE Ack("rejected", "MSG-E013")

\* Replay the outcome of the request that used this message id before.
AnswerFor(row, r) ==
  IF row.payload # r THEN Ack("rejected", "MSG-E002")
  ELSE CASE row.status = "inserted" -> Ack("duplicate", "none")
         [] row.status = "rejected" -> Ack("rejected", "MSG-E013")
         [] row.status = "processing" -> RetryAck

ReadExisting(h) ==
  /\ pc[h] = "existing"
  /\ \E row \in ingest :
       /\ row.payload.mid = req[h].mid
       /\ Conclude(h, AnswerFor(row, req[h]), "end")
  /\ UNCHANGED <<policyVars, dbVars, req, faults>>

\* INSERT INTO sensor_readings in a savepoint, then the UPDATE of the claim:
\* a UniqueViolation undoes the savepoint only.
StoreReading(h) ==
  /\ pc[h] = "store"
  /\ ~\E g \in Handlers \ {h} : HoldsSlot(g, Slot(req[h]))
  /\ IF SlotTaken(Slot(req[h]))
     THEN Conclude(h, Ack("rejected", "MSG-E013"), "commitRejected")
     ELSE Conclude(h, Ack("inserted", "none"), "commitInserted")
  /\ UNCHANGED <<policyVars, dbVars, req, faults>>

\* What COMMIT makes visible.
CommitEffect(h) ==
  LET status == IF pc[h] = "commitInserted" THEN "inserted" ELSE "rejected"
  IN IF pc[h] = "end" THEN UNCHANGED dbVars
     ELSE /\ ingest' = ingest \cup {[payload |-> req[h], status |-> status]}
          /\ readings' = IF pc[h] = "commitInserted"
                         THEN readings \cup {req[h]} ELSE readings

Ending == {"end", "commitInserted", "commitRejected"}

Commit(h) ==
  /\ pc[h] \in Ending
  /\ CommitEffect(h)
  /\ Goto(h, "acking")
  /\ UNCHANGED <<policyVars, req, faults>>

WriteAck(h) ==
  /\ pc[h] = "acking"
  /\ Goto(h, "sent")
  /\ UNCHANGED <<policyVars, dbVars, req, faults>>

\* The acknowledgement is read, or the peer is gone: writer.close().
Close(h) ==
  /\ pc[h] = "sent"
  /\ req' = [req EXCEPT ![h] = NoRequest]
  /\ Conclude(h, NoAck, "idle")
  /\ UNCHANGED <<policyVars, dbVars, faults>>

-----------------------------------------------------------------------------
\* What goes wrong.

Fault == faults < MaxFaults /\ faults' = faults + 1

\* Mutant of FailTransaction: an answer that was decided before the error is
\* still given.
FailKeepsAnswer(h) ==
  /\ Fault
  /\ pc[h] \in Ending
  /\ Goto(h, "acking")
  /\ UNCHANGED <<policyVars, dbVars, req>>

\* PoolTimeout, or any database error before COMMIT: the exception leaves
\* insert_sensor, the transaction is rolled back, the answer is "retry".
FailTransaction(h) ==
  /\ Fault
  /\ pc[h] \in {"pool"} \cup InTransaction
  /\ Conclude(h, RetryAck, "acking")
  /\ UNCHANGED <<policyVars, dbVars, req>>

\* The connection breaks after COMMIT took effect and before it was reported.
CommitUnreported(h) ==
  /\ Fault
  /\ pc[h] \in Ending
  /\ CommitEffect(h)
  /\ Conclude(h, RetryAck, "acking")
  /\ UNCHANGED <<policyVars, req>>

\* The server process dies and systemd starts it again: every connection is
\* cut, every open transaction rolled back.
ServerRestart ==
  /\ Fault
  /\ \E h \in Handlers : pc[h] # "idle"
  /\ pc' = [h \in Handlers |-> "idle"]
  /\ req' = [h \in Handlers |-> NoRequest]
  /\ ack' = [h \in Handlers |-> NoAck]
  /\ UNCHANGED <<policyVars, dbVars>>

\* An operator revokes or restores a device (status, credential) ...
ChangeAccess(d) ==
  /\ Fault
  /\ active' = [active EXCEPT ![d] = ~@]
  /\ UNCHANGED <<supported, dbVars, pc, req, ack>>

\* ... or changes which sensors it is said to carry.
ChangeCapabilities(d) ==
  /\ Fault
  /\ \E B \in SUBSET WellFormed \ {supported[d]} :
       supported' = [supported EXCEPT ![d] = B]
  /\ UNCHANGED <<active, dbVars, pc, req, ack>>

-----------------------------------------------------------------------------
HandlerStep(h) ==
  \/ Acquire(h)
  \/ Authenticate(h)
  \/ CheckCapabilities(h)
  \/ Claim(h)
  \/ ReadExisting(h)
  \/ StoreReading(h)
  \/ Commit(h)
  \/ WriteAck(h)

HandlerFault(h) == FailTransaction(h) \/ CommitUnreported(h)

PolicyStep == \E d \in Devices : ChangeAccess(d) \/ ChangeCapabilities(d)

IngestNext ==
  \/ \E h \in Handlers, r \in Request : Receive(h, r)
  \/ \E h \in Handlers : HandlerStep(h) \/ Close(h) \/ HandlerFault(h)
  \/ ServerRestart
  \/ PolicyStep

\* Any client, any request, any time.
IngestSpec == IngestInit /\ [][IngestNext]_ingestVars

-----------------------------------------------------------------------------
(* A success is acknowledged only when it is durable: a handler that is    *)
(* about to write, or has written, "inserted" or "duplicate" has its       *)
(* request, with exactly its content, among the committed readings.  (ACK  *)
(* after COMMIT, whatever fails, commits twice or interleaves.)            *)
SuccessIsDurable ==
  \A h \in Handlers :
    pc[h] \in {"acking", "sent"} /\ ack[h].status \in Success
      => req[h] \in readings

(* The two tables agree whatever transactions overlapped or failed         *)
(* half-way: ingest_messages has one row per message id, no row stays in   *)
(* 'processing', it says 'inserted' exactly for the stored readings, and   *)
(* no two readings share a message id or a (device_id, device_seq).        *)
TablesAgree ==
  /\ \A a, b \in ingest : a.payload.mid = b.payload.mid => a = b
  /\ \A row \in ingest : row.status \in {"inserted", "rejected"}
  /\ \A row \in ingest : row.status = "inserted" <=> row.payload \in readings
  /\ \A r \in readings : \E row \in ingest : row.payload = r
  /\ \A r, s \in readings : Slot(r) = Slot(s) => r = s
  /\ \A r \in readings : Slot(r) \notin Prior

(* MSG-E013 is final and true: a request that is told so is not stored,    *)
(* and its slot really belongs to another reading.                         *)
ConflictIsReal ==
  \A h \in Handlers :
    pc[h] \in {"acking", "sent"} /\ ack[h].code = "MSG-E013"
      => req[h] \notin readings /\ SlotTaken(Slot(req[h]))

\* What is told is true, the good and the bad.
VerdictsAreTrue == SuccessIsDurable /\ ConflictIsReal

\* A handler that cannot go on: the pool is empty, or a row that another one has
\* inserted is in its way; or the row of its message id is not there to be read.
Blocked(h) ==
  \/ pc[h] = "pool" /\ ~PoolFree
  \/ pc[h] = "claim" /\ \E g \in Handlers \ {h} : HoldsClaim(g, req[h].mid)
  \/ pc[h] = "existing" /\ \A row \in ingest : row.payload.mid # req[h].mid
  \/ pc[h] = "store" /\ \E g \in Handlers \ {h} : HoldsSlot(g, Slot(req[h]))

WaitsFor(h, g) ==
  \/ pc[h] = "pool" /\ ~PoolFree /\ pc[g] \in InTransaction
  \/ pc[h] = "claim" /\ g # h /\ HoldsClaim(g, req[h].mid)
  \/ pc[h] = "store" /\ g # h /\ HoldsSlot(g, Slot(req[h]))

WithHolders(S) == S \cup {g \in Handlers : \E h \in S : WaitsFor(h, g)}

(* No wait is for ever: whoever cannot go on, for the pool, a message id   *)
(* or a slot, waits for a transaction that can, directly or through at     *)
(* most two others.  So handlers never wait for each other in a circle,    *)
(* however small the pool and whatever messages arrive together: message   *)
(* ids are claimed before slots, and who holds a slot waits for nothing.   *)
WaitsEnd ==
  \A h \in Handlers :
    Blocked(h) =>
      \E g \in WithHolders(WithHolders(WithHolders({h}))) :
        pc[g] \in InTransaction /\ ~Blocked(g)

-----------------------------------------------------------------------------
\* The contract of IdempotentStore, read off the tables and the connections.

Verdict(a) ==
  IF a.status \in Success THEN "stored"
  ELSE IF a.status = "retry" THEN "unknown"
  ELSE IF a.code = "MSG-E013" THEN "refused"
  ELSE "denied"

Refused == {row.payload : row \in {x \in ingest : x.status = "rejected"}}
Said ==
  [h \in Handlers |->
     IF pc[h] = "sent" THEN {<<req[h], Verdict(ack[h])>>} ELSE {}]

Store == INSTANCE IdempotentStore WITH
  Connections <- Handlers, stored <- readings, refused <- Refused, said <- Said

(* The interleaved transactions implement the atomic store: no overlap,    *)
(* rollback or unreported commit shows a client anything that deciding     *)
(* each message once, in one step, would not.                              *)
ImplementsStore == Store!Spec
=============================================================================
