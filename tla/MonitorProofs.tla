---------------------------- MODULE MonitorProofs ----------------------------
(***************************************************************************)
(* Proofs about Monitor, for any number of devices, sensors, readings and  *)
(* failures.                                                               *)
(***************************************************************************)
EXTENDS Monitor, SetBounds, SequenceTheorems, TLAPS

-----------------------------------------------------------------------------
(***************************************************************************)
(* What an event adds to a log.                                            *)
(***************************************************************************)
Alternates(log) ==
  \A d \in Devices, code \in StatefulCodes :
    \A e, f \in Of(log, d, code) :
      (e < f /\ log[e].state = log[f].state) =>
        \E g \in Of(log, d, code) : e < g /\ g < f /\ log[g].state # log[e].state

OpenHasSensors(log) ==
  \A e \in DOMAIN log :
    (log[e].code = "DATA-MISSING" /\ log[e].state = "open") => log[e].sensors # {}

GoodLog(log) == log \in Seq(Event) /\ Alternates(log) /\ OpenHasSensors(log)

RecordIn(log, new) ==
  IF /\ new.code \in StatefulCodes
     /\ Of(log, new.dev, new.code) # {}
     /\ Newest(log, new.dev, new.code).state = new.state
  THEN <<>> ELSE <<new>>

\* ConcatAssociative for logs, small enough to be matched.
LEMMA Regroup ==
  \A r, s, t \in Seq(Event) : (r \o s) \o t = r \o (s \o t)
<1>1. ASSUME NEW r \in Seq(Event), NEW s \in Seq(Event), NEW t \in Seq(Event)
      PROVE  (r \o s) \o t = r \o (s \o t)
  BY ConcatAssociative
<1>2. QED  BY <1>1

LEMMA RecordedIsRecordIn ==
  ASSUME NEW d, NEW code, NEW state, NEW sensors, NEW p, NEW c
  PROVE  Recorded(d, code, state, sensors, p, c) =
           RecordIn(events \o written, NewEvent(d, code, state, sensors, p, c))
<1> DEFINE new == NewEvent(d, code, state, sensors, p, c)
<1>1. new.dev = d /\ new.code = code /\ new.state = state
  BY DEF NewEvent
<1> HIDE DEF new
<1>2. QED  BY <1>1 DEF Recorded, RecordIn, new

LEMMA NewEventTyped ==
  ASSUME NEW d \in Devices, NEW code \in EventCodes, NEW state \in EventStates,
         NEW sensors \in SUBSET Sensors, NEW p \in 0..MaxSeq, NEW c \in 0..MaxSeq
  PROVE  NewEvent(d, code, state, sensors, p, c) \in Event
BY DEF NewEvent, Event

\* The newest event of a device is one of its events, and no other is newer.
LEMMA NewestIsLast ==
  ASSUME NEW log \in Seq(Event), NEW d, NEW code, Of(log, d, code) # {}
  PROVE  /\ Max(Of(log, d, code)) \in Of(log, d, code)
         /\ \A e \in Of(log, d, code) : e <= Max(Of(log, d, code))
<1>1. Len(log) \in Nat /\ DOMAIN log = 1..Len(log)
  OBVIOUS
<1>2. Of(log, d, code) \in SUBSET (0..Len(log))
  BY <1>1 DEF Of
<1>3. QED  BY <1>1, <1>2, MaxInSet

LEMMA Appended ==
  ASSUME NEW log \in Seq(Event), NEW new \in Event
  PROVE  /\ log \o <<new>> \in Seq(Event)
         /\ Len(log \o <<new>>) = Len(log) + 1
         /\ DOMAIN (log \o <<new>>) = 1..(Len(log) + 1)
         /\ (log \o <<new>>)[Len(log) + 1] = new
         /\ \A e \in 1..Len(log) : (log \o <<new>>)[e] = log[e]
<1>1. <<new>> \in Seq(Event) /\ Len(<<new>>) = 1 /\ <<new>>[1] = new
  OBVIOUS
<1>2. QED  BY <1>1, ConcatProperties, LenProperties

\* An event is the newest of its device and code ...
LEMMA AppendedOf ==
  ASSUME NEW log \in Seq(Event), NEW new \in Event
  PROVE  /\ Of(log \o <<new>>, new.dev, new.code) =
              Of(log, new.dev, new.code) \cup {Len(log) + 1}
         /\ Newest(log \o <<new>>, new.dev, new.code) = new
<1> DEFINE L == log \o <<new>>
           n == Len(log)
<1>1. /\ n \in Nat /\ DOMAIN log = 1..n
      /\ L \in Seq(Event) /\ DOMAIN L = 1..(n + 1)
      /\ L[n + 1] = new /\ \A e \in 1..n : L[e] = log[e]
  BY Appended
<1> HIDE DEF L, n
<1>2. Of(L, new.dev, new.code) = Of(log, new.dev, new.code) \cup {n + 1}
  BY <1>1 DEF Of
<1>3. \A e \in Of(L, new.dev, new.code) : e \in 1..(n + 1)
  BY <1>1 DEF Of
<1>4. Max(Of(L, new.dev, new.code)) = n + 1
  <2>1. n + 1 \in Of(L, new.dev, new.code)
    BY <1>2
  <2>2. /\ Max(Of(L, new.dev, new.code)) \in Of(L, new.dev, new.code)
        /\ n + 1 <= Max(Of(L, new.dev, new.code))
    BY <1>1, <2>1, NewestIsLast
  <2>3. QED  BY <1>1, <1>3, <2>2
<1>5. QED  BY <1>1, <1>2, <1>4 DEF Newest, L, n

\* ... and changes nothing for the others.
LEMMA AppendedOthers ==
  ASSUME NEW log \in Seq(Event), NEW new \in Event, NEW d, NEW code,
         d # new.dev \/ code # new.code
  PROVE  /\ Of(log \o <<new>>, d, code) = Of(log, d, code)
         /\ IsOpen(log \o <<new>>, d, code) = IsOpen(log, d, code)
<1> DEFINE L == log \o <<new>>
           n == Len(log)
<1>1. /\ n \in Nat /\ DOMAIN log = 1..n
      /\ L \in Seq(Event) /\ DOMAIN L = 1..(n + 1)
      /\ L[n + 1] = new /\ \A e \in 1..n : L[e] = log[e]
  BY Appended
<1> HIDE DEF L, n
<1>2. Of(L, d, code) = Of(log, d, code)
  BY <1>1 DEF Of
<1>3. Of(log, d, code) # {} => Newest(L, d, code) = Newest(log, d, code)
  <2>1. ASSUME Of(log, d, code) # {}  PROVE Newest(L, d, code) = Newest(log, d, code)
    <3>1. Max(Of(log, d, code)) \in 1..n
      <4>1. Max(Of(log, d, code)) \in Of(log, d, code)
        BY <2>1, NewestIsLast
      <4>2. Of(log, d, code) \subseteq DOMAIN log
        BY DEF Of
      <4>3. QED  BY <1>1, <4>1, <4>2
    <3>2. QED  BY <1>1, <1>2, <3>1 DEF Newest
  <2>2. QED  BY <2>1
<1>4. IsOpen(L, d, code) = IsOpen(log, d, code)
  BY <1>2, <1>3 DEF IsOpen
<1>5. QED  BY <1>2, <1>4 DEF L

\* What _record_event leaves: the state it was asked to record is the newest,
\* whether it wrote a row or found one.
LEMMA RecordSays ==
  ASSUME NEW log \in Seq(Event), NEW new \in Event, new.code \in StatefulCodes
  PROVE  LET L == log \o RecordIn(log, new)
         IN /\ IsOpen(L, new.dev, new.code) = (new.state = "open")
            /\ \A d, code : (d # new.dev \/ code # new.code) =>
                 IsOpen(L, d, code) = IsOpen(log, d, code)
<1>1. CASE RecordIn(log, new) = <<>>
  <2>1. Of(log, new.dev, new.code) # {} /\ Newest(log, new.dev, new.code).state = new.state
    BY <1>1 DEF RecordIn
  <2>2. log \o <<>> = log
    BY ConcatEmptySeq
  <2>3. IsOpen(log, new.dev, new.code) = (new.state = "open")
    BY <2>1 DEF IsOpen
  <2>4. QED  BY <1>1, <2>2, <2>3
<1>2. CASE RecordIn(log, new) = <<new>>
  <2>1. Of(log \o <<new>>, new.dev, new.code) # {} /\ Newest(log \o <<new>>, new.dev, new.code) = new
    BY AppendedOf
  <2>2. IsOpen(log \o <<new>>, new.dev, new.code) = (new.state = "open")
    BY <2>1 DEF IsOpen
  <2>3. QED  BY <1>2, <2>2, AppendedOthers
<1>3. QED  BY <1>1, <1>2 DEF RecordIn

\* _record_event keeps the log in order.
LEMMA RecordGood ==
  ASSUME NEW log, GoodLog(log), NEW new \in Event,
         (new.code = "DATA-MISSING" /\ new.state = "open") => new.sensors # {}
  PROVE  GoodLog(log \o RecordIn(log, new))
<1> DEFINE L == log \o <<new>>
           n == Len(log)
<1>0. log \in Seq(Event) /\ log \o <<>> = log
  BY ConcatEmptySeq DEF GoodLog
<1>1. /\ n \in Nat /\ DOMAIN log = 1..n
      /\ L \in Seq(Event) /\ DOMAIN L = 1..(n + 1)
      /\ L[n + 1] = new /\ \A e \in 1..n : L[e] = log[e]
  BY <1>0, Appended
<1> HIDE DEF L, n
<1>2. OpenHasSensors(L)
  BY <1>1 DEF GoodLog, OpenHasSensors
<1>3. ASSUME RecordIn(log, new) = <<new>>  PROVE Alternates(L)
  <2> SUFFICES ASSUME NEW d \in Devices, NEW code \in StatefulCodes,
                      NEW e \in Of(L, d, code), NEW f \in Of(L, d, code),
                      e < f, L[e].state = L[f].state
               PROVE  \E g \in Of(L, d, code) : e < g /\ g < f /\ L[g].state # L[e].state
    BY DEF Alternates
  <2>1. e \in 1..n /\ f \in 1..(n + 1) /\ e \in Of(log, d, code)
    BY <1>1 DEF Of
  <2>2. Of(log, d, code) \subseteq Of(L, d, code)
    BY <1>1 DEF Of
  <2>3. CASE f \in 1..n
    <3>1. f \in Of(log, d, code) /\ log[e].state = log[f].state
      BY <1>1, <2>1, <2>3 DEF Of
    <3>2. PICK g \in Of(log, d, code) : e < g /\ g < f /\ log[g].state # log[e].state
      BY <2>1, <3>1 DEF GoodLog, Alternates
    <3>3. L[g] = log[g] /\ L[e] = log[e]
      BY <1>1, <2>1 DEF Of
    <3>4. QED  BY <2>2, <3>2, <3>3
  <2>4. CASE f = n + 1
    <3>1. d = new.dev /\ code = new.code /\ L[f] = new
      BY <1>1, <2>4 DEF Of
    <3>2. Newest(log, d, code).state # new.state
      <4>1. <<new>> # <<>>
        OBVIOUS
      <4>2. QED  BY <1>3, <2>1, <3>1, <4>1 DEF RecordIn
    <3> DEFINE g == Max(Of(log, d, code))
    <3>3. g \in Of(log, d, code) /\ e <= g /\ log[g].state # new.state
      BY <1>0, <2>1, <3>2, NewestIsLast DEF Newest
    <3>4. g \in 1..n /\ L[g] = log[g] /\ L[e] = log[e]
      BY <1>1, <2>1, <3>3 DEF Of
    <3>5. e # g
      BY <3>1, <3>3, <3>4
    <3> HIDE DEF g
    <3>6. e < g /\ g < f
      BY <1>1, <2>1, <2>4, <3>3, <3>4, <3>5
    <3>7. QED  BY <2>2, <3>1, <3>3, <3>4, <3>6
  <2>5. QED  BY <1>1, <2>1, <2>3, <2>4
<1>4. CASE RecordIn(log, new) = <<>>
  BY <1>0, <1>4
<1>5. CASE RecordIn(log, new) = <<new>>
  BY <1>1, <1>2, <1>3, <1>5 DEF GoodLog, L
<1>6. QED  BY <1>4, <1>5 DEF RecordIn

-----------------------------------------------------------------------------
(***************************************************************************)
(* The inductive invariant.  Log is the log as the open transaction sees   *)
(* it; the decisions are taken from the memory, which agrees with it.      *)
(***************************************************************************)
Log == events \o written

LogsGood == GoodLog(events) /\ GoodLog(Log)

OnlyInTransaction == written # <<>> => pc \in {"examine", "check"}

\* Only committed rows are examined.
OnlyCommitted ==
  /\ examined \subseteq StoredIds
  /\ pc = "examine" => work \subseteq StoredIds

\* lastSeq is beyond every number that was looked at, as soon as it is known.
SeqsKnown ==
  pc \notin {"down", "initSeqs"} =>
    \A i \in examined : rows[i].seq <= lastSeq[rows[i].dev]

AgreesOn(d) ==
  /\ (d \in staleSince) = IsOpen(Log, d, "DEVICE-STALE")
  /\ (missingState[d] # {}) = IsOpen(Log, d, "DATA-MISSING")

MemoryIsLog ==
  (pc \in {"rows", "examine", "stale", "check"} /\ ~failed) =>
    \A d \in Devices : AgreesOn(d)

MonInv ==
  /\ MonitorTypeOK
  /\ LogsGood
  /\ OnlyInTransaction
  /\ OnlyCommitted
  /\ SeqsKnown
  /\ MemoryIsLog

LEMMA MonitorInitInv == MonitorInit => MonInv
<1> SUFFICES ASSUME MonitorInit PROVE MonInv
  OBVIOUS
<1>1. MonitorTypeOK
  <2>1. /\ rows \in Seq(ReadingRow) /\ Len(rows) <= MaxRows /\ lastChecked \in 0..Len(rows)
        /\ examined \subseteq DOMAIN rows
    BY MonitorAssumption DEF MonitorInit
  <2>2. silent \in [Devices -> BOOLEAN] /\ failed \in BOOLEAN
    BY Zenon DEF MonitorInit
  <2>3. events \in Seq(Event) /\ written \in Seq(Event)
    BY DEF MonitorInit
  <2>4. /\ lastSeq \in [Devices -> 0..MaxSeq] /\ baseSeq \in [Devices -> 0..MaxSeq]
        /\ missingState \in [Devices -> SUBSET Sensors]
    BY MonitorAssumption DEF MonitorInit
  <2>5. /\ pc \in Stages /\ staleSince \subseteq Devices /\ work = {} /\ faults \in 0..MaxFaults
    BY MonitorAssumption DEF MonitorInit, Stages
  <2>6. QED  BY <2>1, <2>2, <2>3, <2>4, <2>5 DEF MonitorTypeOK
<1>2. LogsGood
  <2>1. GoodLog(<<>>)
    BY DEF GoodLog, Alternates, OpenHasSensors, Of
  <2>2. events = <<>> /\ Log = <<>>
    BY DEF MonitorInit, Log
  <2>3. QED  BY <2>1, <2>2 DEF LogsGood
<1>3. OnlyInTransaction /\ OnlyCommitted /\ SeqsKnown /\ MemoryIsLog
  BY DEF MonitorInit, OnlyInTransaction, OnlyCommitted, SeqsKnown, MemoryIsLog
<1>4. QED  BY <1>1, <1>2, <1>3 DEF MonInv

-----------------------------------------------------------------------------
\* Lemmas about what the actions have in common.

LEMMA StoredRows ==
  ASSUME MonitorTypeOK
  PROVE  /\ Len(rows) \in Nat /\ DOMAIN rows = 1..Len(rows)
         /\ \A i \in DOMAIN rows : rows[i] \in ReadingRow
         /\ StoredIds \subseteq 1..Len(rows)
<1>1. rows \in Seq(ReadingRow)
  BY DEF MonitorTypeOK
<1>2. Len(rows) \in Nat /\ DOMAIN rows = 1..Len(rows)
  BY <1>1
<1>3. \A i \in DOMAIN rows : rows[i] \in ReadingRow
  BY <1>1, <1>2
<1>4. QED  BY <1>2, <1>3 DEF StoredIds

\* Rows appear and become visible; nothing else changes.
LEMMA RowsKeep ==
  ASSUME MonInv,
         UNCHANGED <<events, pc, lastChecked, lastSeq, missingState, staleSince,
                     work, written, examined, baseSeq, failed, faults>>,
         rows' \in Seq(ReadingRow), Len(rows') <= MaxRows,
         silent' \in [Devices -> BOOLEAN],
         Len(rows) <= Len(rows'),
         \A i \in DOMAIN rows : /\ rows'[i].dev = rows[i].dev
                                /\ rows'[i].seq = rows[i].seq
                                /\ rows[i].stored => rows'[i].stored
  PROVE  MonInv'
<1>1. /\ Len(rows) \in Nat /\ DOMAIN rows = 1..Len(rows)
      /\ Len(rows') \in Nat /\ DOMAIN rows' = 1..Len(rows')
      /\ DOMAIN rows \subseteq DOMAIN rows' /\ 0..Len(rows) \subseteq 0..Len(rows')
  BY StoredRows DEF MonInv
<1>2. StoredIds \subseteq StoredIds'
  BY <1>1 DEF StoredIds
<1>3. MonitorTypeOK'
  <2>1. lastChecked' \in 0..Len(rows') /\ examined' \subseteq DOMAIN rows'
    BY <1>1 DEF MonInv, MonitorTypeOK
  <2>2. work' \subseteq (IF pc' = "check" THEN Devices
                          ELSE IF pc' = "examine" THEN DOMAIN rows' ELSE {})
    BY <1>1 DEF MonInv, MonitorTypeOK
  <2>3. failed' \in BOOLEAN
    BY Zenon DEF MonInv, MonitorTypeOK
  <2>4. QED  BY <2>1, <2>2, <2>3 DEF MonInv, MonitorTypeOK
<1>4. LogsGood' /\ OnlyInTransaction'
  BY DEF MonInv, LogsGood, Log, OnlyInTransaction
<1>5. OnlyCommitted'
  BY <1>2 DEF MonInv, OnlyCommitted
<1>6. SeqsKnown'
  BY DEF MonInv, SeqsKnown, MonitorTypeOK
<1>7. MemoryIsLog'
  BY DEF MonInv, MemoryIsLog, AgreesOn, Log
<1>8. QED  BY <1>3, <1>4, <1>5, <1>6, <1>7 DEF MonInv

\* Between two transactions the log is what is committed.
LEMMA NothingOpen ==
  ASSUME MonInv, pc \notin {"examine", "check"}
  PROVE  written = <<>> /\ Log = events
<1>1. written = <<>>
  BY DEF MonInv, OnlyInTransaction
<1>2. events \in Seq(Event)
  BY DEF MonInv, MonitorTypeOK
<1>3. QED  BY <1>1, <1>2, ConcatEmptySeq DEF Log

-----------------------------------------------------------------------------
\* The other processes.

LEMMA InsertKeeps ==
  ASSUME MonInv, NEW d \in Devices, NEW k \in Kinds, Insert(d, k[1], k[2])
  PROVE  MonInv'
<1> DEFINE new == [dev |-> d, seq |-> k[1], lacks |-> k[2], stored |-> FALSE]
<1>1. new \in ReadingRow
  <2>1. k[1] \in 0..MaxSeq /\ k[2] \in SUBSET Sensors
    BY MonitorAssumption
  <2>2. QED  BY <2>1 DEF ReadingRow
<1>2. rows' = Append(rows, new) /\ Len(rows) < MaxRows
  BY DEF Insert
<1>3. rows \in Seq(ReadingRow) /\ silent \in [Devices -> BOOLEAN]
  BY DEF MonInv, MonitorTypeOK
<1> HIDE DEF new
<1>4. /\ rows' \in Seq(ReadingRow) /\ Len(rows') = Len(rows) + 1
      /\ \A i \in DOMAIN rows : rows'[i] = rows[i]
  BY <1>1, <1>2, <1>3
<1>5. Len(rows') <= MaxRows /\ Len(rows) <= Len(rows')
  BY <1>2, <1>3, <1>4, MonitorAssumption
<1>6. /\ UNCHANGED <<silent, events, pc, lastChecked, lastSeq, missingState, staleSince,
                     work, written, examined, baseSeq, failed, faults>>
  BY DEF Insert, memoryVars
<1>7. QED  BY <1>3, <1>4, <1>5, <1>6, RowsKeep

LEMMA RowCommitted ==
  ASSUME NEW r \in ReadingRow
  PROVE  LET c == [r EXCEPT !.stored = TRUE]
         IN c \in ReadingRow /\ c.dev = r.dev /\ c.seq = r.seq /\ c.stored
BY DEF ReadingRow

LEMMA CommitRowKeeps ==
  ASSUME MonInv, NEW i \in DOMAIN rows, CommitRow(i)
  PROVE  MonInv'
<1> DEFINE c == [rows[i] EXCEPT !.stored = TRUE]
<1>1. /\ rows \in Seq(ReadingRow) /\ rows[i] \in ReadingRow
      /\ Len(rows) \in Nat /\ DOMAIN rows = 1..Len(rows) /\ Len(rows) <= MaxRows
  BY StoredRows DEF MonInv, MonitorTypeOK
<1>2. c \in ReadingRow /\ c.dev = rows[i].dev /\ c.seq = rows[i].seq /\ c.stored
  BY <1>1, RowCommitted
<1>3. rows' = [rows EXCEPT ![i] = c]
  BY DEF CommitRow
<1> HIDE DEF c
<1>4. /\ rows' \in Seq(ReadingRow) /\ Len(rows') = Len(rows)
      /\ \A j \in DOMAIN rows : rows'[j] = IF j = i THEN c ELSE rows[j]
  BY <1>1, <1>2, <1>3, ExceptSeq
<1>5. silent' \in [Devices -> BOOLEAN]
  <2>1. silent \in [Devices -> BOOLEAN] /\ rows[i].dev \in Devices
    BY <1>1 DEF MonInv, MonitorTypeOK, ReadingRow
  <2>2. silent' = [silent EXCEPT ![rows[i].dev] = FALSE]
    BY DEF CommitRow
  <2>3. QED  BY <2>1, <2>2, Zenon
<1>6. /\ UNCHANGED <<events, pc, lastChecked, lastSeq, missingState, staleSince,
                     work, written, examined, baseSeq, failed, faults>>
  BY DEF CommitRow, memoryVars
<1>7. \A j \in DOMAIN rows : /\ rows'[j].dev = rows[j].dev
                             /\ rows'[j].seq = rows[j].seq
                             /\ rows[j].stored => rows'[j].stored
  BY <1>2, <1>4
<1>8. QED  BY <1>1, <1>4, <1>5, <1>6, <1>7, RowsKeep

LEMMA SilentKeeps ==
  ASSUME MonInv, NEW d \in Devices, FallSilent(d)
  PROVE  MonInv'
<1>1. rows' = rows /\ rows \in Seq(ReadingRow) /\ Len(rows) <= MaxRows
  BY DEF FallSilent, MonInv, MonitorTypeOK
<1>2. silent' \in [Devices -> BOOLEAN]
  <2>1. silent \in [Devices -> BOOLEAN]
    BY DEF MonInv, MonitorTypeOK
  <2>2. silent' = [silent EXCEPT ![d] = TRUE]
    BY DEF FallSilent
  <2>3. QED  BY <2>1, <2>2, Zenon
<1>3. /\ UNCHANGED <<events, pc, lastChecked, lastSeq, missingState, staleSince,
                     work, written, examined, baseSeq, failed, faults>>
  BY DEF FallSilent, memoryVars
<1>4. Len(rows) <= Len(rows')
  BY <1>1
<1>5. QED  BY <1>1, <1>2, <1>3, <1>4, RowsKeep

-----------------------------------------------------------------------------
\* initialize.

LEMMA CursorKeeps == ASSUME MonInv, InitializeCursor PROVE MonInv'
<1>1. /\ lastChecked' \in 0..Len(rows)
  <2>1. Len(rows) \in Nat /\ StoredIds \cup {0} \in SUBSET (0..Len(rows))
    BY StoredRows DEF MonInv
  <2>2. Max(StoredIds \cup {0}) \in StoredIds \cup {0}
    BY <2>1, MaxInSet
  <2>3. QED  BY <2>1, <2>2 DEF InitializeCursor
<1>2. /\ UNCHANGED <<rows, silent, events, lastSeq, missingState, staleSince, work,
                     written, examined, baseSeq, faults>>
      /\ pc = "down" /\ pc' = "initSeqs" /\ failed' = FALSE
  BY DEF InitializeCursor, dbVars
<1>3. MonitorTypeOK'
  BY <1>1, <1>2 DEF MonInv, MonitorTypeOK, Stages
<1>4. LogsGood'
  BY <1>2 DEF MonInv, LogsGood, Log
<1>5. OnlyInTransaction' /\ OnlyCommitted'
  BY <1>2, NothingOpen DEF MonInv, OnlyInTransaction, OnlyCommitted, StoredIds
<1>6. SeqsKnown' /\ MemoryIsLog'
  BY <1>2 DEF SeqsKnown, MemoryIsLog
<1>7. QED  BY <1>3, <1>4, <1>5, <1>6 DEF MonInv

\* MAX(device_seq) is a number of the device and no stored row exceeds it.
LEMMA SeqsKeep == ASSUME MonInv, InitializeSeqs PROVE MonInv'
<1> DEFINE S(d) == {rows[i].seq : i \in {j \in StoredIds : rows[j].dev = d}} \cup {0}
<1>1. /\ UNCHANGED <<rows, silent, events, lastChecked, missingState, staleSince, work,
                     written, failed, faults>>
      /\ pc = "initSeqs" /\ pc' = "initStates"
      /\ lastSeq' = [d \in Devices |-> Max(S(d))]
      /\ examined' = examined \cup StoredIds /\ baseSeq' = lastSeq'
  BY DEF InitializeSeqs, dbVars
<1>2. \A i \in StoredIds : rows[i] \in ReadingRow
  BY StoredRows DEF MonInv
<1>3. ASSUME NEW d \in Devices
      PROVE  Max(S(d)) \in 0..MaxSeq /\ \A s \in S(d) : s <= Max(S(d))
  <2>1. S(d) \in SUBSET (0..MaxSeq) /\ S(d) # {}
    BY <1>2, MonitorAssumption DEF ReadingRow
  <2> HIDE DEF S
  <2>2. QED  BY <2>1, MaxInSet, MonitorAssumption
<1>4. \A i \in StoredIds : rows[i].seq <= lastSeq'[rows[i].dev]
  <2> SUFFICES ASSUME NEW i \in StoredIds PROVE rows[i].seq <= lastSeq'[rows[i].dev]
    OBVIOUS
  <2>1. rows[i].dev \in Devices /\ rows[i].seq \in S(rows[i].dev)
    BY <1>2 DEF ReadingRow
  <2>2. lastSeq'[rows[i].dev] = Max(S(rows[i].dev))
    BY <1>1, <2>1
  <2> HIDE DEF S
  <2>3. QED  BY <1>3, <2>1, <2>2
<1>5. lastSeq' \in [Devices -> 0..MaxSeq]
  <2> HIDE DEF S
  <2>1. QED  BY <1>1, <1>3
<1> HIDE DEF S
<1>6. examined' = StoredIds /\ StoredIds' = StoredIds /\ examined' \subseteq DOMAIN rows
  BY <1>1 DEF MonInv, OnlyCommitted, StoredIds
<1>7. MonitorTypeOK'
  <2>1. failed' \in BOOLEAN
    BY <1>1, Zenon DEF MonInv, MonitorTypeOK
  <2>2. QED  BY <1>1, <1>5, <1>6, <2>1 DEF MonInv, MonitorTypeOK, Stages
<1>8. LogsGood' /\ OnlyInTransaction'
  BY <1>1, NothingOpen DEF MonInv, LogsGood, Log, OnlyInTransaction
<1>9. OnlyCommitted' /\ SeqsKnown'
  BY <1>1, <1>4, <1>6 DEF OnlyCommitted, SeqsKnown
<1>10. MemoryIsLog'
  BY <1>1 DEF MemoryIsLog
<1>11. QED  BY <1>7, <1>8, <1>9, <1>10 DEF MonInv

\* What is restored is what the log says: an open DATA-MISSING names its sensors.
LEMMA StatesKeep == ASSUME MonInv, InitializeStates PROVE MonInv'
<1>1. /\ UNCHANGED <<rows, silent, events, lastChecked, lastSeq, work, written,
                     examined, baseSeq, failed, faults>>
      /\ pc = "initStates" /\ pc' = "rows"
      /\ staleSince' = {d \in Devices : IsOpen(events, d, "DEVICE-STALE")}
      /\ missingState' = [d \in Devices |->
           IF IsOpen(events, d, "DATA-MISSING")
           THEN Newest(events, d, "DATA-MISSING").sensors ELSE {}]
  BY DEF InitializeStates, OpenSilences, dbVars
<1>2. events \in Seq(Event) /\ OpenHasSensors(events)
  BY DEF MonInv, LogsGood, GoodLog
<1>3. ASSUME NEW d \in Devices, IsOpen(events, d, "DATA-MISSING")
      PROVE  Newest(events, d, "DATA-MISSING").sensors \in (SUBSET Sensors) \ {{}}
  <2> DEFINE e == Max(Of(events, d, "DATA-MISSING"))
  <2>1. e \in Of(events, d, "DATA-MISSING") /\ events[e].state = "open"
    BY <1>2, <1>3, NewestIsLast DEF IsOpen, Newest
  <2> HIDE DEF e
  <2>2. e \in DOMAIN events /\ events[e].code = "DATA-MISSING"
    BY <2>1 DEF Of
  <2>3. events[e] \in Event /\ events[e].sensors # {}
    BY <1>2, <2>1, <2>2 DEF OpenHasSensors
  <2>4. events[e].sensors \in SUBSET Sensors
    BY <2>3 DEF Event
  <2>5. Newest(events, d, "DATA-MISSING") = events[e]
    BY DEF Newest, e
  <2>6. QED  BY <2>3, <2>4, <2>5
<1>4. missingState' \in [Devices -> SUBSET Sensors]
  BY <1>1, <1>3
<1>5. MonitorTypeOK'
  <2>1. failed' \in BOOLEAN
    BY <1>1, Zenon DEF MonInv, MonitorTypeOK
  <2>2. staleSince' \subseteq Devices
    BY <1>1
  <2>3. QED  BY <1>1, <1>4, <2>1, <2>2 DEF MonInv, MonitorTypeOK, Stages
<1>6. LogsGood' /\ OnlyInTransaction'
  BY <1>1, NothingOpen DEF MonInv, LogsGood, Log, OnlyInTransaction
<1>7. OnlyCommitted' /\ SeqsKnown'
  BY <1>1 DEF MonInv, OnlyCommitted, SeqsKnown, StoredIds
<1>8. MemoryIsLog'
  <2>1. Log' = events
    BY <1>1, NothingOpen DEF Log
  <2>2. ASSUME NEW d \in Devices  PROVE (AgreesOn(d))'
    <3>1. \A code : IsOpen(events, d, code) \in BOOLEAN
      BY DEF IsOpen
    <3>2. (d \in staleSince') <=> IsOpen(events, d, "DEVICE-STALE")
      BY <1>1
    <3>3. (missingState'[d] # {}) <=> IsOpen(events, d, "DATA-MISSING")
      <4>1. CASE IsOpen(events, d, "DATA-MISSING")
        <5>1. missingState'[d] = Newest(events, d, "DATA-MISSING").sensors
          BY <1>1, <4>1
        <5>2. QED  BY <1>3, <4>1, <5>1
      <4>2. CASE ~IsOpen(events, d, "DATA-MISSING")
        <5>1. missingState'[d] = {}
          BY <1>1, <4>2
        <5>2. QED  BY <4>2, <5>1
      <4>3. QED  BY <4>1, <4>2
    <3>4. QED  BY <2>1, <3>1, <3>2, <3>3 DEF AgreesOn
  <2>3. QED  BY <2>2 DEF MemoryIsLog
<1>9. QED  BY <1>5, <1>6, <1>7, <1>8 DEF MonInv

-----------------------------------------------------------------------------
\* The events of one row.

LEMMA MissingRecorded ==
  ASSUME MonitorTypeOK, GoodLog(Log), NEW d \in Devices, NEW missing \in SUBSET Sensors
  PROVE  LET M == MissingEvents(d, missing) IN
         /\ M \in Seq(Event) /\ \A e \in DOMAIN M : M[e].code = "DATA-MISSING"
         /\ GoodLog(Log \o M)
         /\ \A x \in Devices : /\ IsOpen(Log \o M, x, "DEVICE-STALE") = IsOpen(Log, x, "DEVICE-STALE")
                               /\ x # d => IsOpen(Log \o M, x, "DATA-MISSING") = IsOpen(Log, x, "DATA-MISSING")
         /\ (missingState[d] # {}) = IsOpen(Log, d, "DATA-MISSING")
               => (missing # {}) = IsOpen(Log \o M, d, "DATA-MISSING")
<1> DEFINE M == MissingEvents(d, missing)
           before == missingState[d]
           state == IF missing # {} THEN "open" ELSE "recovered"
           new == NewEvent(d, "DATA-MISSING", state, IF missing # {} THEN missing ELSE before, 0, 0)
<1>1. before \in SUBSET Sensors /\ Log \in Seq(Event)
  BY DEF MonitorTypeOK, GoodLog
<1>2. new \in Event
  <2>1. 0 \in 0..MaxSeq /\ "DATA-MISSING" \in EventCodes /\ state \in EventStates
    BY MonitorAssumption DEF EventCodes, StatefulCodes, EventStates
  <2>2. QED  BY <1>1, <2>1, NewEventTyped
<1>3. /\ new.dev = d /\ new.code = "DATA-MISSING" /\ new.state = state
      /\ missing # {} => new.sensors = missing
  BY DEF NewEvent
<1>4. \/ M = <<>> /\ (missing # {}) = (before # {})
      \/ M = RecordIn(Log, new)
  <2>1. CASE missing # {} /\ missing # before
    BY <2>1, RecordedIsRecordIn DEF MissingEvents, Log
  <2>2. CASE missing = {} /\ before # {}
    BY <2>2, RecordedIsRecordIn DEF MissingEvents, Log
  <2>3. CASE missing = before
    BY <2>3 DEF MissingEvents
  <2>4. QED  BY <2>1, <2>2, <2>3
<1>5. (state = "open") = (missing # {})
  OBVIOUS
<1>6. new.code \in StatefulCodes /\ "DEVICE-STALE" # "DATA-MISSING"
  BY <1>3 DEF StatefulCodes
<1> HIDE DEF M, new, state, before
<1>7. CASE M = <<>> /\ (missing # {}) = (before # {})
  <2>1. Log \o M = Log
    BY <1>1, <1>7, ConcatEmptySeq
  <2>2. QED  BY <1>7, <2>1 DEF M, before
<1>8. CASE M = RecordIn(Log, new)
  <2>1. M \in Seq(Event) /\ \A e \in DOMAIN M : M[e].code = "DATA-MISSING"
    BY <1>2, <1>3, <1>8 DEF RecordIn
  <2>2. GoodLog(Log \o M)
    <3>1. (new.code = "DATA-MISSING" /\ new.state = "open") => new.sensors # {}
      BY <1>3, <1>5
    <3>2. QED  BY <1>2, <1>8, <3>1, RecordGood
  <2>3. /\ IsOpen(Log \o M, d, "DATA-MISSING") = (missing # {})
        /\ \A x, code : (x # d \/ code # "DATA-MISSING") =>
             IsOpen(Log \o M, x, code) = IsOpen(Log, x, code)
    BY <1>1, <1>2, <1>3, <1>5, <1>6, <1>8, RecordSays
  <2>4. QED  BY <1>6, <2>1, <2>2, <2>3 DEF M
<1>9. QED  BY <1>4, <1>7, <1>8

\* A number is reported whatever the log says, and opens or closes nothing.
LEMMA SeqRecorded ==
  ASSUME MonitorTypeOK, NEW log, GoodLog(log), NEW d \in Devices, NEW seq \in 0..MaxSeq
  PROVE  LET S == SeqEvents(d, seq) IN
         /\ S \in Seq(Event)
         /\ \A e \in DOMAIN S : /\ S[e].dev = d /\ S[e].previous = lastSeq[d] /\ S[e].current = seq
         /\ GoodLog(log \o S)
         /\ \A x \in Devices, code \in StatefulCodes : IsOpen(log \o S, x, code) = IsOpen(log, x, code)
<1> DEFINE S == SeqEvents(d, seq)
           Numbered(code) == NewEvent(d, code, "open", {}, lastSeq[d], seq)
<1>1. lastSeq[d] \in 0..MaxSeq /\ log \in Seq(Event)
  BY DEF MonitorTypeOK, GoodLog
<1>2. ASSUME NEW code \in {"SEQ-GAP", "OUT-OF-ORDER"}
      PROVE  /\ Numbered(code) \in Event /\ Numbered(code).code = code
             /\ Recorded(d, code, "open", {}, lastSeq[d], seq) = <<Numbered(code)>>
             /\ \A l : RecordIn(l, Numbered(code)) = <<Numbered(code)>>
  <2>1. code \in EventCodes /\ code \notin StatefulCodes /\ "open" \in EventStates
    BY DEF EventCodes, StatefulCodes, EventStates
  <2>2. Numbered(code) \in Event
    BY <1>1, <2>1, NewEventTyped
  <2>3. Numbered(code).code = code
    BY DEF NewEvent
  <2>4. \A l : RecordIn(l, Numbered(code)) = <<Numbered(code)>>
    BY <2>1, <2>3 DEF RecordIn
  <2>5. QED  BY <2>2, <2>3, <2>4, RecordedIsRecordIn
<1>3. \/ S = <<>>
      \/ \E code \in {"SEQ-GAP", "OUT-OF-ORDER"} : S = <<Numbered(code)>>
  BY <1>2 DEF SeqEvents
<1>4. CASE S = <<>>
  BY <1>1, <1>4, ConcatEmptySeq
<1>5. ASSUME NEW code \in {"SEQ-GAP", "OUT-OF-ORDER"}, S = <<Numbered(code)>>
      PROVE  /\ S \in Seq(Event)
             /\ \A e \in DOMAIN S : /\ S[e].dev = d /\ S[e].previous = lastSeq[d] /\ S[e].current = seq
             /\ GoodLog(log \o S)
             /\ \A x \in Devices, c \in StatefulCodes : IsOpen(log \o S, x, c) = IsOpen(log, x, c)
  <2>1. /\ Numbered(code).dev = d /\ Numbered(code).previous = lastSeq[d]
        /\ Numbered(code).current = seq
    BY DEF NewEvent
  <2>2. /\ Numbered(code) \in Event /\ Numbered(code).code = code
        /\ RecordIn(log, Numbered(code)) = <<Numbered(code)>>
    BY <1>2
  <2> HIDE DEF Numbered, S
  <2>3. S \in Seq(Event) /\ \A e \in DOMAIN S : S[e] = Numbered(code)
    BY <1>5, <2>2
  <2>4. GoodLog(log \o S)
    <3>1. Numbered(code).code # "DATA-MISSING"
      BY <2>2
    <3>2. QED  BY <1>5, <2>2, <3>1, RecordGood
  <2>5. \A x \in Devices, c \in StatefulCodes : IsOpen(log \o S, x, c) = IsOpen(log, x, c)
    <3>1. \A c \in StatefulCodes : c # Numbered(code).code
      BY <2>2 DEF StatefulCodes
    <3>2. QED  BY <1>1, <1>5, <2>2, <3>1, AppendedOthers
  <2>6. QED  BY <2>1, <2>3, <2>4, <2>5
<1>6. QED  BY <1>3, <1>4, <1>5

-----------------------------------------------------------------------------
\* check_new_rows.

LEMMA ReadRowsKeep == ASSUME MonInv, ReadRows PROVE MonInv'
<1>1. /\ UNCHANGED <<rows, silent, events, lastChecked, lastSeq, missingState, staleSince,
                     written, examined, baseSeq, failed, faults>>
      /\ pc = "rows" /\ pc' = "examine" /\ work' \subseteq StoredIds
  BY DEF ReadRows, dbVars, memoryVars
<1>2. MonitorTypeOK'
  <2>1. failed' \in BOOLEAN
    BY <1>1, Zenon DEF MonInv, MonitorTypeOK
  <2>2. work' \subseteq DOMAIN rows
    BY <1>1 DEF StoredIds
  <2>3. QED  BY <1>1, <2>1, <2>2 DEF MonInv, MonitorTypeOK, Stages
<1>3. LogsGood' /\ OnlyInTransaction'
  BY <1>1 DEF MonInv, LogsGood, Log, OnlyInTransaction
<1>4. OnlyCommitted' /\ SeqsKnown'
  BY <1>1 DEF MonInv, OnlyCommitted, SeqsKnown, StoredIds
<1>5. MemoryIsLog'
  BY <1>1 DEF MonInv, MemoryIsLog, AgreesOn, Log
<1>6. QED  BY <1>2, <1>3, <1>4, <1>5 DEF MonInv

\* The row that is examined, and what it does to the memory.
LEMMA RowExamined ==
  ASSUME MonInv, pc = "examine", work # {}
  PROVE  LET i == Min(work) IN
         /\ i \in work /\ i \in StoredIds /\ i \in DOMAIN rows
         /\ rows[i].dev \in Devices /\ rows[i].seq \in 0..MaxSeq
         /\ rows[i].lacks \in SUBSET Sensors
         /\ Max({lastChecked, i}) \in 0..Len(rows)
<1> DEFINE i == Min(work)
<1>1. /\ Len(rows) \in Nat /\ DOMAIN rows = 1..Len(rows)
      /\ \A j \in DOMAIN rows : rows[j] \in ReadingRow
      /\ lastChecked \in 0..Len(rows)
  BY StoredRows DEF MonInv, MonitorTypeOK
<1>2. work \subseteq StoredIds /\ work \subseteq DOMAIN rows
  BY DEF MonInv, OnlyCommitted, MonitorTypeOK
<1>3. i \in work
  <2>1. work \in SUBSET Nat
    BY <1>1, <1>2
  <2>2. QED  BY <2>1, MinInSet
<1> HIDE DEF i
<1>4. i \in 1..Len(rows) /\ rows[i] \in ReadingRow /\ i \in StoredIds
  BY <1>1, <1>2, <1>3
<1>5. Max({lastChecked, i}) \in 0..Len(rows)
  BY <1>1, <1>4, MaxOfTwo
<1>6. QED  BY <1>1, <1>3, <1>4, <1>5 DEF ReadingRow, i

LEMMA ExamineKeeps ==
  ASSUME MonInv, ExamineRow
  PROVE  /\ MonInv'
         /\ \A e \in DOMAIN written' \ DOMAIN written :
              written'[e].code = "SEQ-GAP" =>
                \A j \in examined : \/ rows[j].dev # written'[e].dev
                                    \/ rows[j].seq <= written'[e].previous
<1> DEFINE i == Min(work)
           d == rows[i].dev
           seq == rows[i].seq
           M == MissingEvents(d, rows[i].lacks)
           S == SeqEvents(d, seq)
<1>1. /\ pc = "examine" /\ work # {} /\ pc' = pc
      /\ UNCHANGED <<rows, silent, events, staleSince, failed, faults>>
      /\ work' = work \ {i}
      /\ lastChecked' = Max({lastChecked, i})
      /\ written' = written \o M \o S
      /\ missingState' = [missingState EXCEPT ![d] = rows[i].lacks]
      /\ lastSeq' = [lastSeq EXCEPT ![d] = HighestSeq(lastSeq[d], seq)]
      /\ examined' = examined \cup {i}
      /\ baseSeq' = [baseSeq EXCEPT ![d] = IF lastSeq[d] = 0 THEN seq ELSE baseSeq[d]]
  BY DEF ExamineRow, dbVars
<1>2. /\ i \in work /\ i \in StoredIds /\ i \in DOMAIN rows
      /\ d \in Devices /\ seq \in 0..MaxSeq /\ rows[i].lacks \in SUBSET Sensors
      /\ Max({lastChecked, i}) \in 0..Len(rows)
  BY <1>1, RowExamined
<1>3. /\ MonitorTypeOK /\ GoodLog(Log) /\ Log \in Seq(Event)
      /\ events \in Seq(Event) /\ written \in Seq(Event)
      /\ missingState \in [Devices -> SUBSET Sensors] /\ lastSeq \in [Devices -> 0..MaxSeq]
  BY DEF MonInv, LogsGood, GoodLog, MonitorTypeOK
<1>4. /\ M \in Seq(Event) /\ \A e \in DOMAIN M : M[e].code = "DATA-MISSING"
      /\ GoodLog(Log \o M)
      /\ \A x \in Devices : /\ IsOpen(Log \o M, x, "DEVICE-STALE") = IsOpen(Log, x, "DEVICE-STALE")
                            /\ x # d => IsOpen(Log \o M, x, "DATA-MISSING") = IsOpen(Log, x, "DATA-MISSING")
      /\ (missingState[d] # {}) = IsOpen(Log, d, "DATA-MISSING")
            => (rows[i].lacks # {}) = IsOpen(Log \o M, d, "DATA-MISSING")
  <2> HIDE DEF i
  <2>1. QED  BY <1>2, <1>3, MissingRecorded, Zenon
<1>5. /\ S \in Seq(Event)
      /\ \A e \in DOMAIN S : /\ S[e].dev = d /\ S[e].previous = lastSeq[d] /\ S[e].current = seq
      /\ GoodLog((Log \o M) \o S)
      /\ \A x \in Devices, code \in StatefulCodes :
           IsOpen((Log \o M) \o S, x, code) = IsOpen(Log \o M, x, code)
  <2> HIDE DEF M
  <2>1. QED  BY <1>2, <1>3, <1>4, SeqRecorded
<1> HIDE DEF M, S, i, d, seq
<1>6. /\ written' \in Seq(Event)
      /\ Log' = (Log \o M) \o S
  <2>1. written \o M \in Seq(Event) /\ written' \in Seq(Event)
    BY <1>1, <1>3, <1>4, <1>5, ConcatProperties
  <2>2. Log \o M = events \o (written \o M)
    BY <1>3, <1>4, ConcatAssociative DEF Log
  <2>3. (events \o (written \o M)) \o S = events \o ((written \o M) \o S)
    <3> DEFINE t == written \o M
    <3>1. t \in Seq(Event) /\ S \in Seq(Event) /\ events \in Seq(Event)
      BY <1>3, <1>5, <2>1
    <3> HIDE DEF t
    <3>2. (events \o t) \o S = events \o (t \o S)
      BY <3>1, Regroup, Zenon
    <3>3. QED  BY <3>2 DEF t
  <2>4. QED  BY <1>1, <2>1, <2>2, <2>3 DEF Log
<1>7. /\ HighestSeq(lastSeq[d], seq) \in 0..MaxSeq
      /\ lastSeq[d] <= HighestSeq(lastSeq[d], seq) /\ seq <= HighestSeq(lastSeq[d], seq)
  <2>1. lastSeq[d] \in 0..MaxSeq /\ lastSeq[d] \in Int /\ seq \in Int
    BY <1>2, <1>3
  <2>2. HighestSeq(lastSeq[d], seq) = IF lastSeq[d] >= seq THEN lastSeq[d] ELSE seq
    BY <2>1, MaxOfTwo DEF HighestSeq
  <2>3. QED  BY <1>2, <2>1, <2>2
<1>8. MonitorTypeOK'
  <2>1. failed' \in BOOLEAN
    BY <1>1, <1>3, Zenon DEF MonitorTypeOK
  <2>2. /\ missingState' \in [Devices -> SUBSET Sensors] /\ lastSeq' \in [Devices -> 0..MaxSeq]
        /\ baseSeq' \in [Devices -> 0..MaxSeq]
    BY <1>1, <1>2, <1>3, <1>7 DEF MonitorTypeOK
  <2>3. work' \subseteq DOMAIN rows /\ examined' \subseteq DOMAIN rows
    BY <1>1, <1>2, <1>3 DEF MonitorTypeOK
  <2>4. QED  BY <1>1, <1>2, <1>3, <1>6, <2>1, <2>2, <2>3 DEF MonitorTypeOK
<1>9. LogsGood' /\ OnlyInTransaction'
  BY <1>1, <1>5, <1>6 DEF MonInv, LogsGood, OnlyInTransaction
<1>10. OnlyCommitted'
  BY <1>1, <1>2 DEF MonInv, OnlyCommitted, StoredIds
<1>11. SeqsKnown'
  <2> SUFFICES ASSUME NEW j \in examined'
               PROVE  rows[j].seq <= lastSeq'[rows[j].dev]
    BY <1>1 DEF SeqsKnown
  <2>1. rows[j].seq \in 0..MaxSeq /\ rows[j].dev \in Devices
    <3>1. j \in DOMAIN rows
      BY <1>1, <1>2, <1>3 DEF MonitorTypeOK
    <3>2. QED  BY <1>3, <3>1, StoredRows DEF ReadingRow
  <2>2. CASE j = i
    BY <1>1, <1>2, <1>3, <1>7, <2>2 DEF d, seq
  <2>3. CASE j \in examined
    <3>1. rows[j].seq <= lastSeq[rows[j].dev]
      BY <1>1, <2>3 DEF MonInv, SeqsKnown
    <3>2. lastSeq[rows[j].dev] <= lastSeq'[rows[j].dev]
      BY <1>1, <1>2, <1>3, <1>7, <2>1
    <3>3. lastSeq[rows[j].dev] \in Int /\ lastSeq'[rows[j].dev] \in Int
      BY <1>1, <1>2, <1>3, <1>7, <2>1
    <3>4. QED  BY <2>1, <3>1, <3>2, <3>3
  <2>4. QED  BY <1>1, <2>2, <2>3
<1>12. MemoryIsLog'
  <2> SUFFICES ASSUME ~failed, NEW x \in Devices  PROVE (AgreesOn(x))'
    BY <1>1 DEF MemoryIsLog
  <2>1. AgreesOn(x) /\ AgreesOn(d)
    BY <1>1, <1>2 DEF MonInv, MemoryIsLog
  <2>2. \A code \in StatefulCodes : IsOpen(Log', x, code) = IsOpen(Log \o M, x, code)
    BY <1>5, <1>6
  <2>3. "DEVICE-STALE" \in StatefulCodes /\ "DATA-MISSING" \in StatefulCodes
    BY DEF StatefulCodes
  <2>4. (x \in staleSince') = IsOpen(Log', x, "DEVICE-STALE")
    BY <1>1, <1>4, <2>1, <2>2, <2>3 DEF AgreesOn
  <2>5. (missingState'[x] # {}) = IsOpen(Log', x, "DATA-MISSING")
    <3>1. CASE x = d
      <4>1. missingState'[x] = rows[i].lacks
        BY <1>1, <1>2, <1>3, <3>1
      <4>2. (rows[i].lacks # {}) = IsOpen(Log \o M, d, "DATA-MISSING")
        BY <1>4, <2>1 DEF AgreesOn
      <4>3. QED  BY <2>2, <2>3, <3>1, <4>1, <4>2
    <3>2. CASE x # d
      <4>1. missingState'[x] = missingState[x]
        BY <1>1, <1>3, <3>2
      <4>2. (missingState[x] # {}) = IsOpen(Log \o M, x, "DATA-MISSING")
        BY <1>4, <2>1, <3>2 DEF AgreesOn
      <4>3. QED  BY <2>2, <2>3, <4>1, <4>2
    <3>3. QED  BY <3>1, <3>2
  <2>6. QED  BY <2>4, <2>5 DEF AgreesOn
<1>13. ASSUME NEW e \in DOMAIN written' \ DOMAIN written, written'[e].code = "SEQ-GAP",
              NEW j \in examined
       PROVE  rows[j].dev # written'[e].dev \/ rows[j].seq <= written'[e].previous
  <2>1. /\ Len(written) \in Nat /\ DOMAIN written = 1..Len(written)
        /\ Len(M) \in Nat /\ DOMAIN M = 1..Len(M)
        /\ Len(S) \in Nat /\ DOMAIN S = 1..Len(S)
    BY <1>3, <1>4, <1>5, LenProperties
  <2>2. /\ written \o M \in Seq(Event) /\ Len(written \o M) = Len(written) + Len(M)
        /\ \A k \in 1..(Len(written) + Len(M)) :
             (written \o M)[k] = IF k <= Len(written) THEN written[k] ELSE M[k - Len(written)]
    BY <1>3, <1>4, ConcatProperties
  <2> DEFINE n == Len(written \o M)
  <2>3. /\ n = Len(written) + Len(M)
        /\ DOMAIN written' = 1..(n + Len(S))
        /\ \A k \in 1..(n + Len(S)) :
             written'[k] = IF k <= n THEN (written \o M)[k] ELSE S[k - n]
    BY <1>1, <1>5, <2>2, ConcatProperties, LenProperties
  <2> HIDE DEF n
  <2>4. e \in 1..(n + Len(S)) /\ e > Len(written)
    BY <2>1, <2>3
  <2>5. CASE e <= n
    <3>1. e - Len(written) \in DOMAIN M /\ written'[e] = M[e - Len(written)]
      BY <2>1, <2>2, <2>3, <2>4, <2>5
    <3>2. written'[e].code = "DATA-MISSING"
      BY <1>4, <3>1
    <3>3. QED  BY <1>13, <3>2
  <2>6. CASE e > n
    <3>1. e - n \in DOMAIN S /\ written'[e] = S[e - n]
      BY <2>1, <2>3, <2>4, <2>6
    <3>2. written'[e].dev = d /\ written'[e].previous = lastSeq[d]
      BY <1>5, <3>1
    <3>3. rows[j].seq <= lastSeq[rows[j].dev]
      BY <1>1 DEF MonInv, SeqsKnown
    <3>4. QED  BY <3>2, <3>3
  <2>7. QED  BY <2>1, <2>3, <2>4, <2>5, <2>6
<1>14. MonInv'
  BY <1>8, <1>9, <1>10, <1>11, <1>12 DEF MonInv
<1>15. QED  BY <1>13, <1>14

\* COMMIT: what was the log to this transaction is the log to all.
LEMMA CommitKeeps ==
  ASSUME MonInv, NEW stage \in {"stale", "rows"}, pc \in {"examine", "check"},
         CommitEvents(stage)
  PROVE  MonInv'
<1>1. /\ UNCHANGED <<rows, silent, lastChecked, lastSeq, missingState, staleSince,
                     work, examined, baseSeq, failed, faults>>
      /\ work = {} /\ pc' = stage /\ events' = Log /\ written' = <<>>
  BY DEF CommitEvents, memoryVars, Log
<1>2. GoodLog(Log) /\ Log \in Seq(Event)
  BY DEF MonInv, LogsGood, GoodLog
<1>3. Log' = Log
  BY <1>1, <1>2, ConcatEmptySeq DEF Log
<1>4. MonitorTypeOK'
  <2>1. failed' \in BOOLEAN
    BY <1>1, Zenon DEF MonInv, MonitorTypeOK
  <2>2. QED  BY <1>1, <1>2, <2>1 DEF MonInv, MonitorTypeOK, Stages
<1>5. LogsGood' /\ OnlyInTransaction'
  BY <1>1, <1>2, <1>3 DEF LogsGood, OnlyInTransaction
<1>6. OnlyCommitted' /\ SeqsKnown'
  BY <1>1 DEF MonInv, OnlyCommitted, SeqsKnown, StoredIds
<1>7. MemoryIsLog'
  BY <1>1, <1>3 DEF MonInv, MemoryIsLog, AgreesOn
<1>8. QED  BY <1>4, <1>5, <1>6, <1>7 DEF MonInv

-----------------------------------------------------------------------------
\* check_stale_devices.

LEMMA ReadDevicesKeep == ASSUME MonInv, ReadDevices PROVE MonInv'
<1>1. /\ UNCHANGED <<rows, silent, events, lastChecked, lastSeq, missingState, staleSince,
                     written, examined, baseSeq, failed, faults>>
      /\ pc = "stale" /\ pc' = "check" /\ work' \subseteq Devices
  BY DEF ReadDevices, Changed, dbVars, memoryVars
<1>2. MonitorTypeOK'
  <2>1. failed' \in BOOLEAN
    BY <1>1, Zenon DEF MonInv, MonitorTypeOK
  <2>2. QED  BY <1>1, <2>1 DEF MonInv, MonitorTypeOK, Stages
<1>3. LogsGood' /\ OnlyInTransaction'
  BY <1>1 DEF MonInv, LogsGood, Log, OnlyInTransaction
<1>4. OnlyCommitted' /\ SeqsKnown'
  BY <1>1 DEF MonInv, OnlyCommitted, SeqsKnown, StoredIds
<1>5. MemoryIsLog'
  BY <1>1 DEF MonInv, MemoryIsLog, AgreesOn, Log
<1>6. QED  BY <1>2, <1>3, <1>4, <1>5 DEF MonInv

\* What is written for a device, and the memory, say the same.
LEMMA CheckKeeps ==
  ASSUME MonInv, NEW d \in Devices, CheckDevice(d)
  PROVE  /\ MonInv'
         /\ \A e \in DOMAIN written' \ DOMAIN written : written'[e].code = "DEVICE-STALE"
<1>1. PICK state \in EventStates :
        /\ staleSince' = IF state = "open" THEN staleSince \cup {d} ELSE staleSince \ {d}
        /\ written' = written \o Recorded(d, "DEVICE-STALE", state, {}, 0, 0)
  <2>1. CASE ReportStale(d)
    BY <2>1 DEF ReportStale, EventStates
  <2>2. CASE ReportRecovered(d)
    BY <2>2 DEF ReportRecovered, EventStates
  <2>3. QED  BY <2>1, <2>2 DEF CheckDevice
<1>2. /\ UNCHANGED <<rows, silent, events, pc, lastChecked, lastSeq, missingState,
                     examined, baseSeq, failed, faults>>
      /\ pc = "check" /\ work' = work \ {d}
  BY DEF CheckDevice, dbVars
<1>3. /\ GoodLog(Log) /\ Log \in Seq(Event) /\ events \in Seq(Event) /\ written \in Seq(Event)
      /\ MonitorTypeOK
  BY DEF MonInv, LogsGood, GoodLog, MonitorTypeOK
<1> DEFINE new == NewEvent(d, "DEVICE-STALE", state, {}, 0, 0)
           X == RecordIn(Log, new)
<1>4. new \in Event
  <2>1. 0 \in 0..MaxSeq /\ "DEVICE-STALE" \in EventCodes /\ {} \in SUBSET Sensors
    BY MonitorAssumption DEF EventCodes, StatefulCodes
  <2>2. QED  BY <2>1, NewEventTyped
<1>5. new.dev = d /\ new.code = "DEVICE-STALE" /\ new.state = state
  BY DEF NewEvent
<1>6. written' = written \o X
  BY <1>1, RecordedIsRecordIn DEF Log
<1> HIDE DEF new
<1>7. X \in Seq(Event) /\ \A e \in DOMAIN X : X[e].code = "DEVICE-STALE"
  BY <1>4, <1>5 DEF RecordIn
<1>8. GoodLog(Log \o X)
  <2>1. new.code # "DATA-MISSING"
    BY <1>5
  <2>2. QED  BY <1>3, <1>4, <2>1, RecordGood
<1>9. /\ IsOpen(Log \o X, d, "DEVICE-STALE") = (state = "open")
      /\ \A x, code : (x # d \/ code # "DEVICE-STALE") =>
           IsOpen(Log \o X, x, code) = IsOpen(Log, x, code)
  <2>1. new.code \in StatefulCodes
    BY <1>5 DEF StatefulCodes
  <2>2. QED  BY <1>3, <1>4, <1>5, <2>1, RecordSays
<1> HIDE DEF X
<1>10. Log' = Log \o X /\ written' \in Seq(Event)
  <2>1. (events \o written) \o X = events \o (written \o X)
    BY <1>3, <1>7, ConcatAssociative
  <2>2. QED  BY <1>2, <1>3, <1>6, <1>7, <2>1, ConcatProperties DEF Log
<1>11. MonitorTypeOK'
  <2>1. failed' \in BOOLEAN
    BY <1>2, Zenon DEF MonInv, MonitorTypeOK
  <2>2. staleSince' \subseteq Devices
    BY <1>1, <1>3 DEF MonitorTypeOK
  <2>3. QED  BY <1>2, <1>3, <1>10, <2>1, <2>2 DEF MonitorTypeOK
<1>12. LogsGood' /\ OnlyInTransaction'
  BY <1>2, <1>3, <1>8, <1>10 DEF MonInv, LogsGood, OnlyInTransaction
<1>13. OnlyCommitted' /\ SeqsKnown'
  BY <1>2 DEF MonInv, OnlyCommitted, SeqsKnown, StoredIds
<1>14. MemoryIsLog'
  <2> SUFFICES ASSUME ~failed, NEW x \in Devices  PROVE (AgreesOn(x))'
    BY <1>2 DEF MemoryIsLog
  <2>1. AgreesOn(x)
    BY <1>2 DEF MonInv, MemoryIsLog
  <2>2. (missingState'[x] # {}) = IsOpen(Log', x, "DATA-MISSING")
    <3>1. missingState' = missingState /\ "DATA-MISSING" # "DEVICE-STALE"
      BY <1>2
    <3>2. QED  BY <1>9, <1>10, <2>1, <3>1 DEF AgreesOn
  <2>3. (x \in staleSince') = IsOpen(Log', x, "DEVICE-STALE")
    <3>1. CASE x = d
      <4>1. (x \in staleSince') <=> (state = "open")
        BY <1>1, <3>1
      <4>2. QED  BY <1>9, <1>10, <3>1, <4>1
    <3>2. CASE x # d
      <4>1. (x \in staleSince') <=> (x \in staleSince)
        BY <1>1, <3>2
      <4>2. QED  BY <1>9, <1>10, <2>1, <3>2, <4>1 DEF AgreesOn
    <3>3. QED  BY <3>1, <3>2
  <2>4. QED  BY <2>2, <2>3 DEF AgreesOn
<1>15. ASSUME NEW e \in DOMAIN written' \ DOMAIN written
       PROVE  written'[e].code = "DEVICE-STALE"
  <2>1. /\ Len(written) \in Nat /\ DOMAIN written = 1..Len(written)
        /\ Len(X) \in Nat /\ DOMAIN X = 1..Len(X)
        /\ DOMAIN written' = 1..(Len(written) + Len(X))
        /\ \A k \in 1..(Len(written) + Len(X)) :
             written'[k] = IF k <= Len(written) THEN written[k] ELSE X[k - Len(written)]
    BY <1>3, <1>6, <1>7, <1>10, ConcatProperties, LenProperties
  <2>2. e - Len(written) \in DOMAIN X /\ written'[e] = X[e - Len(written)]
    BY <2>1
  <2>3. QED  BY <1>7, <2>2
<1>16. QED  BY <1>11, <1>12, <1>13, <1>14, <1>15 DEF MonInv

-----------------------------------------------------------------------------
\* Failures: the open transaction is gone, the memory is taken to be wrong.

LEMMA RolledBack ==
  ASSUME MonInv, events' = events, written' = <<>>
  PROVE  LogsGood' /\ OnlyInTransaction'
<1>1. GoodLog(events) /\ events \in Seq(Event)
  BY DEF MonInv, LogsGood, GoodLog
<1>2. Log' = events
  BY <1>1, ConcatEmptySeq DEF Log
<1>3. QED  BY <1>1, <1>2 DEF LogsGood, OnlyInTransaction

LEMMA FailKeeps == ASSUME MonInv, FailTransaction PROVE MonInv'
<1>1. /\ UNCHANGED <<rows, silent, events, lastChecked, lastSeq, missingState, staleSince, examined, baseSeq>>
      /\ pc \in {"examine", "check"} /\ pc' = "rows" /\ work' = {} /\ written' = <<>>
      /\ failed' = TRUE /\ faults < MaxFaults /\ faults' = faults + 1
  BY DEF FailTransaction, dbVars, memoryVars
<1>2. MonitorTypeOK'
  <2>1. faults' \in 0..MaxFaults
    BY <1>1, MonitorAssumption DEF MonInv, MonitorTypeOK
  <2>2. failed' \in BOOLEAN
    BY <1>1
  <2>3. QED  BY <1>1, <2>1, <2>2 DEF MonInv, MonitorTypeOK, Stages
<1>3. OnlyCommitted' /\ SeqsKnown' /\ MemoryIsLog'
  BY <1>1 DEF MonInv, OnlyCommitted, SeqsKnown, MemoryIsLog, StoredIds
<1>4. QED  BY <1>1, <1>2, <1>3, RolledBack DEF MonInv

LEMMA FailInRowKeeps == ASSUME MonInv, FailInRow PROVE MonInv'
<1> DEFINE i == Min(work)
<1>1. /\ UNCHANGED <<rows, silent, events, lastSeq, staleSince, examined, baseSeq>>
      /\ pc = "examine" /\ work # {} /\ pc' = "rows" /\ work' = {} /\ written' = <<>>
      /\ lastChecked' = Max({lastChecked, i})
      /\ \/ missingState' = missingState
         \/ missingState' = [missingState EXCEPT ![rows[i].dev] = rows[i].lacks]
      /\ failed' = TRUE /\ faults < MaxFaults /\ faults' = faults + 1
  BY DEF FailInRow, dbVars
<1>2. /\ rows[i].dev \in Devices /\ rows[i].lacks \in SUBSET Sensors
      /\ Max({lastChecked, i}) \in 0..Len(rows)
  BY <1>1, RowExamined
<1> HIDE DEF i
<1>3. MonitorTypeOK'
  <2>1. faults' \in 0..MaxFaults
    BY <1>1, MonitorAssumption DEF MonInv, MonitorTypeOK
  <2>2. missingState' \in [Devices -> SUBSET Sensors]
    BY <1>1, <1>2 DEF MonInv, MonitorTypeOK
  <2>3. failed' \in BOOLEAN
    BY <1>1
  <2>4. QED  BY <1>1, <1>2, <2>1, <2>2, <2>3 DEF MonInv, MonitorTypeOK, Stages
<1>4. OnlyCommitted' /\ SeqsKnown' /\ MemoryIsLog'
  BY <1>1 DEF MonInv, OnlyCommitted, SeqsKnown, MemoryIsLog, StoredIds
<1>5. QED  BY <1>1, <1>3, <1>4, RolledBack DEF MonInv

LEMMA CycleFailsKeeps == ASSUME MonInv, CycleFails PROVE MonInv'
<1>1. /\ UNCHANGED <<rows, silent, events, lastChecked, lastSeq, missingState, staleSince,
                     work, written, examined, baseSeq, failed>>
      /\ pc = "stale" /\ pc' = "rows" /\ faults < MaxFaults /\ faults' = faults + 1
  BY DEF CycleFails, dbVars, memoryVars
<1>2. MonitorTypeOK'
  <2>1. faults' \in 0..MaxFaults
    BY <1>1, MonitorAssumption DEF MonInv, MonitorTypeOK
  <2>2. failed' \in BOOLEAN
    BY <1>1, Zenon DEF MonInv, MonitorTypeOK
  <2>3. QED  BY <1>1, <2>1, <2>2 DEF MonInv, MonitorTypeOK, Stages
<1>3. LogsGood' /\ OnlyInTransaction'
  BY <1>1 DEF MonInv, LogsGood, Log, OnlyInTransaction
<1>4. OnlyCommitted' /\ SeqsKnown' /\ MemoryIsLog'
  BY <1>1 DEF MonInv, OnlyCommitted, SeqsKnown, MemoryIsLog, AgreesOn, Log, StoredIds
<1>5. QED  BY <1>2, <1>3, <1>4 DEF MonInv

LEMMA CrashKeeps == ASSUME MonInv, Crash PROVE MonInv'
<1>1. /\ UNCHANGED <<rows, silent, events, examined, failed>>
      /\ baseSeq' = [d \in Devices |-> 0]
      /\ pc' = "down" /\ work' = {} /\ written' = <<>> /\ lastChecked' = 0
      /\ lastSeq' = [d \in Devices |-> 0] /\ missingState' = [d \in Devices |-> {}]
      /\ staleSince' = {} /\ faults < MaxFaults /\ faults' = faults + 1
  BY DEF Crash, ForgetMemory, dbVars
<1>2. MonitorTypeOK'
  <2>1. faults' \in 0..MaxFaults
    BY <1>1, MonitorAssumption DEF MonInv, MonitorTypeOK
  <2>2. failed' \in BOOLEAN
    BY <1>1, Zenon DEF MonInv, MonitorTypeOK
  <2>3. /\ lastSeq' \in [Devices -> 0..MaxSeq] /\ baseSeq' \in [Devices -> 0..MaxSeq]
        /\ missingState' \in [Devices -> SUBSET Sensors]
        /\ written' \in Seq(Event) /\ staleSince' \subseteq Devices
    BY <1>1, MonitorAssumption
  <2>4. lastChecked' \in 0..Len(rows)
    BY <1>1 DEF MonInv, MonitorTypeOK
  <2>5. QED  BY <1>1, <2>1, <2>2, <2>3, <2>4 DEF MonInv, MonitorTypeOK, Stages
<1>3. OnlyCommitted' /\ SeqsKnown' /\ MemoryIsLog'
  BY <1>1 DEF MonInv, OnlyCommitted, SeqsKnown, MemoryIsLog, StoredIds
<1>4. QED  BY <1>1, <1>2, <1>3, RolledBack DEF MonInv

-----------------------------------------------------------------------------
(***************************************************************************)
(* The numbers of a device: what last_seq has passed was seen or reported. *)
(* This rests on MonInv and adds to it.                                    *)
(***************************************************************************)
Accounted(log, d) ==
  \A n \in (baseSeq[d] + 1)..lastSeq[d] : Seen(d, n) \/ InGap(log, d, n)

SeqsAccounted ==
  (pc \notin {"down", "initSeqs"} /\ ~failed) => \A d \in Devices : Accounted(Log, d)

\* What is in a gap stays there, whatever is added to the log.
LEMMA GapStays ==
  ASSUME NEW log \in Seq(Event), NEW more \in Seq(Event), NEW d, NEW n,
         InGap(log, d, n)
  PROVE  InGap(log \o more, d, n)
<1>1. /\ Len(log) \in Nat /\ Len(more) \in Nat /\ DOMAIN log = 1..Len(log)
      /\ DOMAIN (log \o more) = 1..(Len(log) + Len(more))
      /\ \A k \in 1..(Len(log) + Len(more)) :
           (log \o more)[k] = IF k <= Len(log) THEN log[k] ELSE more[k - Len(log)]
  BY ConcatProperties, LenProperties
<1>2. PICK e \in Of(log, d, "SEQ-GAP") : log[e].previous < n /\ n < log[e].current
  BY DEF InGap
<1>3. e \in DOMAIN (log \o more) /\ (log \o more)[e] = log[e]
  BY <1>1, <1>2 DEF Of
<1>4. QED  BY <1>2, <1>3 DEF InGap, Of

\* A jump of last_seq is written down.
LEMMA JumpReported ==
  ASSUME MonitorTypeOK, NEW log \in Seq(Event), NEW d \in Devices, NEW seq \in 0..MaxSeq,
         lastSeq[d] # 0, NEW n \in Nat, lastSeq[d] < n, n < seq
  PROVE  InGap(log \o SeqEvents(d, seq), d, n)
<1> DEFINE new == NewEvent(d, "SEQ-GAP", "open", {}, lastSeq[d], seq)
           L == log \o <<new>>
<1>1. lastSeq[d] \in 0..MaxSeq /\ seq > lastSeq[d] + 1 /\ seq # 0
  BY DEF MonitorTypeOK
<1>2. SeqEvents(d, seq) = <<new>>
  <2>1. Recorded(d, "SEQ-GAP", "open", {}, lastSeq[d], seq) = <<new>>
    BY RecordedIsRecordIn DEF RecordIn, NewEvent, StatefulCodes
  <2> HIDE DEF new
  <2>2. QED  BY <1>1, <2>1 DEF SeqEvents
<1>3. new \in Event
  <2>1. "SEQ-GAP" \in EventCodes /\ "open" \in EventStates
    BY DEF EventCodes, EventStates
  <2>2. QED  BY <1>1, <2>1, NewEventTyped
<1>4. new.dev = d /\ new.code = "SEQ-GAP" /\ new.previous = lastSeq[d] /\ new.current = seq
  BY DEF NewEvent
<1> HIDE DEF new
<1>5. Len(log) + 1 \in Of(L, d, "SEQ-GAP") /\ L[Len(log) + 1] = new
  BY <1>3, <1>4, Appended, AppendedOf
<1>6. QED  BY <1>2, <1>4, <1>5 DEF InGap

LEMMA AccountedInit == MonitorInit => SeqsAccounted
BY DEF MonitorInit, SeqsAccounted

\* last_seq moves: the numbers in between are in the gap that is written.
LEMMA AccountedExamine ==
  ASSUME MonInv, SeqsAccounted, ExamineRow
  PROVE  SeqsAccounted'
<1> DEFINE i == Min(work)
           d == rows[i].dev
           seq == rows[i].seq
           M == MissingEvents(d, rows[i].lacks)
           S == SeqEvents(d, seq)
<1>1. /\ pc = "examine" /\ work # {} /\ pc' = pc
      /\ UNCHANGED <<rows, events, failed>>
      /\ written' = (written \o M) \o S
      /\ lastSeq' = [lastSeq EXCEPT ![d] = HighestSeq(lastSeq[d], seq)]
      /\ examined' = examined \cup {i}
      /\ baseSeq' = [baseSeq EXCEPT ![d] = IF lastSeq[d] = 0 THEN seq ELSE baseSeq[d]]
  BY DEF ExamineRow, dbVars
<1>2. /\ i \in DOMAIN rows /\ d \in Devices /\ seq \in 0..MaxSeq
      /\ rows[i].lacks \in SUBSET Sensors
  BY <1>1, RowExamined
<1>3. /\ MonitorTypeOK /\ GoodLog(Log) /\ Log \in Seq(Event)
      /\ events \in Seq(Event) /\ written \in Seq(Event)
      /\ lastSeq \in [Devices -> 0..MaxSeq] /\ baseSeq \in [Devices -> 0..MaxSeq]
  BY DEF MonInv, LogsGood, GoodLog, MonitorTypeOK
<1>4. M \in Seq(Event) /\ S \in Seq(Event)
  <2>1. M \in Seq(Event)
    <3> HIDE DEF i
    <3>1. QED  BY <1>2, <1>3, MissingRecorded, Zenon
  <2>2. S \in Seq(Event)
    BY <1>2, <1>3, SeqRecorded
  <2>3. QED  BY <2>1, <2>2
<1>5. \A x \in Devices, n \in Nat :
        Seen(x, n) \/ (x = d /\ n = seq) => Seen(x, n)'
  BY <1>1 DEF Seen
<1>6. HighestSeq(lastSeq[d], seq) = IF lastSeq[d] >= seq THEN lastSeq[d] ELSE seq
  <2>1. lastSeq[d] \in Int /\ seq \in Int
    BY <1>2, <1>3
  <2>2. QED  BY <2>1, MaxOfTwo DEF HighestSeq
<1>7. \A n \in Nat : lastSeq[d] # 0 /\ lastSeq[d] < n /\ n < seq =>
        InGap((Log \o M) \o S, d, n)
  <2>1. Log \o M \in Seq(Event)
    BY <1>3, <1>4, ConcatProperties
  <2> HIDE DEF M
  <2>2. QED  BY <1>2, <1>3, <2>1, JumpReported
<1> HIDE DEF M, S, i, d, seq
<1>8. Log' = (Log \o M) \o S
  <2>1. written \o M \in Seq(Event)
    BY <1>3, <1>4, ConcatProperties
  <2>2. Log \o M = events \o (written \o M)
    BY <1>3, <1>4, ConcatAssociative DEF Log
  <2>3. (events \o (written \o M)) \o S = events \o ((written \o M) \o S)
    <3> DEFINE t == written \o M
    <3>1. t \in Seq(Event) /\ S \in Seq(Event) /\ events \in Seq(Event)
      BY <1>3, <1>4, <2>1
    <3> HIDE DEF t
    <3>2. (events \o t) \o S = events \o (t \o S)
      BY <3>1, Regroup, Zenon
    <3>3. QED  BY <3>2 DEF t
  <2>4. QED  BY <1>1, <2>2, <2>3 DEF Log
<1>9. \A x \in Devices, n \in Nat : InGap(Log, x, n) => InGap(Log', x, n)
  <2>1. Log \o M \in Seq(Event)
    BY <1>3, <1>4, ConcatProperties
  <2>2. \A x \in Devices, n \in Nat : InGap(Log, x, n) => InGap(Log \o M, x, n)
    BY <1>3, <1>4, GapStays
  <2>3. \A x \in Devices, n \in Nat : InGap(Log \o M, x, n) => InGap((Log \o M) \o S, x, n)
    BY <1>4, <2>1, GapStays
  <2>4. QED  BY <1>8, <2>2, <2>3
<1>10. ASSUME ~failed, NEW x \in Devices, NEW n \in (baseSeq'[x] + 1)..lastSeq'[x]
       PROVE  Seen(x, n)' \/ InGap(Log', x, n)
  <2>1. n \in Nat /\ lastSeq[x] \in Nat /\ baseSeq[x] \in Nat /\ seq \in Nat
    BY <1>1, <1>2, <1>3, <1>6
  <2>2. Accounted(Log, x)
    BY <1>1, <1>10 DEF SeqsAccounted
  <2>3. CASE n \in (baseSeq[x] + 1)..lastSeq[x]
    BY <1>5, <1>9, <2>1, <2>2, <2>3 DEF Accounted
  <2>4. CASE n \notin (baseSeq[x] + 1)..lastSeq[x]
    <3>1. x = d /\ n > lastSeq[d] /\ n <= seq /\ lastSeq[d] # 0
      BY <1>1, <1>2, <1>3, <1>6, <1>10, <2>1, <2>4
    <3>2. CASE n = seq
      BY <1>5, <2>1, <3>1, <3>2
    <3>3. CASE n < seq
      BY <1>7, <1>8, <2>1, <3>1, <3>3
    <3>4. QED  BY <2>1, <3>1, <3>2, <3>3
  <2>5. QED  BY <2>3, <2>4
<1>11. QED  BY <1>1, <1>10 DEF SeqsAccounted, Accounted

\* Every other step leaves the numbers alone, or nothing to account for.
LEMMA AccountedQuiet ==
  ASSUME MonInv, SeqsAccounted,
         pc' \notin {"down", "initSeqs"} /\ ~failed' => pc \notin {"down", "initSeqs"} /\ ~failed,
         UNCHANGED <<lastSeq, examined, baseSeq>>,
         \A i \in DOMAIN rows : rows'[i].dev = rows[i].dev /\ rows'[i].seq = rows[i].seq,
         \/ UNCHANGED <<events, written>>
         \/ \E X \in Seq(Event) : events' = events /\ written' = written \o X
         \/ events' = Log /\ written' = <<>>
  PROVE  SeqsAccounted'
<1>1. events \in Seq(Event) /\ written \in Seq(Event) /\ Log \in Seq(Event)
  BY DEF MonInv, LogsGood, GoodLog, MonitorTypeOK
<1>2. \A x, n : InGap(Log, x, n) => InGap(Log', x, n)
  <2>1. CASE UNCHANGED <<events, written>>
    BY <2>1 DEF Log
  <2>2. ASSUME NEW X \in Seq(Event), events' = events, written' = written \o X
        PROVE  \A x, n : InGap(Log, x, n) => InGap(Log', x, n)
    <3>1. Log' = Log \o X
      <4>1. (events \o written) \o X = events \o (written \o X)
        BY <1>1, <2>2, ConcatAssociative
      <4>2. QED  BY <2>2, <4>1 DEF Log
    <3>2. QED  BY <1>1, <3>1, GapStays
  <2>3. CASE events' = Log /\ written' = <<>>
    BY <1>1, <2>3, ConcatEmptySeq DEF Log
  <2>4. QED  BY <2>1, <2>2, <2>3
<1>3. \A x, n : Seen(x, n) => Seen(x, n)'
  BY DEF Seen, MonInv, MonitorTypeOK
<1>4. QED  BY <1>2, <1>3 DEF SeqsAccounted, Accounted

LEMMA AccountedNext == MonInv /\ SeqsAccounted /\ [MonitorNext]_monitorVars => SeqsAccounted'
<1> SUFFICES ASSUME MonInv, SeqsAccounted, [MonitorNext]_monitorVars PROVE SeqsAccounted'
  OBVIOUS
<1>0. /\ rows \in Seq(ReadingRow) /\ MonitorTypeOK
      /\ Len(rows) \in Nat /\ DOMAIN rows = 1..Len(rows)
  BY StoredRows DEF MonInv, MonitorTypeOK
<1>1. CASE InitializeCursor \/ Crash
  BY <1>1 DEF InitializeCursor, Crash, SeqsAccounted
<1>2. CASE InitializeSeqs
  <2>1. pc' = "initStates" /\ baseSeq' = lastSeq' /\ lastSeq' \in [Devices -> 0..MaxSeq]
    BY <1>2, SeqsKeep DEF InitializeSeqs, MonInv, MonitorTypeOK
  <2>2. \A d \in Devices : (baseSeq'[d] + 1)..lastSeq'[d] = {}
    BY <2>1
  <2>3. QED  BY <2>2 DEF SeqsAccounted, Accounted
<1>3. CASE InitializeStates
  BY <1>3, AccountedQuiet DEF InitializeStates, dbVars
<1>4. CASE ReadRows
  BY <1>4, AccountedQuiet DEF ReadRows, dbVars, memoryVars
<1>5. CASE ExamineRow
  BY <1>5, AccountedExamine
<1>6. CASE CommitRows \/ CommitStale
  <2>1. /\ UNCHANGED <<rows, lastSeq, examined, baseSeq, failed>>
        /\ pc \in {"examine", "check"} /\ events' = Log /\ written' = <<>>
    BY <1>6 DEF CommitRows, CommitStale, CommitEvents, memoryVars, Log
  <2>2. QED  BY <2>1, AccountedQuiet
<1>7. CASE ReadDevices
  BY <1>7, AccountedQuiet DEF ReadDevices, dbVars, memoryVars
<1>8. ASSUME NEW d \in Devices, CheckDevice(d)  PROVE SeqsAccounted'
  <2>1. PICK state \in EventStates :
          written' = written \o Recorded(d, "DEVICE-STALE", state, {}, 0, 0)
    BY <1>8 DEF CheckDevice, ReportStale, ReportRecovered, EventStates
  <2>2. Recorded(d, "DEVICE-STALE", state, {}, 0, 0) \in Seq(Event)
    <3>1. NewEvent(d, "DEVICE-STALE", state, {}, 0, 0) \in Event
      <4>1. 0 \in 0..MaxSeq /\ "DEVICE-STALE" \in EventCodes
        BY MonitorAssumption DEF EventCodes, StatefulCodes
      <4>2. QED  BY <4>1, NewEventTyped
    <3> DEFINE new == NewEvent(d, "DEVICE-STALE", state, {}, 0, 0)
    <3> HIDE DEF new
    <3>2. RecordIn(Log, new) \in Seq(Event)
      BY <3>1 DEF RecordIn, new
    <3>3. QED  BY <3>2, RecordedIsRecordIn DEF Log, new
  <2>3. /\ UNCHANGED <<rows, lastSeq, examined, baseSeq, failed, events>>
        /\ pc = "check" /\ pc' = pc
    BY <1>8 DEF CheckDevice, dbVars
  <2>4. QED  BY <2>1, <2>2, <2>3, AccountedQuiet
<1>9. CASE FailTransaction \/ FailInRow
  BY <1>9 DEF FailTransaction, FailInRow, SeqsAccounted
<1>10. CASE CycleFails
  BY <1>10, AccountedQuiet DEF CycleFails, dbVars, memoryVars
<1>11. ASSUME NEW d \in Devices, NEW k \in Kinds, Insert(d, k[1], k[2])
       PROVE  SeqsAccounted'
  <2>1. \A i \in DOMAIN rows : rows'[i] = rows[i]
    BY <1>0, <1>11 DEF Insert
  <2>2. QED  BY <1>11, <2>1, AccountedQuiet DEF Insert, memoryVars
<1>12. ASSUME NEW i \in DOMAIN rows, CommitRow(i)  PROVE SeqsAccounted'
  <2>1. \A j \in DOMAIN rows : rows'[j].dev = rows[j].dev /\ rows'[j].seq = rows[j].seq
    <3>1. \A j \in DOMAIN rows : rows[j] \in ReadingRow
      BY <1>0
    <3>2. rows' = [rows EXCEPT ![i] = [rows[i] EXCEPT !.stored = TRUE]]
      BY <1>12 DEF CommitRow
    <3>3. QED  BY <3>1, <3>2 DEF ReadingRow
  <2>2. QED  BY <1>12, <2>1, AccountedQuiet DEF CommitRow, memoryVars
<1>13. ASSUME NEW d \in Devices, FallSilent(d)  PROVE SeqsAccounted'
  BY <1>13, AccountedQuiet DEF FallSilent, memoryVars
<1>14. CASE UNCHANGED monitorVars
  BY <1>14, AccountedQuiet DEF monitorVars
<1>15. QED
  BY <1>1, <1>2, <1>3, <1>4, <1>5, <1>6, <1>7, <1>8, <1>9, <1>10, <1>11, <1>12, <1>13, <1>14
     DEF MonitorNext, MonitorStep, MonitorFault, Environment

-----------------------------------------------------------------------------
\* Every step keeps the invariant, and what it reports as a gap is one.
GapStep ==
  \A e \in DOMAIN written' \ DOMAIN written :
    written'[e].code = "SEQ-GAP" =>
      \A i \in examined :
        \/ rows[i].dev # written'[e].dev
        \/ rows[i].seq <= written'[e].previous
        \/ written'[e].current <= rows[i].seq

LEMMA NothingReported ==
  ASSUME written' = written \/ written' = <<>>
  PROVE  GapStep
BY DEF GapStep

LEMMA MonitorNextInv == MonInv /\ [MonitorNext]_monitorVars => MonInv' /\ GapStep
<1> SUFFICES ASSUME MonInv, [MonitorNext]_monitorVars PROVE MonInv' /\ GapStep
  OBVIOUS
<1>1. CASE InitializeCursor
  BY <1>1, CursorKeeps, NothingReported DEF InitializeCursor
<1>2. CASE InitializeSeqs
  BY <1>2, SeqsKeep, NothingReported DEF InitializeSeqs
<1>3. CASE InitializeStates
  BY <1>3, StatesKeep, NothingReported DEF InitializeStates
<1>4. CASE ReadRows
  BY <1>4, ReadRowsKeep, NothingReported DEF ReadRows
<1>5. CASE ExamineRow
  BY <1>5, ExamineKeeps DEF GapStep
<1>6. CASE CommitRows
  BY <1>6, CommitKeeps, NothingReported DEF CommitRows, CommitEvents
<1>7. CASE ReadDevices
  BY <1>7, ReadDevicesKeep, NothingReported DEF ReadDevices
<1>8. ASSUME NEW d \in Devices, CheckDevice(d)  PROVE MonInv' /\ GapStep
  <2>1. MonInv' /\ \A e \in DOMAIN written' \ DOMAIN written : written'[e].code = "DEVICE-STALE"
    BY <1>8, CheckKeeps
  <2>2. "DEVICE-STALE" # "SEQ-GAP"
    OBVIOUS
  <2>3. QED  BY <2>1, <2>2 DEF GapStep
<1>9. CASE CommitStale
  BY <1>9, CommitKeeps, NothingReported DEF CommitStale, CommitEvents
<1>10. CASE FailTransaction
  BY <1>10, FailKeeps, NothingReported DEF FailTransaction
<1>11. CASE FailInRow
  <2>1. written' = <<>>
    BY <1>11 DEF FailInRow
  <2>2. QED  BY <1>11, <2>1, FailInRowKeeps, NothingReported
<1>12. CASE CycleFails
  BY <1>12, CycleFailsKeeps, NothingReported DEF CycleFails
<1>13. CASE Crash
  BY <1>13, CrashKeeps, NothingReported DEF Crash, ForgetMemory
<1>14. ASSUME NEW d \in Devices, NEW k \in Kinds, Insert(d, k[1], k[2])
       PROVE  MonInv' /\ GapStep
  BY <1>14, InsertKeeps, NothingReported DEF Insert
<1>15. ASSUME NEW i \in DOMAIN rows, CommitRow(i)  PROVE MonInv' /\ GapStep
  BY <1>15, CommitRowKeeps, NothingReported DEF CommitRow
<1>16. ASSUME NEW d \in Devices, FallSilent(d)  PROVE MonInv' /\ GapStep
  BY <1>16, SilentKeeps, NothingReported DEF FallSilent
<1>17. CASE UNCHANGED monitorVars
  <2>1. written' = written
    BY <1>17 DEF monitorVars
  <2>2. MonInv'
    BY <1>17 DEF monitorVars, MonInv, MonitorTypeOK, LogsGood, Log, OnlyInTransaction,
       OnlyCommitted, SeqsKnown, MemoryIsLog, AgreesOn, StoredIds
  <2>3. QED  BY <2>1, <2>2, NothingReported
<1>18. QED
  BY <1>1, <1>2, <1>3, <1>4, <1>5, <1>6, <1>7, <1>8, <1>9, <1>10, <1>11, <1>12, <1>13,
     <1>14, <1>15, <1>16, <1>17
     DEF MonitorNext, MonitorStep, MonitorFault, Environment

-----------------------------------------------------------------------------
\* The invariant holds in every reachable state.
LEMMA MonitorInvariant == MonitorSpec => []MonInv
<1>1. MonInv /\ [MonitorNext]_monitorVars => MonInv'
  BY MonitorNextInv
<1>2. QED  BY <1>1, MonitorInitInv, PTL DEF MonitorSpec

LEMMA NumbersInvariant == MonitorSpec => []SeqsAccounted
<1>1. QED  BY AccountedInit, AccountedNext, MonitorInvariant, PTL DEF MonitorSpec

\* Every variable of DeviceMonitor and of its environment keeps its type.
THEOREM MonitorTypeCorrect == MonitorSpec => []MonitorTypeOK
<1>1. MonInv => MonitorTypeOK
  BY DEF MonInv
<1>2. QED  BY <1>1, MonitorInvariant, PTL

\* The open and recovered events of a device alternate, whatever _record_event
\* is asked to record after restarts and rolled back transactions.
THEOREM MonitorAlertsAlternate == MonitorSpec => []AlertsAlternate
<1>1. MonInv => AlertsAlternate
  BY DEF MonInv, LogsGood, GoodLog, Alternates, AlertsAlternate
<1>2. QED  BY <1>1, MonitorInvariant, PTL

\* What initialize restores, and what every cycle leaves, is what the log says,
\* as long as no transaction has been rolled back; and what last_seq has passed
\* was seen or is in the log as a gap.
THEOREM MonitorMemoryMatchesLog == MonitorSpec => []MemoryMatchesLog
<1>1. MonInv /\ SeqsAccounted => MemoryMatchesLog
  <2> SUFFICES ASSUME MonInv, SeqsAccounted, pc = "rows", ~failed, NEW d \in Devices
               PROVE  /\ (d \in staleSince) = IsOpen(events, d, "DEVICE-STALE")
                      /\ (missingState[d] # {}) = IsOpen(events, d, "DATA-MISSING")
                      /\ Accounted(events, d)
    BY DEF MemoryMatchesLog, Accounted
  <2>1. Log = events
    BY NothingOpen
  <2>2. AgreesOn(d) /\ Accounted(Log, d)
    BY DEF MonInv, MemoryIsLog, SeqsAccounted
  <2>3. QED  BY <2>1, <2>2 DEF AgreesOn
<1>2. QED  BY <1>1, MonitorInvariant, NumbersInvariant, PTL

\* No number that a SEQ-GAP reports as missing was in a row examined before.
THEOREM MonitorGapIsReal == MonitorSpec => GapIsReal
<1>1. MonInv /\ [MonitorNext]_monitorVars => [GapStep]_monitorVars
  BY MonitorNextInv
<1>2. MonitorSpec => [][GapStep]_monitorVars
  BY <1>1, MonitorInvariant, PTL DEF MonitorSpec
<1>3. QED  BY <1>2 DEF GapIsReal, GapStep
=============================================================================
