------------------------- MODULE SensorDeliveryProofs -------------------------
(***************************************************************************)
(* Theorems about module SensorDelivery.  A step of the composed system is *)
(* a step of Ingest or leaves the server alone, so that the invariant of   *)
(* IngestProofs holds in it; DInv adds what the client knows.              *)
(***************************************************************************)
EXTENDS SensorDelivery, IngestProofs

-----------------------------------------------------------------------------
\* The parts of the inductive invariant.

ClientTypeOK ==
  /\ QueueTypeOK
  /\ at \in ClientStages
  /\ batch \subseteq Request
  /\ current \in Request \cup {NoRequest}
  /\ conn \in Handlers \cup {NoHandler}
  /\ mishaps \in 0..MaxMishaps
  /\ made \subseteq Request
  /\ revised \in BOOLEAN

\* Message ids and numbers name one payload each.
NamesUnique ==
  /\ \A p \in made : p.dev = Pi /\ p.seq <= seq
  /\ \A p, q \in made : p.mid = q.mid \/ p.seq = q.seq => p = q
  /\ at = "enqueue" => (\A p \in made : p.seq < seq) /\ seq \in 1..MaxSeq

\* The server has seen nothing that the client did not queue.
ServerKnowsMade ==
  /\ \A h \in Handlers : pc[h] # "idle" => req[h] \in made
  /\ readings \subseteq made
  /\ \A row \in ingest : row.payload \in made

\* One row per payload.
OutboxSound ==
  /\ Queued \subseteq made
  /\ \A e, f \in outbox : e.payload = f.payload => e = f

\* What the client is about to send, or waits for, is still in its outbox.
InHand ==
  /\ batch \subseteq Sendable
  /\ at \in {"send"} \cup Waiting => current \in Sendable

\* Nobody else can use the connection the client waits on.
Connected ==
  conn # NoHandler =>
    /\ at \in Waiting
    /\ pc[conn] # "idle" => req[conn] = current

DInv ==
  /\ ClientTypeOK
  /\ NamesUnique
  /\ ServerKnowsMade
  /\ OutboxSound
  /\ InHand
  /\ Connected
  /\ NothingLost

-----------------------------------------------------------------------------
\* What the operations of the queue do to the three views of the outbox.

LEMMA SendablePart ==
  ASSUME ClientTypeOK
  PROVE  Queued = Sendable \cup Quarantined
  BY DEF ClientTypeOK, QueueTypeOK, Queued, Sendable, Quarantined

LEMMA SendableNotQuarantined ==
  ASSUME OutboxSound PROVE Sendable \cap Quarantined = {}
  BY DEF OutboxSound, Sendable, Quarantined

\* A payload in the outbox is found again under its message id.
LEMMA SameId ==
  ASSUME NamesUnique, OutboxSound, NEW p \in Sendable, NEW e \in outbox
  PROVE  e.payload.mid = p.mid <=> e.payload = p
  BY DEF NamesUnique, OutboxSound, Queued, Sendable

LEMMA SetStateEffect ==
  ASSUME ClientTypeOK, NamesUnique, OutboxSound, NEW p \in Sendable,
         NEW s \in {"retry", "rejected"}, SetState(p, s)
  PROVE  /\ outbox' \subseteq [payload : Request, state : QueueStates]
         /\ \A e, f \in outbox' : e.payload = f.payload => e = f
         /\ Queued' = Queued
         /\ s = "retry" => Sendable' = Sendable /\ Quarantined' = Quarantined
         /\ s = "rejected" => /\ Sendable' = Sendable \ {p}
                              /\ Quarantined' = Quarantined \cup {p}
<1> DEFINE New(e) == IF e.payload = p THEN [payload |-> p, state |-> s] ELSE e
<1>1. \A e \in outbox : e = [payload |-> e.payload, state |-> e.state]
  BY DEF ClientTypeOK, QueueTypeOK
<1>2. outbox' = {New(e) : e \in outbox}
  <2>1. \A e \in outbox :
          (IF e.payload.mid = p.mid THEN [e EXCEPT !.state = s] ELSE e) = New(e)
    BY <1>1, SameId DEF ClientTypeOK, QueueTypeOK
  <2>2. QED
    BY <2>1 DEF SetState
<1>3. /\ p \in Request
      /\ \A e \in outbox : New(e).payload = e.payload
      /\ \A e \in outbox : New(e).state = IF e.payload = p THEN s ELSE e.state
      /\ \A e \in outbox : New(e) \in [payload : Request, state : QueueStates]
  BY DEF ClientTypeOK, QueueTypeOK, Sendable, QueueStates
<1>4. \A e, f \in outbox : e.payload = f.payload => e = f
  BY DEF OutboxSound
<1>5. PICK e0 \in outbox : e0.payload = p /\ e0.state # "rejected"
  BY DEF Sendable
<1> HIDE DEF New
<1>6. outbox' \subseteq [payload : Request, state : QueueStates]
  BY <1>2, <1>3
<1>7. \A e, f \in outbox' : e.payload = f.payload => e = f
  BY <1>2, <1>3, <1>4
<1>8. Queued' = Queued
  BY <1>2, <1>3 DEF Queued
<1>9. Sendable' = {e.payload : e \in {x \in outbox : New(x).state # "rejected"}}
  BY <1>2, <1>3 DEF Sendable
<1>10. Quarantined' = {e.payload : e \in {x \in outbox : New(x).state = "rejected"}}
  BY <1>2, <1>3 DEF Quarantined
<1>11. ASSUME s = "retry" PROVE Sendable' = Sendable /\ Quarantined' = Quarantined
  BY <1>3, <1>4, <1>5, <1>9, <1>10, <1>11 DEF Sendable, Quarantined
<1>12. ASSUME s = "rejected"
       PROVE  Sendable' = Sendable \ {p} /\ Quarantined' = Quarantined \cup {p}
  <2>1. Sendable' = Sendable \ {p}
    BY <1>3, <1>9, <1>12 DEF Sendable
  <2>2. ASSUME NEW q \in Quarantined' PROVE q \in Quarantined \cup {p}
    BY <1>3, <1>10, <2>2 DEF Quarantined
  <2>3. ASSUME NEW q \in Quarantined PROVE q \in Quarantined'
    <3>1. PICK e \in outbox : e.payload = q /\ e.state = "rejected"
      BY <2>3 DEF Quarantined
    <3>2. New(e).state = "rejected"
      BY <1>3, <1>12, <3>1
    <3>3. QED
      BY <1>10, <3>1, <3>2
  <2>4. p \in Quarantined'
    BY <1>3, <1>5, <1>10, <1>12
  <2>5. QED
    BY <2>1, <2>2, <2>3, <2>4
<1>13. QED
  BY <1>6, <1>7, <1>8, <1>11, <1>12

LEMMA DeleteEffect ==
  ASSUME ClientTypeOK, NamesUnique, OutboxSound, NEW p \in Sendable,
         outbox' = {e \in outbox : e.payload.mid # p.mid}
  PROVE  /\ outbox' \subseteq outbox
         /\ Queued' = Queued \ {p}
         /\ Sendable' = Sendable \ {p}
         /\ Quarantined' = Quarantined
<1>1. outbox' = {e \in outbox : e.payload # p}
  BY SameId
<1>2. p \notin Quarantined
  BY SendableNotQuarantined
<1>3. QED
  BY <1>1, <1>2 DEF Queued, Sendable, Quarantined

LEMMA EnqueueEffect ==
  ASSUME ClientTypeOK, OutboxSound, NEW p \in Request, p \notin made, Enqueue(p)
  PROVE  /\ outbox' \subseteq [payload : Request, state : QueueStates]
         /\ \A e, f \in outbox' : e.payload = f.payload => e = f
         /\ Queued' = Queued \cup {p}
         /\ Sendable' = Sendable \cup {p}
         /\ Quarantined' = Quarantined
<1> DEFINE new == [payload |-> p, state |-> "pending"]
<1>1. outbox' = outbox \cup {new}
  BY DEF Enqueue
<1>2. new.payload = p /\ new.state = "pending"
  OBVIOUS
<1>3. \A e \in outbox : e.payload # p
  BY DEF OutboxSound, Queued
<1>4. new \in [payload : Request, state : QueueStates]
  BY DEF QueueStates
<1> HIDE DEF new
<1>5. QED
  BY <1>1, <1>2, <1>3, <1>4
  DEF ClientTypeOK, QueueTypeOK, OutboxSound, Queued, Sendable, Quarantined

-----------------------------------------------------------------------------
\* Steps of the server, seen from the client.

\* Every step is one of these.
LEMMA StepCases ==
  ASSUME [Next]_vars
  PROVE  \/ StartCycle
         \/ SendOldest
         \/ EndFlush
         \/ SkipReading
         \/ TakeSeq
         \/ EnqueueReading
         \/ SendNew
         \/ TakeAck
         \/ SeeHangUp
         \/ GiveUp
         \/ CannotConnect
         \/ ClientCrash
         \/ \E h \in Handlers : ServerHandler(h)
         \/ ServerCrash
         \/ Operator
         \/ UNCHANGED vars
  BY DEF Next, ClientStep, ClientFault

\* The composed system drives the server as module Ingest allows.
LEMMA ComposedStep ==
  ClientTypeOK /\ InHand /\ [Next]_vars => [IngestNext]_ingestVars
<1> SUFFICES ASSUME ClientTypeOK, InHand, [Next]_vars
             PROVE  [IngestNext]_ingestVars
  OBVIOUS
<1>1. Sendable \subseteq Request
  BY DEF ClientTypeOK, QueueTypeOK, Sendable
<1>2. ASSUME NEW p \in Request, NEW stage, Open(p, stage) PROVE IngestNext
  BY <1>2 DEF Open, IngestNext
<1>3. CASE SendOldest
  BY <1>2, <1>3 DEF SendOldest, ClientTypeOK
<1>4. CASE SendNew
  BY <1>1, <1>2, <1>4 DEF SendNew, InHand
<1>5. CASE TakeAck
  BY <1>5 DEF TakeAck, IngestNext, ClientTypeOK
<1>6. ASSUME NEW h \in Handlers, ServerHandler(h) PROVE IngestNext
  BY <1>6 DEF ServerHandler, IngestNext
<1>7. CASE ServerCrash
  BY <1>7 DEF ServerCrash, IngestNext
<1>8. CASE Operator
  BY <1>8 DEF Operator, IngestNext
<1>9. CASE GiveUp \/ CannotConnect \/ ClientCrash
  BY <1>9 DEF GiveUp, CannotConnect, ClientCrash, IngestNext
<1>10. CASE \/ StartCycle \/ EndFlush \/ SkipReading \/ TakeSeq
            \/ EnqueueReading \/ SeeHangUp \/ UNCHANGED vars
  BY <1>10
  DEF StartCycle, EndFlush, SkipReading, TakeSeq, EnqueueReading, SeeHangUp, vars
<1>11. QED
  BY StepCases, <1>3, <1>4, <1>5, <1>6, <1>7, <1>8, <1>9, <1>10

-----------------------------------------------------------------------------
\* The inductive invariant.

\* DInv together with the server's own invariant.
Inv == IInv /\ DInv

LEMMA InvInit == Init => Inv
<1> SUFFICES ASSUME Init PROVE Inv
  OBVIOUS
<1>1. IInv
  BY IInvInit DEF Init
<1>2. ClientTypeOK
  <2>1. MaxSeq \in Nat /\ MaxMishaps \in Nat
    BY IngestAssumption, DeliveryAssumption
  <2>2. seq \in 0..MaxSeq /\ mishaps \in 0..MaxMishaps
    BY <2>1 DEF Init, QueueInit
  <2>3. revised \in BOOLEAN
    BY Zenon DEF Init
  <2>4. QED
    BY <2>2, <2>3 DEF Init, QueueInit, ClientTypeOK, QueueTypeOK, ClientStages
<1>3. NamesUnique /\ ServerKnowsMade /\ NothingLost
  BY DEF Init, IngestInit, NamesUnique, ServerKnowsMade, NothingLost
<1>4. OutboxSound /\ InHand /\ Connected
  BY DEF Init, QueueInit, OutboxSound, Queued, InHand, Waiting, Connected
<1>5. QED
  BY <1>1, <1>2, <1>3, <1>4 DEF Inv, DInv

\* A step of the loop that touches neither the queue nor a connection.
LEMMA LoopStep ==
  ASSUME DInv, UNCHANGED <<ingestVars, queueVars, current, conn, made>>,
         ClientTypeOK', conn = NoHandler, at' \notin {"send"} \cup Waiting,
         at' # "enqueue", batch' \subseteq Sendable
  PROVE  DInv'
<1> USE DEF DInv, queueVars, ingestVars
<1>1. Queued' = Queued /\ Sendable' = Sendable
  BY DEF Queued, Sendable
<1>2. NamesUnique' /\ ServerKnowsMade'
  BY DEF NamesUnique, ServerKnowsMade
<1>3. OutboxSound' /\ InHand' /\ Connected' /\ NothingLost'
  BY <1>1 DEF OutboxSound, InHand, Connected, NothingLost
<1>4. QED
  BY <1>2, <1>3

\* The client opens a connection for a payload it holds.
LEMMA OpenStep ==
  ASSUME DInv, IInv, NEW p \in Sendable, NEW stage \in Waiting, Open(p, stage),
         UNCHANGED batch
  PROVE  DInv'
<1> USE DEF DInv
<1>1. PICK h \in Handlers : Receive(h, p) /\ conn' = h
  BY DEF Open
<1>2. /\ UNCHANGED <<outbox, seq, readings, ingest, made, revised, mishaps>>
      /\ current' = p /\ at' = stage
      /\ req' = [req EXCEPT ![h] = p]
      /\ \A g \in Handlers \ {h} : pc'[g] = pc[g]
  BY <1>1
  DEF Open, Receive, Conclude, Goto, dbVars, queueVars, IInv, TypeInv, IngestTypeOK
<1>3. Queued' = Queued /\ Sendable' = Sendable /\ p \in Queued /\ p \in made
  BY <1>2 DEF Queued, Sendable, OutboxSound
<1>4. ClientTypeOK'
  <2>1. p \in Request
    BY DEF ClientTypeOK, QueueTypeOK, Sendable
  <2>2. stage \in ClientStages
    BY DEF Waiting, ClientStages
  <2>3. UNCHANGED <<outbox, seq, batch, made, revised, mishaps>>
    BY <1>2
  <2>4. current' \in Request \cup {NoRequest} /\ conn' \in Handlers \cup {NoHandler}
    BY <1>1, <1>2, <2>1
  <2>5. QED
    BY <1>2, <2>2, <2>3, <2>4 DEF ClientTypeOK, QueueTypeOK
<1>5. NamesUnique'
  BY <1>2 DEF NamesUnique, Waiting
<1>6. ServerKnowsMade'
  BY <1>2, <1>3 DEF ServerKnowsMade, IInv, TypeInv, IngestTypeOK
<1>7. OutboxSound' /\ InHand' /\ NothingLost'
  BY <1>2, <1>3 DEF OutboxSound, InHand, NothingLost
<1>8. Connected'
  BY <1>1, <1>2 DEF Connected, IInv, TypeInv, IngestTypeOK
<1>9. QED
  BY <1>4, <1>5, <1>6, <1>7, <1>8

\* The outcome of an attempt is written to the queue, and the loop goes on.
LEMMA ProceedStep ==
  ASSUME DInv, NEW p \in Sendable, at \in {"flush", "send"} \cup Waiting,
         at \in {"send"} \cup Waiting => p = current,
         NEW failed \in BOOLEAN, Proceed(failed), at = "flush" => failed,
         UNCHANGED <<seq, made, revised, ingest, readings>>,
         mishaps' \in 0..MaxMishaps,
         \A h \in Handlers : pc'[h] # "idle" => pc[h] # "idle" /\ req'[h] = req[h],
         \/ SetState(p, "retry")
         \/ SetState(p, "rejected")
         \/ /\ outbox' = {e \in outbox : e.payload.mid # p.mid}
            /\ p \in readings
  PROVE  DInv'
<1> USE DEF DInv
<1>1. /\ outbox' \subseteq [payload : Request, state : QueueStates]
      /\ \A e, f \in outbox' : e.payload = f.payload => e = f
      /\ Queued' \subseteq Queued
      /\ Queued \subseteq Queued' \cup readings
      /\ Sendable \ {p} \subseteq Sendable'
  <2>1. CASE SetState(p, "retry")
    BY <2>1, SetStateEffect
  <2>2. CASE SetState(p, "rejected")
    BY <2>2, SetStateEffect
  <2>3. CASE /\ outbox' = {e \in outbox : e.payload.mid # p.mid}
             /\ p \in readings
    <3>1. /\ outbox' \subseteq outbox
          /\ Queued' = Queued \ {p}
          /\ Sendable' = Sendable \ {p}
      BY <2>3, DeleteEffect
    <3>2. QED
      BY <2>3, <3>1 DEF OutboxSound, ClientTypeOK, QueueTypeOK
  <2>4. QED
    BY <2>1, <2>2, <2>3
<1>2. /\ at' \in {"idle", "read", "flush"}
      /\ conn' = NoHandler
      /\ current' = NoRequest
      /\ batch' = {} \/ batch' = batch \ {current}
      /\ batch' # {} => p = current
  BY DEF Proceed, Waiting
<1>3. ClientTypeOK'
  BY <1>1, <1>2 DEF ClientTypeOK, QueueTypeOK, ClientStages
<1>4. NamesUnique' /\ ServerKnowsMade'
  BY <1>2 DEF NamesUnique, ServerKnowsMade
<1>5. OutboxSound' /\ NothingLost'
  BY <1>1 DEF OutboxSound, NothingLost
<1>6. InHand' /\ Connected'
  BY <1>1, <1>2 DEF InHand, Connected, Waiting
<1>7. QED
  BY <1>3, <1>4, <1>5, <1>6

\* What a step of a handler can do to the tables and to the connections.
LEMMA HandlerEffect ==
  ASSUME IInv, NEW h \in Handlers, HandlerStep(h) \/ HandlerFault(h) \/ Close(h)
  PROVE  /\ pc[h] # "idle"
         /\ \A g \in Handlers : pc'[g] # "idle" => pc[g] # "idle" /\ req'[g] = req[g]
         /\ readings \subseteq readings'
         /\ readings' \subseteq readings \cup {req[h]}
         /\ \A row \in ingest' : row \in ingest \/ row.payload = req[h]
<1>1. pc \in [Handlers -> Stages] /\ DOMAIN req = Handlers
  BY DEF IInv, TypeInv, IngestTypeOK
<1> USE <1>1 DEF Goto, Conclude, dbVars
<1>2. CASE Close(h)
  BY <1>2 DEF Close
<1>3. CASE HandlerStep(h)
  <2>1. CASE Acquire(h)           BY <2>1 DEF Acquire
  <2>2. CASE Authenticate(h)      BY <2>2 DEF Authenticate
  <2>3. CASE CheckCapabilities(h) BY <2>3 DEF CheckCapabilities
  <2>4. CASE Claim(h)             BY <2>4 DEF Claim
  <2>5. CASE ReadExisting(h)      BY <2>5 DEF ReadExisting
  <2>6. CASE StoreReading(h)      BY <2>6 DEF StoreReading
  <2>7. CASE Commit(h)            BY <2>7 DEF Commit, CommitEffect, Ending
  <2>8. CASE WriteAck(h)          BY <2>8 DEF WriteAck
  <2>9. QED
    BY <1>3, <2>1, <2>2, <2>3, <2>4, <2>5, <2>6, <2>7, <2>8 DEF HandlerStep
<1>4. CASE HandlerFault(h)
  <2>1. CASE FailTransaction(h)
    BY <2>1 DEF FailTransaction, InTransaction, ReadingOnly, Claiming
  <2>2. CASE CommitUnreported(h)
    BY <2>2 DEF CommitUnreported, CommitEffect, Ending
  <2>3. QED
    BY <1>4, <2>1, <2>2 DEF HandlerFault
<1>5. QED
  BY <1>2, <1>3, <1>4

\* A step of the server that the client does not see.
LEMMA ServerStep ==
  ASSUME DInv, UNCHANGED <<queueVars, clientVars, made>>, revised' \in BOOLEAN,
         \A g \in Handlers : pc'[g] # "idle" => pc[g] # "idle" /\ req'[g] = req[g],
         readings \subseteq readings',
         readings' \subseteq made,
         \A row \in ingest' : row.payload \in made
  PROVE  DInv'
<1> USE DEF DInv, queueVars, clientVars
<1>1. Queued' = Queued /\ Sendable' = Sendable
  BY DEF Queued, Sendable
<1>2. ClientTypeOK'
  BY DEF ClientTypeOK, QueueTypeOK
<1>3. NamesUnique' /\ ServerKnowsMade'
  BY DEF NamesUnique, ServerKnowsMade
<1>4. OutboxSound' /\ InHand' /\ Connected' /\ NothingLost'
  BY <1>1 DEF ClientTypeOK, OutboxSound, InHand, Connected, NothingLost
<1>5. QED
  BY <1>2, <1>3, <1>4

\* A fresh message enters the queue.
LEMMA EnqueueStep ==
  ASSUME DInv, EnqueueReading PROVE DInv'
<1> USE DEF DInv
<1>1. PICK m \in MessageIds, b \in Bodies :
        LET p == [mid |-> m, dev |-> Pi, seq |-> seq, body |-> b] IN
        /\ \A q \in made : q.mid # m
        /\ Enqueue(p)
        /\ current' = p
        /\ made' = made \cup {p}
  BY DEF EnqueueReading
<1> DEFINE p == [mid |-> m, dev |-> Pi, seq |-> seq, body |-> b]
<1>2. /\ at = "enqueue" /\ at' = "send"
      /\ UNCHANGED <<ingest, readings, pc, req, batch, conn, mishaps, revised, seq>>
      /\ conn = NoHandler
  BY <1>1 DEF EnqueueReading, Enqueue, ingestVars, Connected, Waiting
<1>3. /\ p \in Request
      /\ p \notin made
      /\ \A q \in made : q.mid # p.mid /\ q.seq # p.seq
      /\ p.dev = Pi /\ p.seq = seq /\ seq \in Nat
  BY <1>1, <1>2, IngestAssumption, DeliveryAssumption DEF NamesUnique, Request
<1>4. Enqueue(p) /\ current' = p /\ made' = made \cup {p}
  BY <1>1
<1> HIDE DEF p
<1>5. /\ outbox' \subseteq [payload : Request, state : QueueStates]
      /\ \A e, f \in outbox' : e.payload = f.payload => e = f
      /\ Queued' = Queued \cup {p}
      /\ Sendable' = Sendable \cup {p}
  BY <1>3, <1>4, EnqueueEffect
<1>6. ClientTypeOK'
  <2>1. UNCHANGED <<seq, batch, conn, mishaps, revised>>
    BY <1>2
  <2>2. QED
    BY <1>2, <1>3, <1>4, <1>5, <2>1 DEF ClientTypeOK, QueueTypeOK, ClientStages
<1>7. NamesUnique'
  <2>1. \A q \in made' : q.dev = Pi /\ q.seq <= seq'
    BY <1>2, <1>3, <1>4 DEF NamesUnique
  <2>2. \A q, r \in made' : q.mid = r.mid \/ q.seq = r.seq => q = r
    BY <1>3, <1>4 DEF NamesUnique
  <2>3. QED
    BY <1>2, <2>1, <2>2 DEF NamesUnique
<1>8. ServerKnowsMade' /\ Connected'
  BY <1>2, <1>4 DEF ServerKnowsMade, Connected
<1>9. OutboxSound' /\ InHand' /\ NothingLost'
  BY <1>2, <1>4, <1>5 DEF OutboxSound, InHand, NothingLost, Waiting
<1>10. QED
  BY <1>6, <1>7, <1>8, <1>9

\* The answer on the connection is the answer to the payload in hand.
LEMMA TakeAckStep ==
  ASSUME IInv, DInv, TakeAck PROVE DInv'
<1> DEFINE status == ack[conn].status
<1>0. PICK breaks \in BreakOnReject :
        Proceed(status = "retry" \/ (breaks /\ status = "rejected"))
  BY Zenon DEF TakeAck
<1> DEFINE failed == status = "retry" \/ (breaks /\ status = "rejected")
<1>1. /\ at \in Waiting /\ conn \in Handlers /\ pc[conn] = "sent"
      /\ Acknowledge(current, status) /\ Proceed(failed) /\ Close(conn)
      /\ UNCHANGED <<mishaps, made, revised>>
  <2>1. conn # NoHandler => conn \in Handlers
    BY DEF DInv, ClientTypeOK
  <2>2. Acknowledge(current, status) /\ Proceed(failed)
    BY <1>0, Zenon DEF TakeAck
  <2>3. QED
    BY <2>1, <2>2 DEF TakeAck
<1>7. failed \in BOOLEAN
  OBVIOUS
<1> HIDE DEF failed
<1>2. req[conn] = current /\ current \in Sendable
  BY <1>1, DeliveryAssumption DEF DInv, Connected, InHand
<1>3. /\ UNCHANGED <<seq, ingest, readings>>
      /\ \A h \in Handlers : pc'[h] # "idle" => pc[h] # "idle" /\ req'[h] = req[h]
  BY <1>1, HandlerEffect DEF Close, Acknowledge, dbVars
<1>4. status \in Success => current \in readings
  BY <1>1, <1>2 DEF IInv, AnswersTrue, Answered
<1>5. \/ SetState(current, "retry")
      \/ SetState(current, "rejected")
      \/ /\ outbox' = {e \in outbox : e.payload.mid # current.mid}
         /\ current \in readings
  BY <1>1, <1>4 DEF Acknowledge, Success
<1>6. mishaps' \in 0..MaxMishaps
  BY <1>1 DEF DInv, ClientTypeOK
<1>8. at \notin {"flush", "send"}
  BY <1>1 DEF Waiting
<1> HIDE DEF status
<1>9. QED
  BY <1>1, <1>2, <1>3, <1>5, <1>6, <1>7, <1>8, ProceedStep

\* Without an answer the payload stays, to be tried again.
LEMMA NoAnswerStep ==
  ASSUME DInv, NEW p \in Sendable, at \in {"flush", "send"} \cup Waiting,
         at \in {"send"} \cup Waiting => p = current,
         MarkAttempt(p), Proceed(TRUE), mishaps' \in 0..MaxMishaps,
         UNCHANGED <<ingestVars, made, revised>>
  PROVE  DInv'
<1>1. UNCHANGED <<seq, made, revised, ingest, readings, pc, req>>
  BY DEF MarkAttempt, ingestVars
<1>2. SetState(p, "retry")
  BY DEF MarkAttempt
<1>3. QED
  BY <1>1, <1>2, ProceedStep

LEMMA DInvStep ==
  ASSUME IInv, DInv, [Next]_vars PROVE DInv'
<1>1. /\ Sendable \subseteq Request
      /\ at \notin Waiting => conn = NoHandler
      /\ batch \subseteq Sendable
      /\ at \in {"send"} \cup Waiting => current \in Sendable
  BY DEF DInv, ClientTypeOK, QueueTypeOK, Sendable, Connected, InHand
<1>2. CASE StartCycle
  <2>1. /\ at = "idle" /\ at' = "flush" /\ batch' = Pending
        /\ UNCHANGED <<ingestVars, queueVars, current, conn, mishaps, made, revised>>
    BY <1>2 DEF StartCycle
  <2>2. batch' \subseteq Sendable
    BY <2>1 DEF Pending
  <2>3. ClientTypeOK'
    BY <1>1, <2>1, <2>2 DEF DInv, ClientTypeOK, QueueTypeOK, ClientStages, queueVars
  <2>4. QED
    BY <1>1, <2>1, <2>2, <2>3, LoopStep DEF Waiting
<1>3. CASE SendOldest
  <2>1. PICK p \in batch : Open(p, "flushWait")
    BY <1>3 DEF SendOldest
  <2>2. QED
    BY <1>1, <1>3, <2>1, OpenStep DEF SendOldest, Waiting
<1>4. CASE EndFlush
  <2>1. /\ at = "flush" /\ at' = "read"
        /\ UNCHANGED <<ingestVars, queueVars, batch, current, conn, mishaps, made, revised>>
    BY <1>4 DEF EndFlush
  <2>2. ClientTypeOK'
    BY <2>1 DEF DInv, ClientTypeOK, QueueTypeOK, ClientStages, queueVars
  <2>3. QED
    BY <1>1, <2>1, <2>2, LoopStep DEF Waiting
<1>5. CASE SkipReading
  <2>1. /\ at = "read" /\ at' = "idle"
        /\ UNCHANGED <<ingestVars, queueVars, batch, current, conn, mishaps, made, revised>>
    BY <1>5 DEF SkipReading
  <2>2. ClientTypeOK'
    BY <2>1 DEF DInv, ClientTypeOK, QueueTypeOK, ClientStages, queueVars
  <2>3. QED
    BY <1>1, <2>1, <2>2, LoopStep DEF Waiting
<1>6. CASE TakeSeq
  <2>1. /\ at = "read" /\ at' = "enqueue" /\ seq < MaxSeq
        /\ seq' = seq + 1 /\ UNCHANGED outbox
        /\ UNCHANGED <<ingestVars, batch, current, conn, mishaps, made, revised>>
    BY <1>6 DEF TakeSeq, NextDeviceSeq
  <2>2. seq' \in 1..MaxSeq /\ seq \in Nat
    BY <2>1, IngestAssumption DEF DInv, ClientTypeOK, QueueTypeOK
  <2>3. Queued' = Queued /\ Sendable' = Sendable
    BY <2>1 DEF Queued, Sendable
  <2>4. ClientTypeOK'
    BY <2>1, <2>2 DEF DInv, ClientTypeOK, QueueTypeOK, ClientStages
  <2>5. NamesUnique'
    <3>1. \A p \in made : p.seq \in Nat /\ p.seq < seq'
      BY <2>1, <2>2 DEF DInv, NamesUnique, ClientTypeOK, Request
    <3>2. QED
      BY <2>1, <2>2, <3>1 DEF DInv, NamesUnique
  <2>6. ServerKnowsMade' /\ OutboxSound' /\ NothingLost'
    BY <2>1, <2>3
    DEF DInv, ServerKnowsMade, OutboxSound, NothingLost, ingestVars
  <2>7. InHand' /\ Connected'
    BY <1>1, <2>1, <2>3 DEF InHand, Connected, Waiting
  <2>8. QED
    BY <2>4, <2>5, <2>6, <2>7 DEF DInv
<1>7. CASE EnqueueReading
  BY <1>7, EnqueueStep
<1>8. CASE SendNew
  BY <1>1, <1>8, OpenStep DEF SendNew, Waiting
<1>9. CASE TakeAck
  BY <1>9, TakeAckStep
<1>10. CASE SeeHangUp
  <2>1. mishaps' \in 0..MaxMishaps
    BY <1>10 DEF SeeHangUp, DInv, ClientTypeOK
  <2>2. QED
    BY <1>1, <1>10, <2>1, NoAnswerStep DEF SeeHangUp
<1>11. ASSUME Mishap PROVE mishaps' \in 0..MaxMishaps
  BY <1>11, DeliveryAssumption DEF Mishap, DInv, ClientTypeOK
<1>12. CASE GiveUp
  BY <1>1, <1>11, <1>12, NoAnswerStep DEF GiveUp
<1>13. CASE CannotConnect
  <2>1. PICK p \in Sendable : /\ at = "flush" \/ (at = "send" /\ p = current)
                              /\ MarkAttempt(p)
    BY <1>1, <1>13 DEF CannotConnect
  <2>2. Mishap /\ Proceed(TRUE) /\ UNCHANGED <<ingestVars, made, revised>>
    BY <1>13 DEF CannotConnect
  <2>3. QED
    BY <1>11, <2>1, <2>2, NoAnswerStep DEF Waiting
<1>14. CASE ClientCrash
  <2>1. /\ at' = "idle" /\ batch' = {} /\ current' = NoRequest /\ conn' = NoHandler
        /\ UNCHANGED <<ingestVars, queueVars, made, revised>>
        /\ mishaps' \in 0..MaxMishaps
    BY <1>11, <1>14 DEF ClientCrash
  <2>2. Queued' = Queued
    BY <2>1 DEF Queued, queueVars
  <2>3. ClientTypeOK'
    BY <2>1 DEF DInv, ClientTypeOK, QueueTypeOK, ClientStages, queueVars
  <2>4. NamesUnique' /\ ServerKnowsMade' /\ OutboxSound' /\ NothingLost'
    BY <2>1, <2>2
    DEF DInv, NamesUnique, ServerKnowsMade, OutboxSound, NothingLost, ingestVars, queueVars
  <2>5. InHand' /\ Connected'
    BY <2>1 DEF InHand, Connected, Waiting
  <2>6. QED
    BY <2>3, <2>4, <2>5 DEF DInv
<1>15. ASSUME NEW h \in Handlers, ServerHandler(h) PROVE DInv'
  <2>1. /\ HandlerStep(h) \/ HandlerFault(h) \/ Close(h)
        /\ UNCHANGED <<queueVars, clientVars, made, revised>>
    BY <1>15 DEF ServerHandler
  <2>2. req[h] \in made
    BY <2>1, HandlerEffect DEF DInv, ServerKnowsMade
  <2>3. readings' \subseteq made /\ \A row \in ingest' : row.payload \in made
    BY <2>1, <2>2, HandlerEffect DEF DInv, ServerKnowsMade
  <2>4. revised' \in BOOLEAN
    BY <2>1 DEF DInv, ClientTypeOK
  <2>5. QED
    BY <2>1, <2>3, <2>4, HandlerEffect, ServerStep
<1>16. CASE ServerCrash
  <2>1. /\ UNCHANGED <<queueVars, clientVars, made, revised>>
        /\ UNCHANGED <<ingest, readings>>
        /\ \A h \in Handlers : pc'[h] = "idle"
    BY <1>16 DEF ServerCrash, ServerRestart, dbVars
  <2>2. revised' \in BOOLEAN
    BY <2>1 DEF DInv, ClientTypeOK
  <2>3. QED
    BY <2>1, <2>2, ServerStep DEF DInv, ServerKnowsMade
<1>17. CASE Operator
  <2>1. /\ UNCHANGED <<queueVars, clientVars, made>>
        /\ revised' = TRUE
        /\ UNCHANGED <<ingest, readings, pc, req>>
    BY <1>17 DEF Operator, PolicyStep, ChangeAccess, ChangeCapabilities, dbVars
  <2>2. revised' \in BOOLEAN
    BY <2>1, Zenon
  <2>3. QED
    BY <2>1, <2>2, ServerStep DEF DInv, ServerKnowsMade
<1>18. CASE UNCHANGED vars
  <2>1. /\ UNCHANGED <<queueVars, clientVars, made, revised>>
        /\ UNCHANGED <<ingest, readings, pc, req>>
    BY <1>18 DEF vars, ingestVars
  <2>2. revised' \in BOOLEAN
    BY <2>1 DEF DInv, ClientTypeOK
  <2>3. QED
    BY <2>1, <2>2, ServerStep DEF DInv, ServerKnowsMade
<1>19. QED
  BY StepCases, <1>2, <1>3, <1>4, <1>5, <1>6, <1>7, <1>8, <1>9, <1>10,
     <1>12, <1>13, <1>14, <1>15, <1>16, <1>17, <1>18

LEMMA InvStep == Inv /\ [Next]_vars => Inv'
<1> SUFFICES ASSUME IInv, DInv, [Next]_vars PROVE IInv' /\ DInv'
  BY DEF Inv
<1>1. IInv'
  BY ComposedStep, IInvStep DEF DInv
<1>2. QED
  BY <1>1, DInvStep

LEMMA InvCorrect == Spec => []Inv
  BY InvInit, InvStep, PTL DEF Spec

(* The composed system drives the server only as IngestSpec allows: what   *)
(* IngestProofs shows of the server holds here too.                        *)
THEOREM DeliveryServerIsIngest == Spec => IngestSpec
<1>1. Init => IngestInit
  BY DEF Init
<1>2. Inv /\ [Next]_vars => [IngestNext]_ingestVars
  BY ComposedStep DEF Inv, DInv
<1>3. QED
  BY <1>1, <1>2, InvCorrect, PTL DEF Spec, IngestSpec

(* What the server promises any client it keeps in the composed system: it *)
(* is the atomic store, and no handler of an attempt or of its retry waits *)
(* for ever.                                                               *)
THEOREM DeliveryServerKeepsPromises == Spec => ImplementsStore /\ []WaitsEnd
BY DeliveryServerIsIngest, IngestImplementsStore, IngestWaitsEnd, PTL

(* The variables of the composed system keep their types.                  *)
THEOREM DeliveryTypeCorrect == Spec => []TypeOK
<1>1. Inv => TypeOK
  BY DEF Inv, IInv, TypeInv, DInv, ClientTypeOK, TypeOK
<1>2. QED
  BY <1>1, InvCorrect, PTL

(* A queued reading is in the outbox until it is committed.                *)
THEOREM DeliveryNothingLost == Spec => []NothingLost
<1>1. Inv => NothingLost
  BY DEF Inv, DInv
<1>2. QED
  BY <1>1, InvCorrect, PTL

(* One number, one reading, on both sides.                                 *)
THEOREM DeliverySeqNamesOneReading == Spec => []SeqNamesOneReading
<1>1. Inv => SeqNamesOneReading
  BY DEF Inv, DInv, NamesUnique, ServerKnowsMade, OutboxSound, SeqNamesOneReading
<1>2. QED
  BY <1>1, InvCorrect, PTL

-----------------------------------------------------------------------------
\* Why the client never meets a conflict of its own making.

\* Two requests of the client that share an id or a slot are the same one, and
\* the reason of every stored refusal is an imported row.
OnlyImportsRefuse ==
  /\ \A row \in ingest : row.status = "rejected" => Slot(row.payload) \in Prior
  /\ \A h \in Handlers : pc[h] = "idle" => ack[h] = NoAck

CInv == OnlyImportsRefuse /\ OnlyImportsConflict

LEMMA CInvInit == Init => CInv
  BY DEF Init, IngestInit, CInv, OnlyImportsRefuse, OnlyImportsConflict, NoAck, Ack

\* The slot of a reading that is being stored can only be taken by an import.
LEMMA SlotTakenByImport ==
  ASSUME IInv, NamesUnique, ServerKnowsMade, NEW h \in Handlers,
         pc[h] = "store", SlotTaken(Slot(req[h]))
  PROVE  Slot(req[h]) \in Prior
<1> SUFFICES ASSUME NEW r \in readings, Slot(r) = Slot(req[h]) PROVE FALSE
  BY DEF SlotTaken
<1>1. r \in made /\ req[h] \in made /\ r.seq = req[h].seq
  BY DEF ServerKnowsMade, Slot
<1>2. r = req[h]
  BY <1>1 DEF NamesUnique
<1>3. PICK row \in ingest : row.payload = r
  BY DEF IInv, TablesAgree
<1>4. QED
  BY <1>2, <1>3 DEF IInv, ClaimsFresh, Claiming

LEMMA AnswerToRetry ==
  ASSUME IInv, NamesUnique, ServerKnowsMade, OnlyImportsRefuse, NEW h \in Handlers,
         pc[h] # "idle", NEW row \in ingest, row.payload.mid = req[h].mid
  PROVE  /\ AnswerFor(row, req[h]).code # "MSG-E002"
         /\ AnswerFor(row, req[h]).code = "MSG-E013" => Slot(req[h]) \in Prior
<1>1. row.payload = req[h]
  BY DEF NamesUnique, ServerKnowsMade
<1>2. row.status \in {"inserted", "rejected"}
  BY DEF IInv, TablesAgree
<1>3. QED
  BY <1>1, <1>2 DEF AnswerFor, Ack, OnlyImportsRefuse

\* A handler decides on nothing, or on an answer of this kind.
Harmless(h) ==
  /\ ack[h].code # "MSG-E002"
  /\ ack[h].code = "MSG-E013" => Slot(req[h]) \in Prior
  /\ pc[h] = "idle" => ack[h] = NoAck

LEMMA CInvQuiet ==
  ASSUME CInv, NEW h \in Handlers, UNCHANGED ingest, Harmless(h)',
         \A g \in Handlers \ {h} :
           pc'[g] = pc[g] /\ req'[g] = req[g] /\ ack'[g] = ack[g]
  PROVE  CInv'
  BY DEF CInv, OnlyImportsRefuse, OnlyImportsConflict, Harmless

LEMMA CInvCommit ==
  ASSUME IInv, CInv, NEW h \in Handlers, pc[h] \in Ending, CommitEffect(h),
         pc' = [pc EXCEPT ![h] = "acking"],
         ack' = ack \/ ack' = [ack EXCEPT ![h] = RetryAck],
         UNCHANGED req
  PROVE  CInv'
<1>1. pc \in [Handlers -> Stages] /\ DOMAIN ack = Handlers
  BY DEF IInv, TypeInv, IngestTypeOK
<1>2. OnlyImportsConflict'
  BY <1>1 DEF CInv, OnlyImportsConflict, RetryAck, Ack
<1>3. \A g \in Handlers : pc'[g] = "idle" => ack'[g] = NoAck
  BY <1>1 DEF CInv, OnlyImportsRefuse
<1>4. pc[h] = "commitRejected" => Slot(req[h]) \in Prior
  BY DEF IInv, AnswersTrue, CInv, OnlyImportsConflict
<1>5. ASSUME NEW row \in ingest', row.status = "rejected"
      PROVE  Slot(row.payload) \in Prior
  <2>1. row \in ingest \/ (pc[h] = "commitRejected" /\ row.payload = req[h])
    BY <1>5 DEF CommitEffect, dbVars, Ending
  <2>2. QED
    BY <1>4, <1>5, <2>1 DEF CInv, OnlyImportsRefuse
<1>6. QED
  BY <1>2, <1>3, <1>5 DEF CInv, OnlyImportsRefuse

LEMMA CInvStep ==
  ASSUME IInv, NamesUnique, ServerKnowsMade, CInv, [IngestNext]_ingestVars
  PROVE  CInv'
<1>0. \/ \E h \in Handlers, r \in Request : Receive(h, r)
      \/ \E h \in Handlers : HandlerStep(h)
      \/ \E h \in Handlers : Close(h)
      \/ \E h \in Handlers : HandlerFault(h)
      \/ ServerRestart
      \/ UNCHANGED <<ingest, pc, req, ack>>
  BY DEF IngestNext, PolicyStep, ChangeAccess, ChangeCapabilities, ingestVars, dbVars
<1>t. /\ pc \in [Handlers -> Stages] /\ DOMAIN ack = Handlers /\ DOMAIN req = Handlers
      /\ \A h \in Handlers : Harmless(h)
  BY DEF IInv, TypeInv, IngestTypeOK, CInv, OnlyImportsRefuse, OnlyImportsConflict,
         Harmless
<1> USE <1>t DEF dbVars, Goto, Conclude, Ack
<1>1. ASSUME NEW h \in Handlers, NEW r \in Request, Receive(h, r) PROVE CInv'
  <2>1. ack[h].code = "none"
    BY <1>1 DEF Receive, Harmless, NoAck
  <2>2. Harmless(h)'
    BY <1>1, <2>1 DEF Receive, Harmless
  <2>3. QED
    BY <1>1, <2>2, CInvQuiet DEF Receive
<1>2. ASSUME NEW h \in Handlers, HandlerStep(h) PROVE CInv'
  <2>1. CASE Acquire(h)
    <3>1. Harmless(h)'  BY <2>1 DEF Acquire, Harmless
    <3>2. QED           BY <2>1, <3>1, CInvQuiet DEF Acquire
  <2>2. CASE Authenticate(h)
    <3>1. Harmless(h)'  BY <2>2 DEF Authenticate, Harmless
    <3>2. QED           BY <2>2, <3>1, CInvQuiet DEF Authenticate
  <2>3. CASE CheckCapabilities(h)
    <3>1. Harmless(h)'  BY <2>3 DEF CheckCapabilities, Harmless
    <3>2. QED           BY <2>3, <3>1, CInvQuiet DEF CheckCapabilities
  <2>4. CASE Claim(h)
    <3>1. Harmless(h)'  BY <2>4 DEF Claim, Harmless
    <3>2. QED           BY <2>4, <3>1, CInvQuiet DEF Claim
  <2>5. CASE ReadExisting(h)
    <3>1. PICK row \in ingest : row.payload.mid = req[h].mid
                              /\ ack' = [ack EXCEPT ![h] = AnswerFor(row, req[h])]
                              /\ pc' = [pc EXCEPT ![h] = "end"]
      BY <2>5 DEF ReadExisting
    <3>2. Harmless(h)'
      BY <2>5, <3>1, AnswerToRetry DEF ReadExisting, Harmless, CInv
    <3>3. QED
      BY <2>5, <3>1, <3>2, CInvQuiet DEF ReadExisting
  <2>6. CASE StoreReading(h)
    <3>1. Harmless(h)'
      BY <2>6, SlotTakenByImport DEF StoreReading, Harmless
    <3>2. QED
      BY <2>6, <3>1, CInvQuiet DEF StoreReading
  <2>7. CASE Commit(h)  BY <2>7, CInvCommit DEF Commit
  <2>8. CASE WriteAck(h)
    <3>1. Harmless(h)'  BY <2>8 DEF WriteAck, Harmless
    <3>2. QED           BY <2>8, <3>1, CInvQuiet DEF WriteAck
  <2>9. QED
    BY <1>2, <2>1, <2>2, <2>3, <2>4, <2>5, <2>6, <2>7, <2>8 DEF HandlerStep
<1>3. ASSUME NEW h \in Handlers, Close(h) PROVE CInv'
  <2>1. Harmless(h)'  BY <1>3 DEF Close, Harmless, NoAck
  <2>2. QED           BY <1>3, <2>1, CInvQuiet DEF Close
<1>4. ASSUME NEW h \in Handlers, HandlerFault(h) PROVE CInv'
  <2>1. CASE FailTransaction(h)
    <3>1. Harmless(h)'  BY <2>1 DEF FailTransaction, Harmless, RetryAck
    <3>2. QED           BY <2>1, <3>1, CInvQuiet DEF FailTransaction
  <2>2. CASE CommitUnreported(h)
    BY <2>2, CInvCommit DEF CommitUnreported
  <2>3. QED
    BY <1>4, <2>1, <2>2 DEF HandlerFault
<1>5. CASE ServerRestart
  BY <1>5
  DEF ServerRestart, CInv, OnlyImportsRefuse, OnlyImportsConflict, NoAck
<1>6. CASE UNCHANGED <<ingest, pc, req, ack>>
  BY <1>6 DEF CInv, OnlyImportsRefuse, OnlyImportsConflict
<1>7. QED
  BY <1>0, <1>1, <1>2, <1>3, <1>4, <1>5, <1>6

(* The client never collides with itself, whatever its retries overlap.    *)
THEOREM DeliveryOnlyImportsConflict == Spec => []OnlyImportsConflict
<1>1. Inv /\ CInv /\ [Next]_vars => CInv'
  BY ComposedStep, CInvStep DEF Inv, DInv
<1>2. CInv => OnlyImportsConflict
  BY DEF CInv
<1>3. QED
  BY <1>1, <1>2, CInvInit, InvCorrect, PTL DEF Spec

-----------------------------------------------------------------------------
\* The refinement of DeliveryContract.

LEMMA ContractInit == Init => Contract!Init
  BY DEF Init, IngestInit, QueueInit, Contract!Init, Forgotten, Quarantined

\* A step that keeps the outbox, the history and the table shows nothing.
LEMMA HiddenStep ==
  ASSUME UNCHANGED <<outbox, made, readings>>
  PROVE  UNCHANGED Contract!contractVars
  BY DEF Contract!contractVars, Forgotten, Queued, Quarantined

\* A payload that is only marked for another attempt stays where it is.
LEMMA MarkHidden ==
  ASSUME DInv, NEW p \in Sendable, SetState(p, "retry"), UNCHANGED <<made, readings>>
  PROVE  UNCHANGED Contract!contractVars
<1>1. Queued' = Queued /\ Quarantined' = Quarantined
  BY SetStateEffect DEF DInv
<1>2. QED
  BY <1>1 DEF Contract!contractVars, Forgotten

LEMMA EnqueueProduces ==
  ASSUME DInv, EnqueueReading PROVE Contract!Next
<1> USE DEF DInv
<1>1. PICK m \in MessageIds, b \in Bodies :
        LET p == [mid |-> m, dev |-> Pi, seq |-> seq, body |-> b] IN
        /\ \A q \in made : q.mid # m
        /\ Enqueue(p)
        /\ current' = p
        /\ made' = made \cup {p}
  BY DEF EnqueueReading
<1> DEFINE p == [mid |-> m, dev |-> Pi, seq |-> seq, body |-> b]
<1>2. at = "enqueue" /\ readings' = readings
  BY DEF EnqueueReading, ingestVars
<1>3. /\ p \in Request
      /\ p \notin made
      /\ \A q \in made : q.mid # p.mid /\ q.seq # p.seq
  BY <1>1, <1>2, IngestAssumption, DeliveryAssumption DEF NamesUnique, Request
<1>4. Enqueue(p) /\ made' = made \cup {p}
  BY <1>1
<1> HIDE DEF p
<1>5. Queued' = Queued \cup {p} /\ Quarantined' = Quarantined
  BY <1>3, <1>4, EnqueueEffect
<1>6. Forgotten' = Forgotten
  BY <1>3, <1>4, <1>5 DEF Forgotten, OutboxSound
<1>7. Contract!Produce(p)
  BY <1>2, <1>3, <1>4, <1>5, <1>6 DEF Contract!Produce
<1>8. QED
  BY <1>3, <1>7 DEF Contract!Next

LEMMA AckForgets ==
  ASSUME IInv, DInv, TakeAck PROVE [Contract!Next]_Contract!contractVars
<1> DEFINE status == ack[conn].status
<1>1. conn # NoHandler => conn \in Handlers
  BY DEF DInv, ClientTypeOK
<1>2. at \in Waiting /\ conn \in Handlers /\ pc[conn] = "sent"
  BY <1>1 DEF TakeAck
<1>3. Acknowledge(current, status)
  BY Zenon DEF TakeAck
<1>4. UNCHANGED <<made, readings>>
  BY DEF TakeAck, Close, dbVars
<1>5. req[conn] = current /\ current \in Sendable /\ current \in Request
  BY <1>2, DeliveryAssumption
  DEF DInv, Connected, InHand, ClientTypeOK, QueueTypeOK, Sendable
<1>6. current \in made /\ current \in Queued /\ current \notin Quarantined
  BY <1>5, SendableNotQuarantined DEF DInv, OutboxSound, Queued, Sendable
<1>7. status \in Success => current \in readings
  BY <1>2, <1>5 DEF IInv, AnswersTrue, Answered
<1> HIDE DEF status
<1>8. CASE status \in Success
  <2>1. outbox' = {e \in outbox : e.payload.mid # current.mid}
    BY <1>3, <1>8 DEF Acknowledge, Success
  <2>2. Queued' = Queued \ {current} /\ Quarantined' = Quarantined
    BY <1>5, <2>1, DeleteEffect DEF DInv
  <2>3. Forgotten' = Forgotten \cup {current}
    BY <1>4, <1>6, <2>2 DEF Forgotten
  <2>4. Contract!Forget(current)
    BY <1>4, <1>6, <1>7, <1>8, <2>2, <2>3 DEF Contract!Forget, Forgotten
  <2>5. QED
    BY <1>5, <2>4 DEF Contract!Next
<1>9. CASE status = "rejected"
  <2>1. SetState(current, "rejected")
    BY <1>3, <1>9 DEF Acknowledge
  <2>2. Queued' = Queued /\ Quarantined' = Quarantined \cup {current}
    BY <1>5, <2>1, SetStateEffect DEF DInv
  <2>3. Contract!Quarantine(current)
    BY <1>4, <1>6, <2>2 DEF Contract!Quarantine, Forgotten
  <2>4. QED
    BY <1>5, <2>3 DEF Contract!Next
<1>10. CASE status \notin Success \cup {"rejected"}
  <2>1. SetState(current, "retry")
    BY <1>3, <1>10 DEF Acknowledge, Success
  <2>2. QED
    BY <1>4, <1>5, <2>1, MarkHidden
<1>11. QED
  BY <1>8, <1>9, <1>10

\* A reading that a handler commits is still in the outbox: had the client
\* forgotten it, it would be stored already.
LEMMA HandlerStores ==
  ASSUME IInv, DInv, NEW h \in Handlers, ServerHandler(h)
  PROVE  [Contract!Next]_Contract!contractVars
<1>1. /\ HandlerStep(h) \/ HandlerFault(h) \/ Close(h)
      /\ UNCHANGED <<outbox, made>>
  BY DEF ServerHandler, queueVars
<1>2. req[h] \in made /\ req[h] \in Request
  BY <1>1, HandlerEffect DEF DInv, ServerKnowsMade, ClientTypeOK
<1>3. CASE readings' = readings
  BY <1>1, <1>3, HiddenStep
<1>4. CASE readings' # readings
  <2>1. readings' = readings \cup {req[h]} /\ req[h] \notin readings
    BY <1>1, <1>4, HandlerEffect
  <2>2. req[h] \notin Forgotten
    BY <1>2, <2>1 DEF Forgotten, DInv, NothingLost
  <2>3. Forgotten' = Forgotten /\ Quarantined' = Quarantined
    BY <1>1 DEF Forgotten, Queued, Quarantined
  <2>4. Contract!Store(req[h])
    BY <1>1, <1>2, <2>1, <2>2, <2>3 DEF Contract!Store
  <2>5. QED
    BY <1>2, <2>4 DEF Contract!Next
<1>5. QED
  BY <1>3, <1>4

LEMMA ContractStep ==
  Inv /\ [Next]_vars => [Contract!Next]_Contract!contractVars
<1> SUFFICES ASSUME IInv, DInv, [Next]_vars
             PROVE  [Contract!Next]_Contract!contractVars
  BY DEF Inv
<1>1. /\ batch \subseteq Sendable
      /\ at \in {"send"} \cup Waiting => current \in Sendable
  BY DEF DInv, InHand
<1>2. CASE \/ StartCycle \/ SendOldest \/ EndFlush \/ SkipReading \/ TakeSeq
           \/ SendNew \/ ClientCrash \/ ServerCrash \/ Operator \/ UNCHANGED vars
  <2>1. UNCHANGED <<outbox, made, readings>>
    <3>1. ASSUME NEW p, NEW stage, Open(p, stage)
          PROVE  UNCHANGED <<outbox, made, readings>>
      BY <3>1 DEF Open, Receive, dbVars, queueVars
    <3>2. CASE SendOldest \/ SendNew
      BY <3>1, <3>2 DEF SendOldest, SendNew
    <3>3. CASE \/ StartCycle \/ EndFlush \/ SkipReading \/ TakeSeq \/ ClientCrash
      BY <3>3 DEF StartCycle, EndFlush, SkipReading, TakeSeq, NextDeviceSeq,
                  ClientCrash, ingestVars, queueVars
    <3>4. CASE ServerCrash \/ Operator \/ UNCHANGED vars
      BY <3>4 DEF ServerCrash, ServerRestart, Operator, PolicyStep, ChangeAccess,
                  ChangeCapabilities, dbVars, vars, ingestVars, queueVars
    <3>5. QED
      BY <1>2, <3>2, <3>3, <3>4
  <2>2. QED
    BY <2>1, HiddenStep
<1>3. CASE EnqueueReading
  BY <1>3, EnqueueProduces
<1>4. CASE TakeAck
  BY <1>4, AckForgets
<1>5. CASE SeeHangUp \/ GiveUp \/ CannotConnect
  <2>1. PICK p \in Sendable : MarkAttempt(p)
    BY <1>1, <1>5 DEF SeeHangUp, GiveUp, CannotConnect
  <2>2. UNCHANGED <<made, readings>>
    BY <1>5 DEF SeeHangUp, GiveUp, CannotConnect, ingestVars
  <2>3. QED
    BY <2>1, <2>2, MarkHidden DEF MarkAttempt
<1>6. ASSUME NEW h \in Handlers, ServerHandler(h)
      PROVE  [Contract!Next]_Contract!contractVars
  BY <1>6, HandlerStores
<1>7. QED
  BY StepCases, <1>2, <1>3, <1>4, <1>5, <1>6

(* Client, network and server together implement the delivery contract.    *)
THEOREM DeliveryImplementsContract == Spec => ImplementsContract
  BY ContractInit, ContractStep, InvCorrect, PTL
  DEF Spec, ImplementsContract, Contract!Spec

\* The promises of the contract follow from its specification alone.
LEMMA ContractPromises ==
  Contract!Spec => []Contract!OnlyStoredForgotten /\ Contract!NothingReturns
<1> DEFINE Kept ==
      /\ made \subseteq made' /\ readings \subseteq readings'
      /\ Forgotten \subseteq Forgotten' /\ Quarantined \subseteq Quarantined'
<1>1. Contract!Init => Contract!OnlyStoredForgotten
  BY DEF Contract!Init, Contract!OnlyStoredForgotten
<1>2. ASSUME Contract!OnlyStoredForgotten, Contract!Next
      PROVE  Contract!OnlyStoredForgotten' /\ Kept
  <2>1. PICK p \in Request : \/ Contract!Produce(p) \/ Contract!Store(p)
                             \/ Contract!Forget(p) \/ Contract!Quarantine(p)
    BY <1>2 DEF Contract!Next
  <2> HIDE DEF Forgotten, Quarantined
  <2>2. CASE Contract!Produce(p)
    BY <1>2, <2>2 DEF Contract!Produce, Contract!OnlyStoredForgotten
  <2>3. CASE Contract!Store(p)
    BY <1>2, <2>3 DEF Contract!Store, Contract!OnlyStoredForgotten
  <2>4. CASE Contract!Forget(p)
    BY <1>2, <2>4 DEF Contract!Forget, Contract!OnlyStoredForgotten
  <2>5. CASE Contract!Quarantine(p)
    BY <1>2, <2>5 DEF Contract!Quarantine, Contract!OnlyStoredForgotten
  <2>6. QED  BY <2>1, <2>2, <2>3, <2>4, <2>5
<1>3. ASSUME Contract!OnlyStoredForgotten, UNCHANGED Contract!contractVars
      PROVE  Contract!OnlyStoredForgotten'
  BY <1>3 DEF Contract!OnlyStoredForgotten, Contract!contractVars
<1>4. QED
  BY <1>1, <1>2, <1>3, PTL DEF Contract!Spec, Contract!NothingReturns

(* Read off the contract: the Pi forgets a reading only when it is stored, *)
(* names it alone, and neither outbox nor table takes anything back.       *)
THEOREM DeliveryNothingTakenBack ==
  Spec => []Contract!OnlyStoredForgotten /\ Contract!NothingReturns
  BY DeliveryImplementsContract, ContractPromises, PTL DEF ImplementsContract

-----------------------------------------------------------------------------
\* Why a message is set aside only for a reason that lasts.

\* The server stores p whenever it gets it, as long as nobody steps in.
Welcome(p) ==
  /\ p.body \notin Malformed
  /\ Slot(p) \notin Prior
  /\ active[Pi]
  /\ p.body \in supported[Pi]

\* How far a request has come says which checks it has passed.
Sifted(h) ==
  /\ pc[h] \in {"pool"} \cup InTransaction => req[h].body \notin Malformed
  /\ pc[h] \in {"caps", "claim", "existing"} \cup Claiming => active[Pi]
  /\ pc[h] \in {"claim", "existing"} \cup Claiming => req[h].body \in supported[Pi]
  /\ ack[h].status = "rejected" => ~Welcome(req[h])

ServerSifts ==
  /\ \A r \in readings : Welcome(r)
  /\ \A h \in Handlers : Sifted(h)

RInv == revised \/ (ServerSifts /\ \A p \in Quarantined : ~Welcome(p))

LEMMA RInvInit == Init => RInv
  BY DEF Init, IngestInit, QueueInit, RInv, ServerSifts, Sifted, NoAck, Ack,
         Quarantined, InTransaction, ReadingOnly, Claiming

\* Only the operator changes what is welcome.
LEMMA PolicyKept ==
  ASSUME [Next]_vars, ~revised' PROVE ~revised /\ UNCHANGED <<active, supported>>
<1>1. ASSUME NEW p, NEW stage, Open(p, stage)
      PROVE  UNCHANGED <<active, supported, revised>>
  BY <1>1 DEF Open, Receive, policyVars
<1>2. CASE SendOldest \/ SendNew
  BY <1>1, <1>2 DEF SendOldest, SendNew
<1>3. CASE \/ StartCycle \/ EndFlush \/ SkipReading \/ TakeSeq \/ EnqueueReading
           \/ ClientCrash \/ SeeHangUp \/ GiveUp \/ CannotConnect \/ UNCHANGED vars
  <2>1. CASE StartCycle \/ EndFlush \/ SkipReading \/ UNCHANGED vars
    BY <2>1 DEF StartCycle, EndFlush, SkipReading, ingestVars, vars
  <2>2. CASE TakeSeq      BY <2>2 DEF TakeSeq, ingestVars
  <2>3. CASE EnqueueReading
    <3>1. UNCHANGED ingestVars /\ UNCHANGED revised
      BY <2>3 DEF EnqueueReading
    <3>2. QED
      BY <3>1 DEF ingestVars
  <2>4. CASE ClientCrash  BY <2>4 DEF ClientCrash, ingestVars
  <2>5. CASE SeeHangUp \/ GiveUp
    <3>1. UNCHANGED ingestVars /\ UNCHANGED revised
      BY <2>5 DEF SeeHangUp, GiveUp
    <3>2. QED
      BY <3>1 DEF ingestVars
  <2>6. CASE CannotConnect
    BY <2>6 DEF CannotConnect, ingestVars
  <2>7. QED
    BY <1>3, <2>1, <2>2, <2>3, <2>4, <2>5, <2>6
<1>4. CASE TakeAck
  BY <1>4 DEF TakeAck, Close, policyVars
<1>5. ASSUME NEW h \in Handlers, ServerHandler(h)
      PROVE  UNCHANGED <<active, supported, revised>>
  BY <1>5
  DEF ServerHandler, HandlerStep, HandlerFault, Acquire, Authenticate,
      CheckCapabilities, Claim, ReadExisting, StoreReading, Commit, WriteAck, Close,
      FailTransaction, CommitUnreported, policyVars
<1>6. CASE ServerCrash
  BY <1>6 DEF ServerCrash, ServerRestart, policyVars
<1>7. CASE Operator
  BY <1>7 DEF Operator
<1>8. QED
  BY StepCases, <1>2, <1>3, <1>4, <1>5, <1>6, <1>7

LEMMA SiftQuiet ==
  ASSUME ServerSifts, NEW h \in Handlers, Sifted(h)',
         UNCHANGED <<active, supported, readings>>,
         \A g \in Handlers \ {h} :
           pc'[g] = pc[g] /\ req'[g] = req[g] /\ ack'[g] = ack[g]
  PROVE  ServerSifts'
  BY DEF ServerSifts, Sifted, Welcome

LEMMA SiftCommit ==
  ASSUME IInv, ServerSifts, NEW h \in Handlers, pc[h] \in Ending, CommitEffect(h),
         pc' = [pc EXCEPT ![h] = "acking"],
         ack' = ack \/ ack' = [ack EXCEPT ![h] = RetryAck],
         UNCHANGED <<active, supported, req>>
  PROVE  ServerSifts'
<1>1. pc \in [Handlers -> Stages] /\ DOMAIN ack = Handlers
  BY DEF IInv, TypeInv, IngestTypeOK
<1>2. \A g \in Handlers : Sifted(g)'
  BY <1>1
  DEF ServerSifts, Sifted, Welcome, RetryAck, Ack, InTransaction, ReadingOnly, Claiming
<1>3. pc[h] = "commitInserted" => Welcome(req[h])
  <2>1. pc[h] = "commitInserted" => Slot(req[h]) \notin Prior
    BY DEF IInv, SlotsFresh, SlotTaken
  <2>2. QED
    BY <2>1 DEF ServerSifts, Sifted, Welcome, InTransaction, Claiming
<1>4. \A r \in readings' : Welcome(r)'
  BY <1>3 DEF CommitEffect, dbVars, ServerSifts, Welcome
<1>5. QED
  BY <1>2, <1>4 DEF ServerSifts

LEMMA SiftStep ==
  ASSUME IInv, NamesUnique, ServerKnowsMade, CInv, CInv', ServerSifts,
         [IngestNext]_ingestVars, UNCHANGED <<active, supported>>,
         \A h \in Handlers : pc'[h] # "idle" => req'[h].dev = Pi
  PROVE  ServerSifts'
<1>0. \/ \E h \in Handlers, r \in Request : Receive(h, r)
      \/ \E h \in Handlers : HandlerStep(h)
      \/ \E h \in Handlers : Close(h)
      \/ \E h \in Handlers : HandlerFault(h)
      \/ ServerRestart
      \/ UNCHANGED <<readings, pc, req, ack>>
  BY DEF IngestNext, PolicyStep, ChangeAccess, ChangeCapabilities, ingestVars, dbVars
<1>t. /\ pc \in [Handlers -> Stages] /\ DOMAIN ack = Handlers /\ DOMAIN req = Handlers
      /\ \A h \in Handlers : Sifted(h)
  BY DEF IInv, TypeInv, IngestTypeOK, ServerSifts
<1> USE <1>t DEF dbVars, Goto, Conclude, Ack, InTransaction, ReadingOnly, Claiming
<1>1. ASSUME NEW h \in Handlers, NEW r \in Request, Receive(h, r)
      PROVE  ServerSifts'
  <2>1. ack[h].status = "none"
    BY <1>1 DEF Receive, CInv, OnlyImportsRefuse, NoAck
  <2>2. Sifted(h)'
    BY <1>1, <2>1 DEF Receive, Sifted, Welcome
  <2>3. QED
    BY <1>1, <2>2, SiftQuiet DEF Receive
<1>2. ASSUME NEW h \in Handlers, HandlerStep(h) PROVE ServerSifts'
  <2>0. pc[h] # "idle" => req[h].dev = Pi
    BY DEF NamesUnique, ServerKnowsMade
  <2>1. CASE Acquire(h)
    <3>1. Sifted(h)'  BY <2>1 DEF Acquire, Sifted, Welcome
    <3>2. QED         BY <2>1, <3>1, SiftQuiet DEF Acquire
  <2>2. CASE Authenticate(h)
    <3>1. Sifted(h)'  BY <2>0, <2>2 DEF Authenticate, Sifted, Welcome
    <3>2. QED         BY <2>2, <3>1, SiftQuiet DEF Authenticate
  <2>3. CASE CheckCapabilities(h)
    <3>1. Sifted(h)'  BY <2>0, <2>3 DEF CheckCapabilities, Sifted, Welcome
    <3>2. QED         BY <2>3, <3>1, SiftQuiet DEF CheckCapabilities
  <2>4. CASE Claim(h)
    <3>1. Sifted(h)'  BY <2>4 DEF Claim, Sifted, Welcome
    <3>2. QED         BY <2>4, <3>1, SiftQuiet DEF Claim
  <2>5. CASE ReadExisting(h)
    <3>1. PICK row \in ingest : row.payload.mid = req[h].mid
                              /\ ack' = [ack EXCEPT ![h] = AnswerFor(row, req[h])]
                              /\ pc' = [pc EXCEPT ![h] = "end"]
      BY <2>5 DEF ReadExisting
    <3>2. ack'[h] = AnswerFor(row, req[h]) /\ ack'[h].code # "MSG-E002"
      BY <3>1 DEF CInv, OnlyImportsConflict
    <3>3. ack'[h].status = "rejected" => ack'[h].code = "MSG-E013"
      <4>1. row.status \in {"inserted", "rejected"}
        BY DEF IInv, TablesAgree
      <4>2. QED
        BY <3>2, <4>1 DEF AnswerFor
    <3>4. ack'[h].code = "MSG-E013" => Slot(req[h]) \in Prior
      BY <2>5 DEF ReadExisting, CInv, OnlyImportsConflict
    <3>5. Sifted(h)'
      BY <2>5, <3>1, <3>3, <3>4 DEF ReadExisting, Sifted, Welcome
    <3>6. QED
      BY <2>5, <3>1, <3>5, SiftQuiet DEF ReadExisting
  <2>6. CASE StoreReading(h)
    <3>1. Sifted(h)'
      BY <2>6, SlotTakenByImport DEF StoreReading, Sifted, Welcome
    <3>2. QED
      BY <2>6, <3>1, SiftQuiet DEF StoreReading
  <2>7. CASE Commit(h)  BY <2>7, SiftCommit DEF Commit
  <2>8. CASE WriteAck(h)
    <3>1. Sifted(h)'  BY <2>8 DEF WriteAck, Sifted, Welcome
    <3>2. QED         BY <2>8, <3>1, SiftQuiet DEF WriteAck
  <2>9. QED
    BY <1>2, <2>1, <2>2, <2>3, <2>4, <2>5, <2>6, <2>7, <2>8 DEF HandlerStep
<1>3. ASSUME NEW h \in Handlers, Close(h) PROVE ServerSifts'
  <2>1. Sifted(h)'  BY <1>3 DEF Close, Sifted, NoAck
  <2>2. QED         BY <1>3, <2>1, SiftQuiet DEF Close
<1>4. ASSUME NEW h \in Handlers, HandlerFault(h) PROVE ServerSifts'
  <2>1. CASE FailTransaction(h)
    <3>1. Sifted(h)'  BY <2>1 DEF FailTransaction, Sifted, RetryAck
    <3>2. QED         BY <2>1, <3>1, SiftQuiet DEF FailTransaction
  <2>2. CASE CommitUnreported(h)
    BY <2>2, SiftCommit DEF CommitUnreported
  <2>3. QED
    BY <1>4, <2>1, <2>2 DEF HandlerFault
<1>5. CASE ServerRestart
  BY <1>5 DEF ServerRestart, ServerSifts, Sifted, Welcome, NoAck
<1>6. CASE UNCHANGED <<readings, pc, req, ack>>
  BY <1>6 DEF ServerSifts, Sifted, Welcome
<1>7. QED
  BY <1>0, <1>1, <1>2, <1>3, <1>4, <1>5, <1>6

\* Only an answer sets a message aside, and only a justified one.
LEMMA QuarantineGrows ==
  ASSUME IInv, DInv, [Next]_vars, NEW p \in Quarantined', p \notin Quarantined
  PROVE  \E h \in Handlers : ack[h].status = "rejected" /\ req[h] = p
<1>1. \/ UNCHANGED outbox
      \/ EnqueueReading
      \/ TakeAck
      \/ SeeHangUp \/ GiveUp \/ CannotConnect
  <2>1. ASSUME NEW q, NEW stage, Open(q, stage) PROVE UNCHANGED outbox
    BY <2>1 DEF Open, queueVars
  <2>2. CASE SendOldest \/ SendNew
    BY <2>1, <2>2 DEF SendOldest, SendNew
  <2>3. CASE \/ StartCycle \/ EndFlush \/ SkipReading \/ TakeSeq \/ ClientCrash
    BY <2>3 DEF StartCycle, EndFlush, SkipReading, TakeSeq, NextDeviceSeq,
                ClientCrash, queueVars
  <2>4. CASE (\E h \in Handlers : ServerHandler(h)) \/ ServerCrash \/ Operator
    BY <2>4 DEF ServerHandler, ServerCrash, Operator, queueVars
  <2>5. CASE UNCHANGED vars
    BY <2>5 DEF vars, queueVars
  <2>6. QED
    BY StepCases, <2>2, <2>3, <2>4, <2>5
<1>2. CASE UNCHANGED outbox
  BY <1>2 DEF Quarantined
<1>3. CASE EnqueueReading
  <2>1. PICK m \in MessageIds, b \in Bodies :
          Enqueue([mid |-> m, dev |-> Pi, seq |-> seq, body |-> b])
    BY <1>3 DEF EnqueueReading
  <2> DEFINE new == [mid |-> m, dev |-> Pi, seq |-> seq, body |-> b]
             row == [payload |-> new, state |-> "pending"]
  <2>2. outbox' = outbox \cup {row} /\ row.state = "pending"
    BY <2>1 DEF Enqueue
  <2> HIDE DEF row
  <2>3. QED
    BY <2>2 DEF Quarantined
<1>4. CASE SeeHangUp \/ GiveUp \/ CannotConnect
  <2>1. PICK q \in Sendable : MarkAttempt(q)
    BY <1>4 DEF SeeHangUp, GiveUp, CannotConnect, DInv, InHand
  <2>2. QED
    BY <2>1, SetStateEffect DEF MarkAttempt, DInv
<1>5. CASE TakeAck
  <2> DEFINE status == ack[conn].status
  <2>1. conn # NoHandler => conn \in Handlers
    BY DEF DInv, ClientTypeOK
  <2>2. at \in Waiting /\ conn \in Handlers /\ pc[conn] = "sent"
    BY <1>5, <2>1 DEF TakeAck
  <2>3. Acknowledge(current, status)
    BY <1>5, Zenon DEF TakeAck
  <2>4. req[conn] = current /\ current \in Sendable
    BY <2>2, DeliveryAssumption DEF DInv, Connected, InHand
  <2> HIDE DEF status
  <2>5. CASE status \in Success
    <3>1. outbox' = {e \in outbox : e.payload.mid # current.mid}
      BY <2>3, <2>5 DEF Acknowledge, Success
    <3>2. QED
      BY <2>4, <3>1, DeleteEffect DEF DInv
  <2>6. CASE status = "rejected"
    <3>1. SetState(current, "rejected")
      BY <2>3, <2>6 DEF Acknowledge
    <3>2. p = current
      BY <2>4, <3>1, SetStateEffect DEF DInv
    <3>3. QED
      BY <2>2, <2>4, <2>6, <3>2 DEF status
  <2>7. CASE status \notin Success \cup {"rejected"}
    <3>1. SetState(current, "retry")
      BY <2>3, <2>7 DEF Acknowledge, Success
    <3>2. QED
      BY <2>4, <3>1, SetStateEffect DEF DInv
  <2>8. QED
    BY <2>5, <2>6, <2>7
<1>6. QED
  BY <1>1, <1>2, <1>3, <1>4, <1>5

LEMMA RInvStep == Inv /\ Inv' /\ CInv /\ CInv' /\ RInv /\ [Next]_vars => RInv'
<1> SUFFICES ASSUME IInv, DInv, DInv', CInv, CInv', RInv, [Next]_vars, ~revised'
             PROVE  ServerSifts' /\ \A p \in Quarantined' : ~Welcome(p)'
  BY DEF Inv, RInv
<1>1. ~revised /\ UNCHANGED <<active, supported>>
  BY PolicyKept
<1>2. ServerSifts /\ \A p \in Quarantined : ~Welcome(p)
  BY <1>1 DEF RInv
<1>3. \A h \in Handlers : pc'[h] # "idle" => req'[h].dev = Pi
  BY DEF DInv, ServerKnowsMade, NamesUnique
<1>4. ServerSifts'
  BY <1>1, <1>2, <1>3, ComposedStep, SiftStep DEF DInv
<1>5. ASSUME NEW p \in Quarantined' PROVE ~Welcome(p)'
  <2>1. ~Welcome(p)
    BY <1>2, QuarantineGrows DEF ServerSifts, Sifted
  <2>2. QED
    BY <1>1, <2>1 DEF Welcome
<1>6. QED
  BY <1>4, <1>5

(* A message is set aside only for a reason that lasts: it is not stored,  *)
(* and would not be if it were sent again.                                 *)
THEOREM DeliveryQuarantineJustified == Spec => []QuarantineJustified
<1>1. RInv => QuarantineJustified
  BY DEF RInv, ServerSifts, Welcome, QuarantineJustified
<1>2. Inv /\ CInv /\ [Next]_vars => CInv'
  BY ComposedStep, CInvStep DEF Inv, DInv
<1>3. QED
  BY <1>1, <1>2, RInvInit, RInvStep, CInvInit, InvCorrect, PTL DEF Spec
=============================================================================
