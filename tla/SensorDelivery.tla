---------------------------- MODULE SensorDelivery ----------------------------
(***************************************************************************)
(* One Raspberry Pi and the ingest server, end to end: the main loop of    *)
(* ver3/sensor_client_tiered.py (and of ver3/sensor_client_sim.py, whose   *)
(* flush differs in one place) over the queue of module EdgeQueue, and the *)
(* handlers of module Ingest at the other end of the connection.           *)
(*                                                                         *)
(* The client waits five seconds for an answer.  When it gives up, the     *)
(* handler does not know: it goes on, and may commit after the client has  *)
(* sent the same message again.  Client and server crash and restart.      *)
(***************************************************************************)
EXTENDS Ingest, EdgeQueue

CONSTANTS
  Pi,               \* the device_id of the client
  NoHandler,        \* no connection is open
  MaxMishaps,       \* bound on the client's crashes and unanswered attempts
  BreakOnReject     \* what a flush may do: FALSE sensor_client_tiered, TRUE sensor_client_sim

ASSUME DeliveryAssumption ==
  /\ Pi \in Devices
  /\ NoHandler \notin Handlers
  /\ MaxMishaps \in Nat
  /\ BreakOnReject \subseteq BOOLEAN

VARIABLES
  at,           \* where the client is in its loop
  batch,        \* flush: the payloads read from the queue and not yet sent
  current,      \* the payload being sent
  conn,         \* the handler at the other end of the open connection
  mishaps,      \* crashes and unanswered attempts (bounded by MaxMishaps)
  made,         \* history: every payload that was ever queued
  revised       \* history: an operator changed access or capabilities

clientVars == <<at, batch, current, conn, mishaps>>
vars == <<ingestVars, queueVars, clientVars, made, revised>>

ClientStages == {"idle", "flush", "flushWait", "read", "enqueue", "send",
                 "sendWait"}
Waiting == {"flushWait", "sendWait"}

QueueTypeOK ==
  /\ seq \in 0..MaxSeq
  /\ outbox \subseteq [payload : Request, state : QueueStates]

TypeOK ==
  /\ IngestTypeOK
  /\ QueueTypeOK
  /\ at \in ClientStages
  /\ batch \subseteq Request
  /\ current \in Request \cup {NoRequest}
  /\ conn \in Handlers \cup {NoHandler}
  /\ mishaps \in 0..MaxMishaps
  /\ made \subseteq Request
  /\ revised \in BOOLEAN

Init ==
  /\ IngestInit
  /\ QueueInit
  /\ at = "idle"
  /\ batch = {}
  /\ current = NoRequest
  /\ conn = NoHandler
  /\ mishaps = 0
  /\ made = {}
  /\ revised = FALSE

-----------------------------------------------------------------------------
\* The client's loop.

\* flush_buffer reads the queue once and works on that snapshot.
StartCycle ==
  /\ at = "idle"
  /\ batch' = Pending
  /\ at' = "flush"
  /\ UNCHANGED <<ingestVars, queueVars, current, conn, mishaps, made, revised>>

\* connect and sendall: a free handler takes the request.
Open(p, waiting) ==
  /\ \E h \in Handlers : Receive(h, p) /\ conn' = h
  /\ current' = p
  /\ at' = waiting
  /\ UNCHANGED <<queueVars, mishaps, made, revised>>

SendOldest ==
  /\ at = "flush"
  /\ \E p \in batch : Oldest(batch, p) /\ Open(p, "flushWait")
  /\ UNCHANGED batch

EndFlush ==
  /\ at = "flush"
  /\ batch = {}
  /\ at' = "read"
  /\ UNCHANGED <<ingestVars, queueVars, batch, current, conn, mishaps, made, revised>>

\* looks_disconnected: nothing is queued this time.
SkipReading ==
  /\ at = "read"
  /\ at' = "idle"
  /\ UNCHANGED <<ingestVars, queueVars, batch, current, conn, mishaps, made, revised>>

TakeSeq ==
  /\ at = "read"
  /\ seq < MaxSeq
  /\ NextDeviceSeq
  /\ at' = "enqueue"
  /\ UNCHANGED <<ingestVars, batch, current, conn, mishaps, made, revised>>

\* build_envelope draws a fresh message id; enqueue commits before any send.
EnqueueReading ==
  /\ at = "enqueue"
  /\ \E m \in MessageIds, b \in Bodies :
       LET p == [mid |-> m, dev |-> Pi, seq |-> seq, body |-> b] IN
       /\ \A q \in made : q.mid # m
       /\ Enqueue(p)
       /\ current' = p
       /\ made' = made \cup {p}
  /\ at' = "send"
  /\ UNCHANGED <<ingestVars, batch, conn, mishaps, revised>>

SendNew ==
  /\ at = "send"
  /\ Open(current, "sendWait")
  /\ UNCHANGED batch

\* After an answer: the flush goes on, ends at the first failure, or was the
\* send of a new reading, which ends the cycle.
Proceed(failed) ==
  /\ at' = CASE at \in {"send", "sendWait"} -> "idle"
             [] failed -> "read"
             [] OTHER -> "flush"
  /\ batch' = IF failed THEN {} ELSE batch \ {current}
  /\ current' = NoRequest
  /\ conn' = NoHandler

\* The answer arrives in time and apply_ack commits it to the queue.
TakeAck ==
  /\ at \in Waiting
  /\ conn # NoHandler /\ pc[conn] = "sent"
  /\ LET status == ack[conn].status IN
     /\ Acknowledge(current, status)
     /\ \E breaks \in BreakOnReject :
          Proceed(status = "retry" \/ (breaks /\ status = "rejected"))
  /\ Close(conn)
  /\ UNCHANGED <<mishaps, made, revised>>

-----------------------------------------------------------------------------
\* What goes wrong on the client's side.

Mishap == mishaps < MaxMishaps /\ mishaps' = mishaps + 1

\* A timeout, a lost connection or a lost answer: send_once returns None.  The
\* handler is left alone with the request.
GiveUp ==
  /\ at \in Waiting
  /\ Mishap
  /\ MarkAttempt(current)
  /\ Proceed(TRUE)
  /\ UNCHANGED <<ingestVars, made, revised>>

\* The server restarted: the client reads the end of the connection.
SeeHangUp ==
  /\ at \in Waiting
  /\ conn # NoHandler /\ pc[conn] = "idle"
  /\ MarkAttempt(current)
  /\ Proceed(TRUE)
  /\ UNCHANGED <<ingestVars, mishaps, made, revised>>

\* The server cannot be reached at all.
CannotConnect ==
  /\ Mishap
  /\ \/ at = "flush" /\ \E p \in batch : Oldest(batch, p) /\ MarkAttempt(p)
     \/ at = "send" /\ MarkAttempt(current)
  /\ Proceed(TRUE)
  /\ UNCHANGED <<ingestVars, made, revised>>

\* Power cut, or an exception that ends the process: systemd restarts it.
ClientCrash ==
  /\ Mishap
  /\ at # "idle"
  /\ at' = "idle"
  /\ batch' = {}
  /\ current' = NoRequest
  /\ conn' = NoHandler
  /\ UNCHANGED <<ingestVars, queueVars, made, revised>>

-----------------------------------------------------------------------------
\* The server's own steps.

\* A handler whose client has gone closes by itself.
ServerHandler(h) ==
  /\ HandlerStep(h) \/ HandlerFault(h) \/ (conn # h /\ Close(h))
  /\ UNCHANGED <<queueVars, clientVars, made, revised>>

ServerCrash ==
  /\ ServerRestart
  /\ UNCHANGED <<queueVars, clientVars, made, revised>>

Operator ==
  /\ PolicyStep
  /\ revised' = TRUE
  /\ UNCHANGED <<queueVars, clientVars, made>>

ClientStep ==
  \/ StartCycle
  \/ SendOldest
  \/ EndFlush
  \/ SkipReading
  \/ TakeSeq
  \/ EnqueueReading
  \/ SendNew
  \/ TakeAck
  \/ SeeHangUp

ClientFault == GiveUp \/ CannotConnect \/ ClientCrash

Next ==
  \/ ClientStep
  \/ ClientFault
  \/ \E h \in Handlers : ServerHandler(h)
  \/ ServerCrash
  \/ Operator

Spec == Init /\ [][Next]_vars

(***************************************************************************)
(* Fairness.  The loop of the client never stops while its process runs,   *)
(* and systemd restarts it (Restart=on-failure); the server's event loop   *)
(* and its worker threads run.  Pool and row locks are handed over in      *)
(* order, so that a step which is possible again and again is taken.       *)
(* Failures are not fair: at most MaxFaults and MaxMishaps happen.         *)
(***************************************************************************)
HandlerProgress(h) ==
  (HandlerStep(h) \/ (conn # h /\ Close(h)))
    /\ UNCHANGED <<queueVars, clientVars, made, revised>>

Fairness ==
  /\ WF_vars(ClientStep)
  /\ \A h \in Handlers : SF_vars(HandlerProgress(h))

FairSpec == Spec /\ Fairness

-----------------------------------------------------------------------------
(* Nothing is lost: a reading that was queued on the Pi is in its outbox   *)
(* until it is committed on the server.  Only acknowledge() deletes a row, *)
(* and it must never do so for a message the server forgot: not after a    *)
(* crash on either side, nor after an answer to an earlier attempt.        *)
NothingLost == \A p \in made : p \in Queued \cup readings

(* One device_seq names one reading for ever, on both sides, whatever      *)
(* crashed between next_device_seq and enqueue: the outbox, the history    *)
(* and the table never hold two payloads under one number, and none is     *)
(* ahead of the counter.                                                   *)
SeqNamesOneReading ==
  /\ readings \cup Queued \subseteq made
  /\ \A p \in made : p.seq <= seq
  /\ \A p, q \in made : p.seq = q.seq => p = q

(* The client is never in conflict with itself.  However many handlers     *)
(* work on its retries, none finds its message id under another content    *)
(* (MSG-E002), and a taken slot (MSG-E013) was taken by an imported row.   *)
OnlyImportsConflict ==
  \A h \in Handlers :
    /\ ack[h].code # "MSG-E002"
    /\ ack[h].code = "MSG-E013" => Slot(req[h]) \in Prior

(* As long as no operator steps in, a message is quarantined only for a    *)
(* reason that lasts, and never one that is stored.  (After a change of    *)
(* access a retry of a stored message can be refused and quarantined.)     *)
QuarantineJustified ==
  revised \/ \A p \in Quarantined :
               /\ p \notin readings
               /\ \/ p.body \in Malformed
                  \/ Slot(p) \in Prior
                  \/ ~active[Pi]
                  \/ p.body \notin supported[Pi]

(* Every queued message is settled in the end: a finite number of failures *)
(* cannot leave one in the outbox for ever, not even behind messages that  *)
(* are refused.                                                            *)
EventuallySettled ==
  \A m \in MessageIds :
    (\E p \in Sendable : p.mid = m) ~> (\A p \in Sendable : p.mid # m)

(* At-least-once delivery: unless it is malformed, an imported row has its *)
(* slot or its device lacks the access or the capability, every reading    *)
(* queued before or between failures reaches the table, though a flush may *)
(* end at a refused message before it.                                     *)
Admitted(p) ==
  /\ p.body \notin Malformed
  /\ Slot(p) \notin Prior
  /\ ~revised /\ active[Pi] /\ p.body \in supported[Pi]

AtLeastOnce ==
  \A m \in MessageIds :
    (\E p \in made : p.mid = m) ~>
      (\E p \in made : p.mid = m /\ (p \in readings \/ ~Admitted(p)))

-----------------------------------------------------------------------------
\* The contract, read off the outbox and the tables.

Forgotten == made \ Queued

Contract == INSTANCE DeliveryContract WITH
  Reading <- Request, produced <- made, stored <- readings,
  forgotten <- Forgotten, quarantined <- Quarantined

(* The client, the network and the server together implement the contract: *)
(* a reading is stored at most once, and forgotten only after that.        *)
ImplementsContract == Contract!Spec
=============================================================================
