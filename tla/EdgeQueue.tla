------------------------------ MODULE EdgeQueue ------------------------------
(***************************************************************************)
(* The SQLite file on the Pi (ver3/edge_queue.py): the device_seq counter  *)
(* and the messages that are not acknowledged yet.  Each operation is one  *)
(* SQLite transaction; what it wrote survives a power cut.                 *)
(***************************************************************************)
EXTENDS Integers, FiniteSets

CONSTANT FlushLimit     \* OUTBOX_FLUSH_LIMIT (100 in the code)

ASSUME FlushLimitAssumption == FlushLimit \in Nat \ {0}

VARIABLES
  seq,          \* queue_state.device_seq
  outbox        \* rows of pending_messages: [payload, state]

queueVars == <<seq, outbox>>

QueueStates == {"pending", "retry", "rejected"}

QueueInit == seq = 0 /\ outbox = {}

Queued == {e.payload : e \in outbox}
Quarantined == {e.payload : e \in {x \in outbox : x.state = "rejected"}}
\* (Queued is also the mutant of Sendable that resends what was refused.)
Sendable == {e.payload : e \in {x \in outbox : x.state # "rejected"}}

\* Mutant of Pending: a row that was tried once is not selected again.
PendingUntried ==
  {e.payload : e \in {x \in outbox : x.state = "pending"}}

\* pending(limit): the oldest sendable messages.
Pending ==
  {p \in Sendable : Cardinality({q \in Sendable : q.seq < p.seq}) < FlushLimit}

Oldest(P, p) == p \in P /\ \A q \in P : p.seq <= q.seq

\* Mutant of NextDeviceSeq: numbers follow the rows that wait.
NextSeqFromOutbox ==
  /\ seq' = 1 + Cardinality(Sendable)
  /\ UNCHANGED outbox

NextDeviceSeq == seq' = seq + 1 /\ UNCHANGED outbox

Enqueue(p) ==
  /\ outbox' = outbox \cup {[payload |-> p, state |-> "pending"]}
  /\ UNCHANGED seq

\* UPDATE ... WHERE message_id = p.mid: nothing happens when it has no row.
SetState(p, state) ==
  outbox' = {IF e.payload.mid = p.mid THEN [e EXCEPT !.state = state] ELSE e :
               e \in outbox}

\* Mutant of MarkAttempt: an unanswered attempt counts as a refusal.
MarkRefused(p) == SetState(p, "rejected") /\ UNCHANGED seq

MarkAttempt(p) == SetState(p, "retry") /\ UNCHANGED seq

\* Mutants of Acknowledge: a refused message is deleted, or tried for ever.
AcknowledgeDrops(p, status) ==
  /\ IF status = "retry" THEN SetState(p, "retry")
     ELSE outbox' = {e \in outbox : e.payload.mid # p.mid}
  /\ UNCHANGED seq

AcknowledgeRetries(p, status) ==
  /\ IF status \in {"inserted", "duplicate"}
     THEN outbox' = {e \in outbox : e.payload.mid # p.mid}
     ELSE SetState(p, "retry")
  /\ UNCHANGED seq

Acknowledge(p, status) ==
  /\ CASE status \in {"inserted", "duplicate"} ->
            outbox' = {e \in outbox : e.payload.mid # p.mid}
       [] status = "rejected" -> SetState(p, "rejected")
       [] OTHER -> SetState(p, "retry")
  /\ UNCHANGED seq
=============================================================================
