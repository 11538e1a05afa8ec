--------------------------- MODULE ControlContract ---------------------------
(***************************************************************************)
(* What remote control promises about one Pi, with no outbox, no polling   *)
(* and no retries: a command is offered until it is answered or given up,  *)
(* and the power is touched at most once for a request, and only after the *)
(* server has recorded that this is about to happen.  Module RemoteControl *)
(* implements it.                                                          *)
(***************************************************************************)
EXTENDS Naturals

CONSTANT Requests

VARIABLES
  status,     \* request -> its status on the server
  announced,  \* the requests whose execution the server has on record
  ran         \* request -> how often the power was touched for it

contractVars == <<status, announced, ran>>

Open == {"queued", "accepted"}
Answers == {"shutting_down", "completed", "rejected"}

Init ==
  /\ status = [r \in Requests |-> "absent"]
  /\ announced = {}
  /\ ran = [r \in Requests |-> 0]

Ask(r) ==
  /\ status[r] = "absent"
  /\ status' = [status EXCEPT ![r] = "queued"]
  /\ UNCHANGED <<announced, ran>>

\* The Pi asks for work: what is overdue is given up, and one command that is
\* still open may be handed out.
Offer(overdue, offered) ==
  /\ \A r \in overdue \cup offered : status[r] \in Open
  /\ status' = [r \in Requests |-> CASE r \in overdue -> "outcome_unknown"
                                     [] r \in offered -> "accepted"
                                     [] OTHER -> status[r]]
  /\ UNCHANGED <<announced, ran>>

\* An answer can still arrive for a request that was given up.  A request
\* that was never handed out gets none.
Answer(r, s) ==
  /\ status[r] \notin {"absent", "queued"}
  /\ status' = [status EXCEPT ![r] = s]
  /\ announced' = IF s = "shutting_down" THEN announced \cup {r} ELSE announced
  /\ UNCHANGED ran

Run(r) ==
  /\ r \in announced
  /\ ran[r] = 0
  /\ ran' = [ran EXCEPT ![r] = 1]
  /\ UNCHANGED <<status, announced>>

Next ==
  \/ \E r \in Requests : Ask(r) \/ Run(r)
  \/ \E overdue, offered \in SUBSET Requests : Offer(overdue, offered)
  \/ \E r \in Requests, s \in Answers : Answer(r, s)

Spec == Init /\ [][Next]_contractVars

-----------------------------------------------------------------------------
\* What this comes to for the administrator: the power was touched once at most,
\* for a command that is on record; and what is on record has been answered, so
\* that it is not in the queue and was not given up.
OnceAndOnRecord ==
  \A r \in Requests :
    /\ ran[r] <= 1
    /\ ran[r] > 0 => r \in announced
    /\ r \in announced => status[r] \in Answers

\* Nothing is taken back: a command that was answered or given up is never handed
\* out again, and no announcement and no run is undone.
NoReturn ==
  [][\A r \in Requests :
       /\ status[r] \notin Open \cup {"absent"} => status'[r] \notin Open \cup {"absent"}
       /\ status[r] = "accepted" => status'[r] # "queued"
       /\ r \in announced => r \in announced'
       /\ ran[r] <= ran'[r]]_contractVars
=============================================================================
