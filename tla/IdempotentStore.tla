--------------------------- MODULE IdempotentStore ---------------------------
(***************************************************************************)
(* What the ingest service promises, with no transactions, threads or      *)
(* connections: every request is decided at most once, in one atomic step, *)
(* and the verdict put on a connection never runs ahead of the decision.   *)
(* Module Ingest implements it.                                            *)
(***************************************************************************)
CONSTANTS
  Request,      \* all requests: records with the fields mid, dev and seq
  Connections,  \* the connections a verdict can be written to
  Prior         \* <<dev, seq>> slots that were filled before the service began

VARIABLES
  stored,       \* the requests that have been made durable
  refused,      \* the requests refused for good because their slot was taken
  said          \* connection -> the set of verdicts on it (none, or one)

storeVars == <<stored, refused, said>>

Verdicts == {"stored", "refused", "denied", "unknown"}

Slot(r) == <<r.dev, r.seq>>

\* A message id is decided once, whatever content comes with it later.
Decided(m) == \E r \in stored \cup refused : r.mid = m

SlotTaken(r) == Slot(r) \in Prior \/ \E s \in stored : Slot(s) = Slot(r)

Init ==
  /\ stored = {}
  /\ refused = {}
  /\ said = [c \in Connections |-> {}]

Store(r) ==
  /\ ~Decided(r.mid)
  /\ ~SlotTaken(r)
  /\ stored' = stored \cup {r}
  /\ UNCHANGED <<refused, said>>

Refuse(r) ==
  /\ ~Decided(r.mid)
  /\ SlotTaken(r)
  /\ refused' = refused \cup {r}
  /\ UNCHANGED <<stored, said>>

\* "stored" and "refused" need the decision; "denied" (malformed, not
\* authorised, or another content under a used id) and "unknown" (try again)
\* promise nothing about it.
Say(c, r, v) ==
  /\ v = "stored" => r \in stored
  /\ v = "refused" => r \in refused
  /\ said' = [said EXCEPT ![c] = {<<r, v>>}]
  /\ UNCHANGED <<stored, refused>>

\* Connections close, one by one or all at once when the service restarts.
HangUp(C) ==
  /\ said' = [c \in Connections |-> IF c \in C THEN {} ELSE said[c]]
  /\ UNCHANGED <<stored, refused>>

Next ==
  \/ \E r \in Request : Store(r) \/ Refuse(r)
  \/ \E c \in Connections, r \in Request, v \in Verdicts : Say(c, r, v)
  \/ \E C \in SUBSET Connections : HangUp(C)

Spec == Init /\ [][Next]_storeVars

(* What users of the store may rely on: a message id has one fate and one  *)
(* content, a slot one reading, a refusal its reason, and what is said of  *)
(* a request is what became of it.                                         *)
OneFate ==
  /\ \A r, s \in stored \cup refused : r.mid = s.mid => r = s
  /\ stored \cap refused = {}
  /\ \A r, s \in stored : Slot(r) = Slot(s) => r = s
  /\ \A r \in stored : Slot(r) \notin Prior
  /\ \A r \in refused : SlotTaken(r)
  /\ \A c \in Connections, r \in Request :
       /\ <<r, "stored">> \in said[c] => r \in stored
       /\ <<r, "refused">> \in said[c] => r \in refused

(* A decision is never taken back.                                         *)
DecisionsStay == [][stored \subseteq stored' /\ refused \subseteq refused']_storeVars
=============================================================================
