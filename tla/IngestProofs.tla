---------------------------- MODULE IngestProofs ----------------------------
(***************************************************************************)
(* Theorems about module Ingest, for any number of handlers, messages and  *)
(* failures.  IInv is the inductive invariant: what the rows that are not  *)
(* committed yet guarantee about the ones that are.                        *)
(***************************************************************************)
EXTENDS Ingest, FiniteSetTheorems, TLAPS

-----------------------------------------------------------------------------
\* The parts of the inductive invariant.

Answered == {"end", "acking", "sent"}

ServesRequest == \A h \in Handlers : pc[h] # "idle" => req[h] \in Request

\* What an open transaction has inserted blocks every other one ...
ClaimsDisjoint ==
  \A g, h \in Handlers :
    pc[g] \in Claiming /\ pc[h] \in Claiming /\ req[g].mid = req[h].mid => g = h
SlotsDisjoint ==
  \A g, h \in Handlers :
    /\ pc[g] = "commitInserted" /\ pc[h] = "commitInserted"
    /\ Slot(req[g]) = Slot(req[h])
    => g = h

\* ... and was new when it was inserted, and so still is.
ClaimsFresh ==
  \A h \in Handlers :
    pc[h] \in Claiming => \A row \in ingest : row.payload.mid # req[h].mid
SlotsFresh ==
  \A h \in Handlers :
    /\ pc[h] = "commitInserted" => ~SlotTaken(Slot(req[h]))
    /\ pc[h] = "commitRejected" => SlotTaken(Slot(req[h]))

AnswersTrue ==
  \A h \in Handlers :
    /\ pc[h] = "commitInserted" => ack[h].status = "inserted" /\ ack[h].code = "none"
    /\ pc[h] = "commitRejected" => ack[h].status = "rejected" /\ ack[h].code = "MSG-E013"
    /\ pc[h] \in Answered /\ ack[h].status \in Success => req[h] \in readings
    /\ pc[h] \in Answered /\ ack[h].code = "MSG-E013"
         => [payload |-> req[h], status |-> "rejected"] \in ingest

RefusedHaveReason ==
  \A row \in ingest : row.status = "rejected" => SlotTaken(Slot(row.payload))

TypeInv == IngestTypeOK /\ ServesRequest

IInv ==
  /\ TypeInv
  /\ ClaimsDisjoint
  /\ SlotsDisjoint
  /\ ClaimsFresh
  /\ SlotsFresh
  /\ AnswersTrue
  /\ RefusedHaveReason
  /\ TablesAgree

-----------------------------------------------------------------------------
LEMMA IngestTypeInit == IngestInit => TypeInv
  BY IngestAssumption
  DEF IngestInit, TypeInv, IngestTypeOK, ServesRequest, Stages, NoAck, Ack,
      AckStatuses, Codes

(* Every step keeps the types, and a busy handler keeps its request.       *)
LEMMA IngestTypeStep == TypeInv /\ [IngestNext]_ingestVars => TypeInv'
<1> SUFFICES ASSUME TypeInv, [IngestNext]_ingestVars PROVE TypeInv'
  OBVIOUS
<1>0. \/ \E h \in Handlers, r \in Request : Receive(h, r)
      \/ \E h \in Handlers : HandlerStep(h)
      \/ \E h \in Handlers : Close(h)
      \/ \E h \in Handlers : HandlerFault(h)
      \/ ServerRestart
      \/ \E d \in Devices : ChangeAccess(d) \/ ChangeCapabilities(d)
      \/ UNCHANGED ingestVars
  BY DEF IngestNext, PolicyStep
<1> USE DEF TypeInv, IngestTypeOK, ServesRequest, Stages, ReadingOnly, Claiming,
            InTransaction, Ack, NoAck, RetryAck, AckStatuses, Codes, policyVars,
            dbVars
<1>1. ASSUME NEW h \in Handlers, NEW r \in Request, Receive(h, r)
      PROVE  TypeInv'
  BY <1>1 DEF Receive, Conclude, Goto
<1>2. ASSUME NEW h \in Handlers, HandlerStep(h) PROVE TypeInv'
  <2>1. CASE Acquire(h)            BY <2>1 DEF Acquire, Goto
  <2>2. CASE Authenticate(h)       BY <2>2 DEF Authenticate, Goto, Conclude
  <2>3. CASE CheckCapabilities(h)  BY <2>3 DEF CheckCapabilities, Goto, Conclude
  <2>4. CASE Claim(h)              BY <2>4 DEF Claim, Goto
  <2>5. CASE ReadExisting(h)
    BY <2>5 DEF ReadExisting, Conclude, AnswerFor, Row, Statuses
  <2>6. CASE StoreReading(h)       BY <2>6 DEF StoreReading, Conclude
  <2>7. CASE Commit(h)
    BY <2>7 DEF Commit, CommitEffect, Ending, Goto, Row, Statuses
  <2>8. CASE WriteAck(h)           BY <2>8 DEF WriteAck, Goto
  <2>9. QED
    BY <1>2, <2>1, <2>2, <2>3, <2>4, <2>5, <2>6, <2>7, <2>8 DEF HandlerStep
<1>3. ASSUME NEW h \in Handlers, Close(h) PROVE TypeInv'
  BY <1>3 DEF Close, Conclude
<1>4. ASSUME NEW h \in Handlers, HandlerFault(h) PROVE TypeInv'
  <2>1. CASE FailTransaction(h)
    BY <2>1, IngestAssumption DEF FailTransaction, Fault, Conclude
  <2>2. CASE CommitUnreported(h)
    <3>1. /\ pc' = [pc EXCEPT ![h] = "acking"]
          /\ ack' = [ack EXCEPT ![h] = RetryAck]
          /\ UNCHANGED <<active, supported, req>>
          /\ faults' \in 0..MaxFaults
          /\ pc[h] # "idle"
      BY <2>2, IngestAssumption DEF CommitUnreported, Conclude, Fault, Ending
    <3>2. ingest' \subseteq Row /\ readings' \subseteq Request
      BY <2>2 DEF CommitUnreported, CommitEffect, Ending, Row, Statuses
    <3>3. QED
      BY <3>1, <3>2
  <2>3. QED
    BY <1>4, <2>1, <2>2 DEF HandlerFault
<1>5. CASE ServerRestart
  BY <1>5, IngestAssumption DEF ServerRestart, Fault
<1>6. ASSUME NEW d \in Devices, ChangeAccess(d) \/ ChangeCapabilities(d)
      PROVE  TypeInv'
  <2>1. CASE ChangeAccess(d)
    BY <2>1, IngestAssumption DEF ChangeAccess, Fault
  <2>2. CASE ChangeCapabilities(d)
    BY <2>2, IngestAssumption DEF ChangeCapabilities, Fault
  <2>3. QED
    BY <1>6, <2>1, <2>2
<1>7. CASE UNCHANGED ingestVars
  BY <1>7 DEF ingestVars
<1>8. QED
  BY <1>0, <1>1, <1>2, <1>3, <1>4, <1>5, <1>6, <1>7

(* The variables of Ingest keep their types, whatever clients send.        *)
THEOREM IngestTypeCorrect == IngestSpec => []IngestTypeOK
<1>1. TypeInv => IngestTypeOK
  BY DEF TypeInv
<1>2. QED
  BY <1>1, IngestTypeInit, IngestTypeStep, PTL DEF IngestSpec

-----------------------------------------------------------------------------
LEMMA IInvInit == IngestInit => IInv
  BY IngestTypeInit
  DEF IngestInit, IInv, ClaimsDisjoint, SlotsDisjoint, ClaimsFresh, SlotsFresh,
      AnswersTrue, RefusedHaveReason, TablesAgree, Claiming, Answered

(* The commit of a transaction, reported or not: the row that becomes       *)
(* visible was new, and the slot of its reading free.                      *)
LEMMA CommitKeepsIInv ==
  ASSUME IInv, TypeInv', NEW h \in Handlers, pc[h] \in Ending, CommitEffect(h),
         pc' = [pc EXCEPT ![h] = "acking"],
         ack' = ack \/ ack' = [ack EXCEPT ![h] = RetryAck],
         UNCHANGED <<policyVars, req>>
  PROVE  IInv'
<1> USE DEF IInv, TypeInv, IngestTypeOK, ServesRequest, Ending, Claiming
<1>1. ClaimsDisjoint' /\ SlotsDisjoint'
  BY DEF ClaimsDisjoint, SlotsDisjoint
<1>2. req[h] \in Request
  OBVIOUS
<1>3. CASE pc[h] = "end"
  <2>1. UNCHANGED <<ingest, readings>>
    BY <1>3 DEF CommitEffect, dbVars
  <2>2. ClaimsFresh' /\ SlotsFresh'
    BY <2>1 DEF ClaimsFresh, SlotsFresh, SlotTaken
  <2>3. AnswersTrue'
    BY <1>3, <2>1 DEF AnswersTrue, Answered, RetryAck, Ack, Success
  <2>4. RefusedHaveReason' /\ TablesAgree'
    BY <2>1 DEF RefusedHaveReason, TablesAgree, SlotTaken
  <2>5. QED
    BY <1>1, <2>2, <2>3, <2>4
<1>4. CASE pc[h] = "commitInserted"
  <2>1. /\ ingest' = ingest \cup {[payload |-> req[h], status |-> "inserted"]}
        /\ readings' = readings \cup {req[h]}
    BY <1>4 DEF CommitEffect
  <2>2. /\ \A row \in ingest : row.payload.mid # req[h].mid
        /\ ~SlotTaken(Slot(req[h]))
    BY <1>4 DEF ClaimsFresh, SlotsFresh
  <2>3. ClaimsFresh'
    BY <1>4, <2>1 DEF ClaimsFresh, ClaimsDisjoint
  <2>4. SlotsFresh'
    BY <1>4, <2>1 DEF SlotsFresh, SlotsDisjoint, SlotTaken
  <2>5. AnswersTrue'
    BY <1>4, <2>1 DEF AnswersTrue, Answered, RetryAck, Ack, Success
  <2>6. RefusedHaveReason'
    BY <2>1 DEF RefusedHaveReason, SlotTaken
  <2>7. TablesAgree'
    <3>1. \A r \in readings' : \E row \in ingest' : row.payload = r
      <4>1. [payload |-> req[h], status |-> "inserted"].payload = req[h]
        OBVIOUS
      <4>2. \E row \in ingest' : row.payload = req[h]
        BY <2>1, <4>1
      <4>3. QED
        BY <2>1, <4>2 DEF TablesAgree
    <3>2. req[h] \notin readings
      BY <2>2 DEF TablesAgree
    <3>3. \A row \in ingest' : row.status = "inserted" <=> row.payload \in readings'
      BY <2>1, <2>2, <3>2 DEF TablesAgree, Row
    <3>4. \A r, s \in readings' : Slot(r) = Slot(s) => r = s
      BY <2>1, <2>2 DEF TablesAgree, SlotTaken
    <3>5. QED
      BY <2>1, <2>2, <3>1, <3>3, <3>4 DEF TablesAgree, SlotTaken
  <2>8. QED
    BY <1>1, <2>3, <2>4, <2>5, <2>6, <2>7
<1>5. CASE pc[h] = "commitRejected"
  <2>1. /\ ingest' = ingest \cup {[payload |-> req[h], status |-> "rejected"]}
        /\ UNCHANGED readings
    BY <1>5 DEF CommitEffect
  <2>2. /\ \A row \in ingest : row.payload.mid # req[h].mid
        /\ SlotTaken(Slot(req[h]))
    BY <1>5 DEF ClaimsFresh, SlotsFresh
  <2>3. ClaimsFresh'
    BY <1>5, <2>1 DEF ClaimsFresh, ClaimsDisjoint
  <2>4. SlotsFresh'
    BY <2>1 DEF SlotsFresh, SlotTaken
  <2>5. AnswersTrue'
    BY <1>5, <2>1 DEF AnswersTrue, Answered, RetryAck, Ack, Success
  <2>6. RefusedHaveReason'
    BY <2>1, <2>2 DEF RefusedHaveReason, SlotTaken
  <2>7. TablesAgree'
    BY <1>2, <2>1, <2>2 DEF TablesAgree
  <2>8. QED
    BY <1>1, <2>3, <2>4, <2>5, <2>6, <2>7
<1>6. QED
  BY <1>3, <1>4, <1>5

(* A handler that changes nothing in the tables and holds no row afterwards *)
(* disturbs nobody; only its own answer has to be true.                    *)
TrueAnswer(h) ==
  pc[h] \in Answered =>
    /\ ack[h].status \in Success => req[h] \in readings
    /\ ack[h].code = "MSG-E013"
         => [payload |-> req[h], status |-> "rejected"] \in ingest

LEMMA QuietKeepsIInv ==
  ASSUME IInv, TypeInv', NEW h \in Handlers, UNCHANGED <<ingest, readings>>,
         \A g \in Handlers \ {h} :
           pc'[g] = pc[g] /\ req'[g] = req[g] /\ ack'[g] = ack[g],
         pc'[h] \notin Claiming, TrueAnswer(h)'
  PROVE  IInv'
<1> USE DEF IInv, Claiming
<1>1. ClaimsDisjoint' /\ SlotsDisjoint'
  BY DEF ClaimsDisjoint, SlotsDisjoint
<1>2. ClaimsFresh' /\ SlotsFresh'
  BY DEF ClaimsFresh, SlotsFresh, SlotTaken
<1>3. AnswersTrue'
  BY DEF AnswersTrue, TrueAnswer
<1>4. RefusedHaveReason' /\ TablesAgree'
  BY DEF RefusedHaveReason, TablesAgree, SlotTaken
<1>5. QED
  BY <1>1, <1>2, <1>3, <1>4

(* Every step preserves the inductive invariant.                           *)
LEMMA IInvStep == IInv /\ [IngestNext]_ingestVars => IInv'
<1> SUFFICES ASSUME IInv, [IngestNext]_ingestVars PROVE IInv'
  OBVIOUS
<1>t. TypeInv /\ TypeInv'
  BY IngestTypeStep DEF IInv
<1>0. \/ \E h \in Handlers, r \in Request : Receive(h, r)
      \/ \E h \in Handlers : HandlerStep(h)
      \/ \E h \in Handlers : Close(h)
      \/ \E h \in Handlers : HandlerFault(h)
      \/ ServerRestart
      \/ \E d \in Devices : ChangeAccess(d) \/ ChangeCapabilities(d)
      \/ UNCHANGED ingestVars
  BY DEF IngestNext, PolicyStep
<1> USE <1>t DEF TypeInv, IngestTypeOK
<1>1. ASSUME NEW h \in Handlers, NEW r \in Request, Receive(h, r)
      PROVE  IInv'
  <2>1. TrueAnswer(h)' /\ pc'[h] \notin Claiming
    BY <1>1 DEF Receive, Conclude, Goto, TrueAnswer, Answered, Claiming, Ack,
                Success
  <2>2. QED
    BY <1>1, <2>1, QuietKeepsIInv DEF Receive, Conclude, Goto, dbVars
<1>2. ASSUME NEW h \in Handlers, HandlerStep(h) PROVE IInv'
  <2>1. CASE Acquire(h)
    <3>1. TrueAnswer(h)' /\ pc'[h] \notin Claiming
      BY <2>1 DEF Acquire, Goto, TrueAnswer, Answered, Claiming
    <3>2. QED
      BY <2>1, <3>1, QuietKeepsIInv DEF Acquire, Goto, dbVars
  <2>2. CASE Authenticate(h)
    <3>1. TrueAnswer(h)' /\ pc'[h] \notin Claiming
      BY <2>2 DEF Authenticate, Goto, Conclude, TrueAnswer, Answered, Claiming,
                  Ack, Success
    <3>2. QED
      BY <2>2, <3>1, QuietKeepsIInv DEF Authenticate, Goto, Conclude, dbVars
  <2>3. CASE CheckCapabilities(h)
    <3>1. TrueAnswer(h)' /\ pc'[h] \notin Claiming
      BY <2>3 DEF CheckCapabilities, Goto, Conclude, TrueAnswer, Answered,
                  Claiming, Ack, Success
    <3>2. QED
      BY <2>3, <3>1, QuietKeepsIInv DEF CheckCapabilities, Goto, Conclude, dbVars
  <2>4. CASE Claim(h)
    <3>1. CASE pc' = [pc EXCEPT ![h] = "existing"]
      <4>1. TrueAnswer(h)' /\ pc'[h] \notin Claiming
        BY <3>1 DEF TrueAnswer, Answered, Claiming
      <4>2. QED
        BY <2>4, <3>1, <4>1, QuietKeepsIInv DEF Claim, Goto, dbVars
    <3>2. CASE ~\E row \in ingest : row.payload.mid = req[h].mid
      <4>1. /\ pc' = [pc EXCEPT ![h] = "store"]
            /\ UNCHANGED <<ack, req, ingest, readings>>
        BY <2>4, <3>2 DEF Claim, Goto, dbVars
      <4>2. ClaimsDisjoint' /\ SlotsDisjoint'
        BY <2>4, <4>1
        DEF IInv, Claim, HoldsClaim, ClaimsDisjoint, SlotsDisjoint, Claiming
      <4>3. ClaimsFresh' /\ SlotsFresh'
        BY <3>2, <4>1 DEF IInv, ClaimsFresh, SlotsFresh, SlotTaken, Claiming
      <4>4. AnswersTrue' /\ RefusedHaveReason' /\ TablesAgree'
        BY <4>1
        DEF IInv, AnswersTrue, Answered, RefusedHaveReason, TablesAgree, SlotTaken
      <4>5. QED
        BY <4>2, <4>3, <4>4 DEF IInv
    <3>3. QED
      BY <2>4, <3>1, <3>2 DEF Claim, Goto
  <2>5. CASE ReadExisting(h)
    <3>1. PICK row \in ingest :
            row.payload.mid = req[h].mid /\ Conclude(h, AnswerFor(row, req[h]), "end")
      BY <2>5 DEF ReadExisting
    <3>2. row = [payload |-> row.payload, status |-> row.status]
      BY DEF Row
    <3>3. AnswerFor(row, req[h]).status \in Success => req[h] \in readings
      BY DEF AnswerFor, Ack, RetryAck, Success, IInv, TablesAgree, Row, Statuses
    <3>4. AnswerFor(row, req[h]).code = "MSG-E013"
            => row.payload = req[h] /\ row.status = "rejected"
      BY DEF AnswerFor, Ack, RetryAck, Row, Statuses
    <3>5. TrueAnswer(h)' /\ pc'[h] \notin Claiming
      BY <2>5, <3>1, <3>2, <3>3, <3>4
      DEF ReadExisting, Conclude, TrueAnswer, Claiming, dbVars
    <3>6. QED
      BY <2>5, <3>1, <3>5, QuietKeepsIInv DEF ReadExisting, Conclude, dbVars
  <2>6. CASE StoreReading(h)
    <3>1. UNCHANGED <<req, ingest, readings>>
      BY <2>6 DEF StoreReading, dbVars
    <3>2. \/ /\ SlotTaken(Slot(req[h]))
             /\ pc' = [pc EXCEPT ![h] = "commitRejected"]
             /\ ack' = [ack EXCEPT ![h] = Ack("rejected", "MSG-E013")]
          \/ /\ ~SlotTaken(Slot(req[h]))
             /\ pc' = [pc EXCEPT ![h] = "commitInserted"]
             /\ ack' = [ack EXCEPT ![h] = Ack("inserted", "none")]
      BY <2>6 DEF StoreReading, Conclude
    <3>3. ClaimsDisjoint' /\ ClaimsFresh'
      BY <2>6, <3>1, <3>2
      DEF StoreReading, IInv, ClaimsDisjoint, ClaimsFresh, Claiming
    <3>4. SlotsDisjoint'
      BY <2>6, <3>1, <3>2 DEF StoreReading, HoldsSlot, IInv, SlotsDisjoint
    <3>5. SlotsFresh'
      BY <3>1, <3>2 DEF IInv, SlotsFresh, SlotTaken
    <3>6. AnswersTrue'
      BY <3>1, <3>2 DEF IInv, AnswersTrue, Answered, Ack
    <3>7. RefusedHaveReason' /\ TablesAgree'
      BY <3>1 DEF IInv, RefusedHaveReason, TablesAgree, SlotTaken
    <3>8. QED
      BY <3>3, <3>4, <3>5, <3>6, <3>7 DEF IInv
  <2>7. CASE Commit(h)
    BY <2>7, CommitKeepsIInv DEF Commit, Goto
  <2>8. CASE WriteAck(h)
    <3>1. TrueAnswer(h)' /\ pc'[h] \notin Claiming
      BY <2>8
      DEF WriteAck, Goto, dbVars, IInv, AnswersTrue, TrueAnswer, Answered, Claiming
    <3>2. QED
      BY <2>8, <3>1, QuietKeepsIInv DEF WriteAck, Goto, dbVars
  <2>9. QED
    BY <1>2, <2>1, <2>2, <2>3, <2>4, <2>5, <2>6, <2>7, <2>8 DEF HandlerStep
<1>3. ASSUME NEW h \in Handlers, Close(h) PROVE IInv'
  <2>1. TrueAnswer(h)' /\ pc'[h] \notin Claiming
    BY <1>3 DEF Close, Conclude, TrueAnswer, Answered, Claiming
  <2>2. QED
    BY <1>3, <2>1, QuietKeepsIInv DEF Close, Conclude, dbVars
<1>4. ASSUME NEW h \in Handlers, HandlerFault(h) PROVE IInv'
  <2>1. CASE FailTransaction(h)
    <3>1. TrueAnswer(h)' /\ pc'[h] \notin Claiming
      BY <2>1 DEF FailTransaction, Conclude, TrueAnswer, Claiming, RetryAck, Ack,
                  Success
    <3>2. QED
      BY <2>1, <3>1, QuietKeepsIInv DEF FailTransaction, Conclude, dbVars
  <2>2. CASE CommitUnreported(h)
    BY <2>2, CommitKeepsIInv DEF CommitUnreported, Conclude
  <2>3. QED
    BY <1>4, <2>1, <2>2 DEF HandlerFault
<1>5. CASE ServerRestart
  BY <1>5
  DEF ServerRestart, dbVars, IInv, ClaimsDisjoint, SlotsDisjoint, ClaimsFresh,
      SlotsFresh, AnswersTrue, RefusedHaveReason, TablesAgree, Claiming, Answered,
      SlotTaken
<1>6. CASE UNCHANGED <<ingest, readings, pc, req, ack>>
  BY <1>6
  DEF IInv, ClaimsDisjoint, SlotsDisjoint, ClaimsFresh, SlotsFresh, AnswersTrue,
      RefusedHaveReason, TablesAgree, SlotTaken
<1>7. QED
  BY <1>0, <1>1, <1>2, <1>3, <1>4, <1>5, <1>6
  DEF ChangeAccess, ChangeCapabilities, ingestVars, dbVars

(* In every reachable state the inductive invariant holds.                 *)
LEMMA IInvCorrect == IngestSpec => []IInv
  BY IInvInit, IInvStep, PTL DEF IngestSpec

(* ACK after COMMIT: a success on the wire means a committed reading.      *)
THEOREM IngestSuccessIsDurable == IngestSpec => []SuccessIsDurable
<1>1. IInv => SuccessIsDurable
  BY DEF IInv, AnswersTrue, Answered, SuccessIsDurable
<1>2. QED
  BY <1>1, IInvCorrect, PTL

(* The two tables agree in every committed state.                          *)
THEOREM IngestTablesAgree == IngestSpec => []TablesAgree
<1>1. IInv => TablesAgree
  BY DEF IInv
<1>2. QED
  BY <1>1, IInvCorrect, PTL

(* A refusal for a taken slot is final, and the slot is really taken.      *)
THEOREM IngestConflictIsReal == IngestSpec => []ConflictIsReal
<1>1. IInv => ConflictIsReal
  <2> SUFFICES ASSUME IInv, NEW h \in Handlers, pc[h] \in {"acking", "sent"},
                      ack[h].code = "MSG-E013"
               PROVE  req[h] \notin readings /\ SlotTaken(Slot(req[h]))
    BY DEF ConflictIsReal
  <2> DEFINE row == [payload |-> req[h], status |-> "rejected"]
  <2>1. row \in ingest
    BY DEF IInv, AnswersTrue, Answered
  <2>2. QED
    BY <2>1 DEF IInv, RefusedHaveReason, TablesAgree
<1>2. QED
  BY <1>1, IInvCorrect, PTL

(* What clients are told is true, successes and refusals.                  *)
THEOREM IngestVerdictsAreTrue == IngestSpec => []VerdictsAreTrue
BY IngestSuccessIsDurable, IngestConflictIsReal, PTL DEF VerdictsAreTrue

-----------------------------------------------------------------------------
\* Nobody waits for ever.  A row that a handler is about to read stays there.

ExistingThere ==
  \A h \in Handlers :
    pc[h] = "existing" => \E row \in ingest : row.payload.mid = req[h].mid

LEMMA ExistingStep == TypeInv /\ ExistingThere /\ [IngestNext]_ingestVars => ExistingThere'
<1> SUFFICES ASSUME TypeInv, ExistingThere, [IngestNext]_ingestVars,
                    NEW g \in Handlers, pc'[g] = "existing"
             PROVE  \E row \in ingest' : row.payload.mid = req'[g].mid
  BY DEF ExistingThere
<1> USE DEF TypeInv, IngestTypeOK, Goto, Conclude, policyVars, dbVars
<1>1. ASSUME ingest \subseteq ingest', pc[g] = "existing", req'[g] = req[g]
      PROVE  \E row \in ingest' : row.payload.mid = req'[g].mid
  BY <1>1 DEF ExistingThere
<1>2. ASSUME NEW h \in Handlers, NEW r \in Request, Receive(h, r)
      PROVE  \E row \in ingest' : row.payload.mid = req'[g].mid
  BY <1>1, <1>2 DEF Receive
<1>3. ASSUME NEW h \in Handlers, HandlerStep(h)
      PROVE  \E row \in ingest' : row.payload.mid = req'[g].mid
  <2>1. CASE Claim(h) /\ g = h
    BY <2>1 DEF Claim
  <2>2. CASE Commit(h)
    BY <1>1, <2>2 DEF Commit, CommitEffect
  <2>3. CASE ~(Claim(h) /\ g = h) /\ ~Commit(h)
    <3>1. ingest' = ingest /\ req' = req
      BY <1>3, <2>3
      DEF HandlerStep, Acquire, Authenticate, CheckCapabilities, Claim, ReadExisting,
          StoreReading, WriteAck
    <3>2. pc[g] = "existing"
      BY <1>3, <2>3
      DEF HandlerStep, Acquire, Authenticate, CheckCapabilities, Claim, ReadExisting,
          StoreReading, WriteAck
    <3>3. QED  BY <1>1, <3>1, <3>2
  <2>4. QED  BY <2>1, <2>2, <2>3
<1>4. ASSUME NEW h \in Handlers, Close(h) \/ HandlerFault(h)
      PROVE  \E row \in ingest' : row.payload.mid = req'[g].mid
  BY <1>1, <1>4 DEF Close, HandlerFault, FailTransaction, CommitUnreported, CommitEffect
<1>5. CASE ServerRestart
  BY <1>5 DEF ServerRestart
<1>6. CASE PolicyStep \/ UNCHANGED ingestVars
  BY <1>1, <1>6 DEF PolicyStep, ChangeAccess, ChangeCapabilities, ingestVars
<1>7. QED
  BY <1>2, <1>3, <1>4, <1>5, <1>6 DEF IngestNext

LEMMA HoldersBehind ==
  ASSUME NEW S, NEW h \in S, NEW g \in Handlers, WaitsFor(h, g)
  PROVE  g \in WithHolders(S)
BY DEF WithHolders

\* Who waits for a slot waits for a handler that is about to commit.
LEMMA SlotHolderProceeds ==
  ASSUME NEW h \in Handlers, pc[h] = "store", Blocked(h)
  PROVE  \E g \in Handlers : WaitsFor(h, g) /\ pc[g] = "commitInserted"
BY DEF Blocked, WaitsFor, HoldsSlot

\* Who waits for a message id waits for one that is about to commit or waits
\* for a slot.
LEMMA ClaimHolderProceeds ==
  ASSUME NEW h \in Handlers, pc[h] = "claim", Blocked(h)
  PROVE  \E g \in Handlers : WaitsFor(h, g) /\ pc[g] \in Claiming
BY DEF Blocked, WaitsFor, HoldsClaim

\* An empty pool is in the hands of handlers inside their transactions.
LEMMA PoolIsHeld ==
  ASSUME NEW h \in Handlers, pc[h] = "pool", Blocked(h)
  PROVE  \E g \in Handlers : WaitsFor(h, g) /\ pc[g] \in InTransaction
<1>1. ~PoolFree
  BY DEF Blocked
<1>2. {g \in Handlers : pc[g] \in InTransaction} # {}
  <2>1. Cardinality({}) = 0
    BY FS_EmptySet
  <2>2. QED  BY <1>1, <2>1, IngestAssumption DEF PoolFree
<1>3. QED  BY <1>1, <1>2 DEF WaitsFor

(* Whoever cannot go on waits, in at most three steps, for a transaction   *)
(* that can: handlers do not deadlock, for any number of them, any size of *)
(* the pool and any messages that arrive together.                         *)
THEOREM IngestWaitsEnd == IngestSpec => []WaitsEnd
<1>1. ExistingThere => WaitsEnd
  <2> SUFFICES ASSUME ExistingThere, NEW h \in Handlers, Blocked(h)
               PROVE  \E g \in WithHolders(WithHolders(WithHolders({h}))) :
                        pc[g] \in InTransaction /\ ~Blocked(g)
    BY DEF WaitsEnd
  <2> DEFINE Going(g) == pc[g] \in InTransaction /\ ~Blocked(g)
  <2>1. \A S : S \subseteq WithHolders(S)
    BY DEF WithHolders
  <2>2. ASSUME NEW S, NEW k \in S, k \in Handlers, Blocked(k), pc[k] = "store"
        PROVE  \E g \in WithHolders(S) : Going(g)
    <3>1. PICK g \in Handlers : WaitsFor(k, g) /\ pc[g] = "commitInserted"
      BY <2>2, SlotHolderProceeds
    <3>2. Going(g)
      BY <3>1 DEF Blocked, InTransaction, Claiming
    <3>3. QED  BY <3>1, <3>2, HoldersBehind
  <2>3. ASSUME NEW S, NEW k \in S, k \in Handlers, Blocked(k), pc[k] \in {"claim", "store"}
        PROVE  \E g \in WithHolders(WithHolders(S)) : Going(g)
    <3>1. CASE pc[k] = "store"
      BY <2>1, <2>2, <2>3, <3>1
    <3>2. CASE pc[k] = "claim"
      <4>1. PICK g \in Handlers : WaitsFor(k, g) /\ pc[g] \in Claiming
        BY <2>3, <3>2, ClaimHolderProceeds
      <4>2. g \in WithHolders(S)
        BY <4>1, HoldersBehind
      <4>3. CASE Blocked(g)
        <5>1. pc[g] = "store"
          BY <4>1, <4>3 DEF Blocked, Claiming
        <5>2. QED  BY <2>2, <4>2, <4>3, <5>1
      <4>4. CASE ~Blocked(g)
        BY <2>1, <4>1, <4>2, <4>4 DEF InTransaction
      <4>5. QED  BY <4>3, <4>4
    <3>3. QED  BY <2>3, <3>1, <3>2
  <2>4. CASE pc[h] = "pool"
    <3>1. PICK g \in Handlers : WaitsFor(h, g) /\ pc[g] \in InTransaction
      BY <2>4, PoolIsHeld
    <3>2. g \in WithHolders({h})
      BY <3>1, HoldersBehind
    <3>3. CASE Blocked(g)
      <4>1. pc[g] \in {"claim", "store"}
        BY <3>1, <3>3 DEF Blocked, InTransaction, ReadingOnly, Claiming, ExistingThere
      <4>2. QED  BY <2>3, <3>2, <3>3, <4>1
    <3>4. CASE ~Blocked(g)
      BY <2>1, <3>1, <3>2, <3>4
    <3>5. QED  BY <3>3, <3>4
  <2>5. CASE pc[h] \in {"claim", "store"}
    BY <2>1, <2>3, <2>5
  <2>6. QED
    BY <2>4, <2>5 DEF Blocked, ExistingThere
<1>2. IngestInit => ExistingThere
  BY DEF IngestInit, ExistingThere
<1>3. IngestSpec => []TypeInv
  BY IngestTypeInit, IngestTypeStep, PTL DEF IngestSpec
<1>4. QED
  BY <1>1, <1>2, <1>3, ExistingStep, PTL DEF IngestSpec

-----------------------------------------------------------------------------
LEMMA StoreInit == IngestInit => Store!Init
  BY DEF IngestInit, Store!Init, Refused, Said

\* A step that leaves tables and written answers alone shows nothing.
LEMMA SilentStep ==
  ASSUME UNCHANGED <<ingest, readings>>,
         \A h \in Handlers :
           /\ pc[h] = "sent" <=> pc'[h] = "sent"
           /\ pc[h] = "sent" => req'[h] = req[h] /\ ack'[h] = ack[h]
  PROVE  UNCHANGED Store!storeVars
<1>1. Refused' = Refused /\ Said' = Said
  BY DEF Refused, Said, Verdict
<1>2. QED
  BY <1>1 DEF Store!storeVars

\* A commit decides its message, in the only way that is open.
LEMMA CommitDecides ==
  ASSUME IInv, IInv', NEW h \in Handlers, pc[h] \in Ending, CommitEffect(h),
         pc' = [pc EXCEPT ![h] = "acking"],
         \A g \in Handlers \ {h} : ack'[g] = ack[g],
         UNCHANGED req
  PROVE  [Store!Next]_Store!storeVars
<1> USE DEF Ending
<1>1. /\ req[h] \in Request
      /\ pc \in [Handlers -> Stages]
  BY DEF IInv, TypeInv, IngestTypeOK, ServesRequest
<1>2. Said' = Said
  BY <1>1 DEF Said, Verdict
<1>3. CASE pc[h] = "end"
  BY <1>1, <1>3, SilentStep DEF CommitEffect, dbVars
<1>4. CASE pc[h] = "commitInserted"
  <2>1. /\ ingest' = ingest \cup {[payload |-> req[h], status |-> "inserted"]}
        /\ readings' = readings \cup {req[h]}
    BY <1>4 DEF CommitEffect
  <2>2. Refused' = Refused
    BY <2>1 DEF Refused
  <2>3. ~Store!Decided(req[h].mid)
    BY <1>4 DEF IInv, ClaimsFresh, Claiming, TablesAgree, Store!Decided, Refused
  <2>4. ~Store!SlotTaken(req[h])
    BY <1>4 DEF IInv, SlotsFresh, SlotTaken, Slot, Store!SlotTaken, Store!Slot
  <2>5. Store!Store(req[h])
    BY <1>2, <2>1, <2>2, <2>3, <2>4 DEF Store!Store
  <2>6. QED
    BY <1>1, <2>5 DEF Store!Next
<1>5. CASE pc[h] = "commitRejected"
  <2> DEFINE row == [payload |-> req[h], status |-> "rejected"]
  <2>1. ingest' = ingest \cup {row} /\ readings' = readings
    BY <1>5 DEF CommitEffect
  <2>2. Refused' = Refused \cup {req[h]}
    <3>1. row.payload = req[h] /\ row.status = "rejected"
      OBVIOUS
    <3> HIDE DEF row
    <3>2. QED
      BY <2>1, <3>1 DEF Refused
  <2>3. ~Store!Decided(req[h].mid)
    BY <1>5 DEF IInv, ClaimsFresh, Claiming, TablesAgree, Store!Decided, Refused
  <2>4. Store!SlotTaken(req[h])
    BY <1>5 DEF IInv, SlotsFresh, SlotTaken, Slot, Store!SlotTaken, Store!Slot
  <2>5. Store!Refuse(req[h])
    BY <1>2, <2>1, <2>2, <2>3, <2>4 DEF Store!Refuse
  <2>6. QED
    BY <1>1, <2>5 DEF Store!Next
<1>6. QED
  BY <1>3, <1>4, <1>5

\* Every step of the server is a step of the store, or shows nothing.
LEMMA StoreStep ==
  IInv /\ IInv' /\ [IngestNext]_ingestVars => [Store!Next]_Store!storeVars
<1> SUFFICES ASSUME IInv, IInv', [IngestNext]_ingestVars
             PROVE  [Store!Next]_Store!storeVars
  OBVIOUS
<1>1. TypeInv /\ TypeInv'
  BY DEF IInv
<1> USE <1>1 DEF TypeInv, IngestTypeOK, dbVars, Goto, Conclude
<1>2. ASSUME NEW h \in Handlers, NEW r \in Request, Receive(h, r)
      PROVE  UNCHANGED Store!storeVars
  BY <1>2, SilentStep DEF Receive
<1>3. ASSUME NEW h \in Handlers, HandlerStep(h)
      PROVE  [Store!Next]_Store!storeVars
  <2>1. CASE Acquire(h)           BY <2>1, SilentStep DEF Acquire
  <2>2. CASE Authenticate(h)      BY <2>2, SilentStep DEF Authenticate
  <2>3. CASE CheckCapabilities(h) BY <2>3, SilentStep DEF CheckCapabilities
  <2>4. CASE Claim(h)             BY <2>4, SilentStep DEF Claim
  <2>5. CASE ReadExisting(h)      BY <2>5, SilentStep DEF ReadExisting
  <2>6. CASE StoreReading(h)      BY <2>6, SilentStep DEF StoreReading
  <2>7. CASE Commit(h)            BY <2>7, CommitDecides DEF Commit
  <2>8. CASE WriteAck(h)
    <3> DEFINE v == Verdict(ack[h])
    <3>1. /\ pc[h] = "acking"
          /\ pc' = [pc EXCEPT ![h] = "sent"]
          /\ UNCHANGED <<ingest, readings, req, ack>>
      BY <2>8 DEF WriteAck
    <3>2. v \in Store!Verdicts
      BY DEF Verdict, Store!Verdicts
    <3>3. v = "stored" => req[h] \in readings
      BY <3>1 DEF Verdict, IInv, AnswersTrue, Answered
    <3>4. v = "refused" => req[h] \in Refused
      <4>1. ASSUME v = "refused" PROVE ack[h].code = "MSG-E013"
        BY <4>1 DEF Verdict
      <4>2. ASSUME v = "refused"
            PROVE  [payload |-> req[h], status |-> "rejected"] \in ingest
        BY <3>1, <4>1, <4>2 DEF IInv, AnswersTrue, Answered
      <4>3. QED
        BY <4>2 DEF Refused
    <3>5. Said' = [Said EXCEPT ![h] = {<<req[h], v>>}]
      BY <3>1 DEF Said, Verdict
    <3>6. Refused' = Refused
      BY <3>1 DEF Refused
    <3>7. Store!Say(h, req[h], v)
      BY <3>1, <3>3, <3>4, <3>5, <3>6 DEF Store!Say
    <3>8. req[h] \in Request
      BY <3>1 DEF ServesRequest
    <3>9. QED
      BY <3>2, <3>7, <3>8 DEF Store!Next
  <2>9. QED
    BY <1>3, <2>1, <2>2, <2>3, <2>4, <2>5, <2>6, <2>7, <2>8 DEF HandlerStep
<1>4. ASSUME NEW h \in Handlers, Close(h) PROVE Store!HangUp({h})
  <2>1. Refused' = Refused
    BY <1>4 DEF Close, Refused
  <2>2. Said' = [g \in Handlers |-> IF g \in {h} THEN {} ELSE Said[g]]
    BY <1>4 DEF Close, Said, Verdict
  <2>3. QED
    BY <1>4, <2>1, <2>2 DEF Close, Store!HangUp
<1>5. ASSUME NEW h \in Handlers, HandlerFault(h)
      PROVE  [Store!Next]_Store!storeVars
  <2>1. CASE FailTransaction(h)
    BY <2>1, SilentStep DEF FailTransaction, InTransaction, ReadingOnly, Claiming
  <2>2. CASE CommitUnreported(h)
    BY <2>2, CommitDecides DEF CommitUnreported
  <2>3. QED
    BY <1>5, <2>1, <2>2 DEF HandlerFault
<1>6. ASSUME ServerRestart PROVE Store!HangUp(Handlers)
  <2>1. Refused' = Refused
    BY <1>6 DEF ServerRestart, Refused
  <2>2. Said' = [g \in Handlers |-> IF g \in Handlers THEN {} ELSE Said[g]]
    BY <1>6 DEF ServerRestart, Said
  <2>3. QED
    BY <1>6, <2>1, <2>2 DEF ServerRestart, Store!HangUp
<1>7. ASSUME UNCHANGED <<ingest, readings, pc, req, ack>>
      PROVE  UNCHANGED Store!storeVars
  BY <1>7, SilentStep
<1>8. QED
  BY <1>2, <1>3, <1>4, <1>5, <1>6, <1>7
  DEF IngestNext, PolicyStep, ChangeAccess, ChangeCapabilities, ingestVars, Store!Next

(* The server implements the store: no interleaving, failure or restart    *)
(* shows a client more than one atomic decision per message would.         *)
THEOREM IngestImplementsStore == IngestSpec => ImplementsStore
  BY StoreInit, StoreStep, IInvCorrect, PTL DEF IngestSpec, ImplementsStore, Store!Spec

\* The promises of the store follow from its specification alone.
LEMMA StorePromises == Store!Spec => []Store!OneFate /\ Store!DecisionsStay
<1>1. Store!Init => Store!OneFate
  BY DEF Store!Init, Store!OneFate
<1>2. ASSUME Store!Next
      PROVE  readings \subseteq readings' /\ Refused \subseteq Refused'
  BY <1>2 DEF Store!Next, Store!Store, Store!Refuse, Store!Say, Store!HangUp
<1>3. ASSUME Store!OneFate, Store!Next PROVE Store!OneFate'
  <2>1. ASSUME NEW r \in Request, Store!Store(r) PROVE Store!OneFate'
    BY <1>3, <2>1 DEF Store!OneFate, Store!Store, Store!Decided, Store!SlotTaken
  <2>2. ASSUME NEW r \in Request, Store!Refuse(r) PROVE Store!OneFate'
    BY <1>3, <2>2 DEF Store!OneFate, Store!Refuse, Store!Decided, Store!SlotTaken
  <2>3. ASSUME NEW c \in Handlers, NEW r \in Request, NEW v \in Store!Verdicts,
               Store!Say(c, r, v)
        PROVE  Store!OneFate'
    BY <1>3, <2>3 DEF Store!OneFate, Store!Say, Store!SlotTaken
  <2>4. ASSUME NEW C \in SUBSET Handlers, Store!HangUp(C) PROVE Store!OneFate'
    BY <1>3, <2>4 DEF Store!OneFate, Store!HangUp, Store!SlotTaken
  <2>5. QED  BY <1>3, <2>1, <2>2, <2>3, <2>4 DEF Store!Next
<1>4. ASSUME Store!OneFate, UNCHANGED Store!storeVars PROVE Store!OneFate'
  BY <1>4 DEF Store!OneFate, Store!storeVars, Store!SlotTaken
<1>5. QED
  BY <1>1, <1>2, <1>3, <1>4, PTL DEF Store!Spec, Store!DecisionsStay

(* For every client: a message id has one fate and one content for ever,   *)
(* a slot holds one reading, and no decision is taken back.                *)
THEOREM IngestDecidesOnce == IngestSpec => []Store!OneFate /\ Store!DecisionsStay
BY IngestImplementsStore, StorePromises, PTL DEF ImplementsStore
=============================================================================
