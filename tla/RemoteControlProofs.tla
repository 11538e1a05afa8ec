------------------------- MODULE RemoteControlProofs -------------------------
(***************************************************************************)
(* Theorems about module RemoteControl, for any number of commands and     *)
(* mishaps.  What an action needs to know about the past is durable in one *)
(* of three places: the event named by event or prepared (Prepared), the   *)
(* marks of processed_commands (Marked), the status on the server (Known). *)
(***************************************************************************)
EXTENDS RemoteControl, TLAPS

-----------------------------------------------------------------------------
\* The parts of the inductive invariant.

Flushing(point) == at = "flush" /\ ret = point

\* Between being handed out and the end of execute_command, with the event id
\* in hand or not, before systemctl.
Announcing == at \in {"note", "announced"} \/ Flushing("announced")
Undone == at \in {"announce", "commit", "markExecuting"} \/ Announcing
Booting == at \in {"bootNote", "bootCheck", "bootForget"} \/ Flushing("bootCheck")
Busy == at \in {"execute", "reply", "systemctl"} \/ Undone \/ Booting

Working == Busy => current \in Requests

\* The id names the announcement of r.
Announcement(id, r) ==
  \E e \in made : e.id = id /\ e.req = r /\ e.type = "shutdown_started"

Announced(r) == \E e \in recorded : e.req = r /\ e.type = "shutdown_started"

Prepared ==
  /\ Announcing => Announcement(event, current)
  /\ \A r \in Requests : prepared[r] # None => Announcement(prepared[r], r)
  /\ at \in {"commit", "markExecuting", "systemctl"} => Announced(current)

\* The marks say what was done, and what is done is marked for ever.
Marked ==
  /\ Undone => processed[current] \notin Done
  /\ at = "systemctl" => processed[current] = "executing" /\ ran[current] = 0
  /\ at = "reply" => processed[current] \in {"completed", "dry_run_rejected"}
  /\ \A r \in Requests : ran[r] > 0 => processed[r] = "executing"
  /\ \A e \in made : e.type = "rejected" => processed[e.req] = "dry_run_rejected"

\* Whatever the agent works on was handed out by the server.
HandedOut(r) == status[r] \notin {"absent", "queued"}

Known ==
  /\ outbox \subseteq made
  /\ \A m \in lateEvents : m.event \in made
  /\ \A e \in made : HandedOut(e.req)
  /\ Busy => HandedOut(current)
  /\ pendingBoot # None => HandedOut(pendingBoot)

\* What was announced is on record before the boot it leads to is even
\* noted; a report is made for status commands only.
Truth ==
  /\ pendingBoot # None => Announced(pendingBoot)
  /\ Booting => Announced(current)
  /\ at = "reply" /\ processed[current] = "completed" => command[current] = "status"
  /\ \A e \in made :
       /\ e.type = "boot" => Announced(e.req)
       /\ e.type = "status_report" => command[e.req] = "status"

\* A status says which event it comes from, and an announced command keeps
\* one that comes from an event.
Settled ==
  \A r \in Requests :
    /\ Announced(r) => status[r] \in {"shutting_down", "completed", "rejected"}
    /\ status[r] = "rejected" => \E e \in made : e.req = r /\ e.type = "rejected"
    /\ status[r] = "shutting_down" =>
         \E e \in made : e.req = r /\ e.type = "shutdown_started"
    /\ status[r] = "completed" => command[r] = "status" \/ Announced(r)
    /\ ran[r] <= 1

\* As long as nothing has failed and nothing was run, an announcement is in
\* the hands of the agent, and on its own.
Calm == mishaps = 0 /\ \A q \in Requests : ran[q] = 0

Straight ==
  Calm =>
    /\ lateEvents = {}
    /\ machine = "up"
    /\ at = "announced" => outbox = {}
    /\ \A e \in made : e.type = "shutdown_started" =>
         /\ e.req = current
         /\ Announcing \/ at \in {"commit", "markExecuting", "systemctl"}
    /\ at = "note" => \A r \in Requests : status[r] # "shutting_down"

CInv ==
  /\ TypeOK
  /\ Working
  /\ NoEventLost
  /\ Prepared
  /\ Marked
  /\ Known
  /\ AnnouncedBeforeRun
  /\ Truth
  /\ Settled
  /\ Straight

-----------------------------------------------------------------------------
\* What the server's handlers do.

LEMMA EventStatus ==
  ASSUME NEW e \in Events
  PROVE  /\ StatusAfter[e.type] \in {"shutting_down", "completed", "rejected"}
         /\ StatusAfter[e.type] = "shutting_down" <=> e.type = "shutdown_started"
  BY DEF Events, EventTypes, StatusAfter

LEMMA RecordEffect ==
  ASSUME TypeOK, NEW e \in Events, RecordEvent(e)
  PROVE  /\ status' \in [Requests -> Statuses]
         /\ recorded' \subseteq Events \cup {AcceptedEvent(r) : r \in Requests}
         /\ \A r \in Requests : HandedOut(r) => HandedOut(r)'
  BY EventStatus DEF TypeOK, RecordEvent, Events, Statuses, HandedOut

LEMMA PollEffect ==
  ASSUME TypeOK, NEW reply \in Requests \cup {None}, HandlePoll(reply)
  PROVE  /\ status' \in [Requests -> Statuses]
         /\ recorded' \subseteq Events \cup {AcceptedEvent(r) : r \in Requests}
         /\ recorded \subseteq recorded'
         /\ \A e \in recorded' \ recorded : e.type = "accepted"
         /\ \A r \in Requests : HandedOut(r) => HandedOut(r)'
         /\ reply # None => reply \in Candidates({}) /\ HandedOut(reply)'
<1>1. reply # None => reply \in Candidates({})
  BY DEF HandlePoll, Candidates
<1>2. \A r \in Requests : status'[r] = CASE r \in Overdue -> "outcome_unknown"
                                         [] r = reply -> "accepted"
                                         [] OTHER -> status[r]
  BY DEF HandlePoll
<1>3. status' \in [Requests -> Statuses]
  BY DEF HandlePoll, TypeOK, Statuses, OpenStatuses
<1>4. /\ recorded \subseteq recorded'
      /\ recorded' \subseteq Events \cup {AcceptedEvent(r) : r \in Requests}
      /\ \A e \in recorded' \ recorded : e.type = "accepted"
  BY DEF HandlePoll, TypeOK, AcceptedEvent
<1>5. \A r \in Requests : HandedOut(r) => HandedOut(r)'
  BY <1>2 DEF HandedOut
<1>6. reply # None => HandedOut(reply)'
  BY <1>2 DEF HandedOut
<1> QED  BY <1>1, <1>3, <1>4, <1>5, <1>6

LEMMA EnqueueEffect ==
  ASSUME TypeOK, NEW r \in Requests, NEW type \in EventTypes, Enqueue(r, type)
  PROVE  \E e \in Events :
           /\ e.id = lastId + 1 /\ e.req = r /\ e.type = type
           /\ outbox' = outbox \cup {e}
           /\ made' = made \cup {e}
           /\ event' = e.id
           /\ lastId' = e.id
           /\ event' \in Nat
<1> DEFINE e == [id |-> lastId + 1, req |-> r, type |-> type]
<1>1. e \in Events
  BY DEF Events, TypeOK
<1>2. e.id = lastId + 1 /\ e.req = r /\ e.type = type /\ e.id \in Nat
  BY DEF TypeOK
<1> QED  BY <1>1, <1>2 DEF Enqueue

-----------------------------------------------------------------------------
\* Each part of the invariant, step by step.

LEMMA TypeStep ==
  ASSUME TypeOK, Working, [Next]_vars PROVE TypeOK'
<1> USE DEF TypeOK, Working, Busy, Undone, Announcing, Booting, Flushing,
     None, EventTypes, Statuses, OpenStatuses, ProcessedStates, Stages,
     ReturnPoints, Commands, vars, serverVars, progressVars, eventVars,
     processVars, lateVars, powerVars, ServerOnly, AgentOnly
<1>1. CASE QueueCommand
  BY <1>1 DEF QueueCommand
<1>2. ASSUME NEW r \in Requests, Expire(r) PROVE TypeOK'
  BY <1>2 DEF Expire
<1>3. CASE GoOffline
  BY <1>3 DEF GoOffline
<1>4. CASE LateEvent
  <2> PICK m \in lateEvents :
         RecordEvent(m.event) /\ lateEvents' = lateEvents \ {m}
    BY <1>4 DEF LateEvent
  <2>1. m.event \in Events
    OBVIOUS
  <2>2. /\ status' \in [Requests -> Statuses]
        /\ recorded' \subseteq Events \cup {AcceptedEvent(r) : r \in Requests}
    BY <2>1, RecordEffect
  <2> QED  BY <1>4, <2>1, <2>2 DEF LateEvent, RecordEvent
<1>5. CASE LatePoll
  <2> PICK reply \in Requests \cup {None} : HandlePoll(reply)
    BY <1>5 DEF LatePoll
  <2> QED  BY <1>5, PollEffect DEF LatePoll, HandlePoll
<1>6. CASE StartReport
  BY <1>6, EnqueueEffect DEF StartReport, Flush, Enqueue
<1>7. CASE NoteBootEvent
  BY <1>7 DEF NoteBootEvent, Flush
<1>8. CASE CheckBootSent
  BY <1>8 DEF CheckBootSent, Flush
<1>9. CASE ForgetBootEvent
  BY <1>9 DEF ForgetBootEvent, Flush
<1>10. CASE FlushDone
  BY <1>10 DEF FlushDone, Return, Flush
<1>11. CASE SendOldest
  <2> PICK e \in outbox : RecordEvent(e) /\ outbox' = outbox \ {e}
    BY <1>11 DEF SendOldest
  <2> QED  BY <1>11, RecordEffect DEF SendOldest, RecordEvent
<1>12. CASE Poll
  <2> PICK reply \in Requests \cup {None} :
         /\ HandlePoll(reply)
         /\ IF reply = None THEN Flush("poll") /\ UNCHANGED current
            ELSE at' = "execute" /\ current' = reply /\ UNCHANGED ret
    BY <1>12 DEF Poll
  <2> QED  BY <1>12, PollEffect DEF Poll, HandlePoll, Flush
<1>13. CASE ExecuteAgain
  BY <1>13 DEF ExecuteAgain, Flush
<1>14. CASE ExecuteAnswer
  BY <1>14 DEF ExecuteAnswer, Mark
<1>15. CASE Reply
  BY <1>15, EnqueueEffect DEF Reply, Flush, Enqueue
<1>16. CASE ExecutePower
  BY <1>16 DEF ExecutePower, Flush, Mark
<1>17. CASE Announce
  BY <1>17, EnqueueEffect DEF Announce, Enqueue
<1>18. CASE NotePrepared
  BY <1>18 DEF NotePrepared, Flush
<1>19. CASE CheckAnnounced
  BY <1>19 DEF CheckAnnounced, Flush, Mark
<1>20. CASE SetPendingBoot
  BY <1>20 DEF SetPendingBoot
<1>21. CASE MarkExecuting
  BY <1>21 DEF MarkExecuting, Mark
<1>22. CASE Systemctl
  BY <1>22 DEF Systemctl, Flush
<1>23. CASE SendUnanswered
  BY <1>23, ControlAssumption DEF SendUnanswered, Mishap, Return, Flush
<1>24. CASE PollUnanswered
  BY <1>24, ControlAssumption DEF PollUnanswered, Mishap, Flush
<1>25. CASE AgentCrash
  BY <1>25, ControlAssumption DEF AgentCrash, Mishap, Restarted
<1>26. CASE PowerDown
  BY <1>26 DEF PowerDown, GoDown
<1>27. CASE PowerCut
  BY <1>27, ControlAssumption DEF PowerCut, Mishap, GoDown
<1>28. CASE PowerOn
  BY <1>28, ControlAssumption DEF PowerOn, Restarted
<1>29. CASE UNCHANGED vars
  BY <1>29
<1>30. CASE SystemctlNotStarted
  BY <1>30, ControlAssumption DEF SystemctlNotStarted, Mishap, Flush
<1> QED
  BY <1>1, <1>2, <1>3, <1>4, <1>5, <1>6, <1>7, <1>8, <1>9, <1>10, <1>11,
       <1>12, <1>13, <1>14, <1>15, <1>16, <1>17, <1>18, <1>19, <1>20, <1>21,
       <1>22, <1>23, <1>24, <1>25, <1>26, <1>27, <1>28, <1>29, <1>30 DEF Next, AgentStep

LEMMA WorkingStep ==
  ASSUME TypeOK, Working, [Next]_vars PROVE Working'
<1> USE DEF Working, Busy, Undone, Announcing, Booting, Flushing, None, vars,
     serverVars, progressVars, eventVars, processVars, lateVars, powerVars,
     ServerOnly, AgentOnly
<1>1. CASE QueueCommand
  BY <1>1 DEF QueueCommand
<1>2. ASSUME NEW r \in Requests, Expire(r) PROVE Working'
  BY <1>2 DEF Expire
<1>3. CASE GoOffline
  BY <1>3 DEF GoOffline
<1>4. CASE LateEvent
  BY <1>4 DEF LateEvent
<1>5. CASE LatePoll
  BY <1>5 DEF LatePoll
<1>6. CASE StartReport
  BY <1>6 DEF StartReport, Flush, Enqueue, TypeOK
<1>7. CASE NoteBootEvent
  BY <1>7 DEF NoteBootEvent, Flush
<1>8. CASE CheckBootSent
  BY <1>8 DEF CheckBootSent, Flush
<1>9. CASE ForgetBootEvent
  BY <1>9 DEF ForgetBootEvent, Flush
<1>10. CASE FlushDone
  BY <1>10 DEF FlushDone, Return, Flush, ReturnPoints, TypeOK
<1>11. CASE SendOldest
  BY <1>11 DEF SendOldest
<1>12. CASE Poll
  BY <1>12 DEF Poll, Flush
<1>13. CASE ExecuteAgain
  BY <1>13 DEF ExecuteAgain, Flush
<1>14. CASE ExecuteAnswer
  BY <1>14 DEF ExecuteAnswer, Mark
<1>15. CASE Reply
  BY <1>15 DEF Reply, Flush, Enqueue
<1>16. CASE ExecutePower
  BY <1>16 DEF ExecutePower, Flush, Mark
<1>17. CASE Announce
  BY <1>17 DEF Announce, Enqueue
<1>18. CASE NotePrepared
  BY <1>18 DEF NotePrepared, Flush
<1>19. CASE CheckAnnounced
  BY <1>19 DEF CheckAnnounced, Flush, Mark
<1>20. CASE SetPendingBoot
  BY <1>20 DEF SetPendingBoot
<1>21. CASE MarkExecuting
  BY <1>21 DEF MarkExecuting, Mark
<1>22. CASE Systemctl
  BY <1>22 DEF Systemctl, Flush
<1>23. CASE SendUnanswered
  BY <1>23 DEF SendUnanswered, Mishap, Return, Flush, ReturnPoints, TypeOK
<1>24. CASE PollUnanswered
  BY <1>24 DEF PollUnanswered, Mishap, Flush
<1>25. CASE AgentCrash
  BY <1>25 DEF AgentCrash, Mishap, Restarted
<1>26. CASE PowerDown
  BY <1>26 DEF PowerDown, GoDown
<1>27. CASE PowerCut
  BY <1>27 DEF PowerCut, Mishap, GoDown
<1>28. CASE PowerOn
  BY <1>28 DEF PowerOn, Restarted
<1>29. CASE UNCHANGED vars
  BY <1>29
<1>30. CASE SystemctlNotStarted
  BY <1>30 DEF SystemctlNotStarted, Mishap, Flush
<1> QED
  BY <1>1, <1>2, <1>3, <1>4, <1>5, <1>6, <1>7, <1>8, <1>9, <1>10, <1>11,
       <1>12, <1>13, <1>14, <1>15, <1>16, <1>17, <1>18, <1>19, <1>20, <1>21,
       <1>22, <1>23, <1>24, <1>25, <1>26, <1>27, <1>28, <1>29, <1>30 DEF Next, AgentStep

LEMMA NoEventLostStep ==
  ASSUME NoEventLost, [Next]_vars PROVE NoEventLost'
<1> USE DEF NoEventLost, vars, serverVars, progressVars, eventVars,
     processVars, lateVars, powerVars, ServerOnly, AgentOnly
<1>1. CASE QueueCommand
  BY <1>1 DEF QueueCommand
<1>2. ASSUME NEW r \in Requests, Expire(r) PROVE NoEventLost'
  BY <1>2 DEF Expire
<1>3. CASE GoOffline
  BY <1>3 DEF GoOffline
<1>4. CASE LateEvent
  BY <1>4 DEF LateEvent, RecordEvent
<1>5. CASE LatePoll
  BY <1>5 DEF LatePoll, HandlePoll
<1>6. CASE StartReport
  BY <1>6 DEF StartReport, Flush, Enqueue
<1>7. CASE NoteBootEvent
  BY <1>7 DEF NoteBootEvent, Flush
<1>8. CASE CheckBootSent
  BY <1>8 DEF CheckBootSent, Flush
<1>9. CASE ForgetBootEvent
  BY <1>9 DEF ForgetBootEvent, Flush
<1>10. CASE FlushDone
  BY <1>10 DEF FlushDone, Return, Flush
<1>11. CASE SendOldest
  BY <1>11 DEF SendOldest, RecordEvent
<1>12. CASE Poll
  BY <1>12 DEF Poll, Flush, HandlePoll
<1>13. CASE ExecuteAgain
  BY <1>13 DEF ExecuteAgain, Flush
<1>14. CASE ExecuteAnswer
  BY <1>14 DEF ExecuteAnswer, Mark
<1>15. CASE Reply
  BY <1>15 DEF Reply, Flush, Enqueue
<1>16. CASE ExecutePower
  BY <1>16 DEF ExecutePower, Flush, Mark
<1>17. CASE Announce
  BY <1>17 DEF Announce, Enqueue
<1>18. CASE NotePrepared
  BY <1>18 DEF NotePrepared, Flush
<1>19. CASE CheckAnnounced
  BY <1>19 DEF CheckAnnounced, Flush, Mark
<1>20. CASE SetPendingBoot
  BY <1>20 DEF SetPendingBoot
<1>21. CASE MarkExecuting
  BY <1>21 DEF MarkExecuting, Mark
<1>22. CASE Systemctl
  BY <1>22 DEF Systemctl, Flush
<1>23. CASE SendUnanswered
  BY <1>23 DEF SendUnanswered, Mishap, Return, Flush
<1>24. CASE PollUnanswered
  BY <1>24 DEF PollUnanswered, Mishap, Flush
<1>25. CASE AgentCrash
  BY <1>25 DEF AgentCrash, Mishap, Restarted
<1>26. CASE PowerDown
  BY <1>26 DEF PowerDown, GoDown
<1>27. CASE PowerCut
  BY <1>27 DEF PowerCut, Mishap, GoDown
<1>28. CASE PowerOn
  BY <1>28 DEF PowerOn, Restarted
<1>29. CASE UNCHANGED vars
  BY <1>29
<1>30. CASE SystemctlNotStarted
  BY <1>30 DEF SystemctlNotStarted, Mishap, Flush
<1> QED
  BY <1>1, <1>2, <1>3, <1>4, <1>5, <1>6, <1>7, <1>8, <1>9, <1>10, <1>11,
       <1>12, <1>13, <1>14, <1>15, <1>16, <1>17, <1>18, <1>19, <1>20, <1>21,
       <1>22, <1>23, <1>24, <1>25, <1>26, <1>27, <1>28, <1>29, <1>30 DEF Next, AgentStep

LEMMA PreparedStep ==
  ASSUME TypeOK, Working, NoEventLost, Prepared, [Next]_vars PROVE Prepared'
<1> USE DEF Working, Prepared, Announcement, Announced, Busy, Undone,
     Announcing, Booting, Flushing, vars, serverVars, progressVars, eventVars,
     processVars, lateVars, powerVars, ServerOnly, AgentOnly
<1>1. CASE QueueCommand
  BY <1>1 DEF QueueCommand
<1>2. ASSUME NEW r \in Requests, Expire(r) PROVE Prepared'
  BY <1>2 DEF Expire
<1>3. CASE GoOffline
  BY <1>3 DEF GoOffline
<1>4. CASE LateEvent
  BY <1>4 DEF LateEvent, RecordEvent
<1>5. CASE LatePoll
  BY <1>5 DEF LatePoll, HandlePoll
<1>6. CASE StartReport
  BY <1>6 DEF StartReport, Flush, Enqueue, TypeOK
<1>7. CASE NoteBootEvent
  BY <1>7 DEF NoteBootEvent, Flush
<1>8. CASE CheckBootSent
  BY <1>8 DEF CheckBootSent, Flush
<1>9. CASE ForgetBootEvent
  BY <1>9 DEF ForgetBootEvent, Flush
<1>10. CASE FlushDone
  BY <1>10 DEF FlushDone, Return, Flush, TypeOK, ReturnPoints
<1>11. CASE SendOldest
  BY <1>11 DEF SendOldest, RecordEvent
<1>12. CASE Poll
  BY <1>12 DEF Poll, Flush, HandlePoll
<1>13. CASE ExecuteAgain
  BY <1>13 DEF ExecuteAgain, Flush
<1>14. CASE ExecuteAnswer
  BY <1>14 DEF ExecuteAnswer, Mark
<1>15. CASE Reply
  BY <1>15 DEF Reply, Flush, Enqueue
<1>16. CASE ExecutePower
  BY <1>16 DEF ExecutePower, Flush, Mark, TypeOK
<1>17. CASE Announce
  <2>1. PICK e \in Events :
           /\ e.req = current /\ e.type = "shutdown_started" /\ event' = e.id
           /\ made' = made \cup {e}
    BY <1>17, EnqueueEffect DEF Announce, EventTypes
  <2>2. Announcement(event, current)'
    BY <1>17, <2>1 DEF Announce
  <2> QED  BY <1>17, <2>1, <2>2 DEF Announce
<1>18. CASE NotePrepared
  BY <1>18 DEF NotePrepared, Flush, TypeOK
<1>19. CASE CheckAnnounced
  BY <1>19 DEF CheckAnnounced, Flush, Mark, NoEventLost, Unsent, TypeOK
<1>20. CASE SetPendingBoot
  BY <1>20 DEF SetPendingBoot
<1>21. CASE MarkExecuting
  BY <1>21 DEF MarkExecuting, Mark
<1>22. CASE Systemctl
  BY <1>22 DEF Systemctl, Flush
<1>23. CASE SendUnanswered
  BY <1>23 DEF SendUnanswered, Mishap, Return, Flush, TypeOK, ReturnPoints
<1>24. CASE PollUnanswered
  BY <1>24 DEF PollUnanswered, Mishap, Flush
<1>25. CASE AgentCrash
  BY <1>25 DEF AgentCrash, Mishap, Restarted
<1>26. CASE PowerDown
  BY <1>26 DEF PowerDown, GoDown
<1>27. CASE PowerCut
  BY <1>27 DEF PowerCut, Mishap, GoDown
<1>28. CASE PowerOn
  BY <1>28 DEF PowerOn, Restarted
<1>29. CASE UNCHANGED vars
  BY <1>29
<1>30. CASE SystemctlNotStarted
  BY <1>30 DEF SystemctlNotStarted, Mishap, Flush
<1> QED
  BY <1>1, <1>2, <1>3, <1>4, <1>5, <1>6, <1>7, <1>8, <1>9, <1>10, <1>11,
       <1>12, <1>13, <1>14, <1>15, <1>16, <1>17, <1>18, <1>19, <1>20, <1>21,
       <1>22, <1>23, <1>24, <1>25, <1>26, <1>27, <1>28, <1>29, <1>30 DEF Next, AgentStep

LEMMA MarkedStep ==
  ASSUME TypeOK, Working, Marked, [Next]_vars PROVE Marked'
<1> USE DEF Working, Marked, Done, Busy, Undone, Announcing, Booting,
     Flushing, vars, serverVars, progressVars, eventVars, processVars,
     lateVars, powerVars, ServerOnly, AgentOnly
<1>1. CASE QueueCommand
  BY <1>1 DEF QueueCommand
<1>2. ASSUME NEW r \in Requests, Expire(r) PROVE Marked'
  BY <1>2 DEF Expire
<1>3. CASE GoOffline
  BY <1>3 DEF GoOffline
<1>4. CASE LateEvent
  BY <1>4 DEF LateEvent
<1>5. CASE LatePoll
  BY <1>5 DEF LatePoll
<1>6. CASE StartReport
  BY <1>6 DEF StartReport, Flush, Enqueue, TypeOK
<1>7. CASE NoteBootEvent
  BY <1>7 DEF NoteBootEvent, Flush
<1>8. CASE CheckBootSent
  BY <1>8 DEF CheckBootSent, Flush
<1>9. CASE ForgetBootEvent
  BY <1>9 DEF ForgetBootEvent, Flush
<1>10. CASE FlushDone
  BY <1>10 DEF FlushDone, Return, Flush, TypeOK, ReturnPoints
<1>11. CASE SendOldest
  BY <1>11 DEF SendOldest
<1>12. CASE Poll
  BY <1>12 DEF Poll, Flush
<1>13. CASE ExecuteAgain
  BY <1>13 DEF ExecuteAgain, Flush
<1>14. CASE ExecuteAnswer
  BY <1>14 DEF ExecuteAnswer, Mark, TypeOK, Events
<1>15. CASE Reply
  BY <1>15 DEF Reply, Flush, Enqueue, TypeOK
<1>16. CASE ExecutePower
  BY <1>16 DEF ExecutePower, Flush, Mark, TypeOK, Events
<1>17. CASE Announce
  BY <1>17 DEF Announce, Enqueue, TypeOK
<1>18. CASE NotePrepared
  BY <1>18 DEF NotePrepared, Flush
<1>19. CASE CheckAnnounced
  BY <1>19 DEF CheckAnnounced, Flush, Mark, TypeOK, Events
<1>20. CASE SetPendingBoot
  BY <1>20 DEF SetPendingBoot
<1>21. CASE MarkExecuting
  BY <1>21 DEF MarkExecuting, Mark, TypeOK, Events
<1>22. CASE Systemctl
  BY <1>22 DEF Systemctl, Flush, TypeOK
<1>23. CASE SendUnanswered
  BY <1>23 DEF SendUnanswered, Mishap, Return, Flush, TypeOK, ReturnPoints
<1>24. CASE PollUnanswered
  BY <1>24 DEF PollUnanswered, Mishap, Flush
<1>25. CASE AgentCrash
  BY <1>25 DEF AgentCrash, Mishap, Restarted
<1>26. CASE PowerDown
  BY <1>26 DEF PowerDown, GoDown
<1>27. CASE PowerCut
  BY <1>27 DEF PowerCut, Mishap, GoDown
<1>28. CASE PowerOn
  BY <1>28 DEF PowerOn, Restarted
<1>29. CASE UNCHANGED vars
  BY <1>29
<1>30. CASE SystemctlNotStarted
  BY <1>30 DEF SystemctlNotStarted, Mishap, Flush
<1> QED
  BY <1>1, <1>2, <1>3, <1>4, <1>5, <1>6, <1>7, <1>8, <1>9, <1>10, <1>11,
       <1>12, <1>13, <1>14, <1>15, <1>16, <1>17, <1>18, <1>19, <1>20, <1>21,
       <1>22, <1>23, <1>24, <1>25, <1>26, <1>27, <1>28, <1>29, <1>30 DEF Next, AgentStep

LEMMA KnownStep ==
  ASSUME TypeOK, Working, Known, [Next]_vars PROVE Known'
<1> USE DEF Working, Known, Busy, Undone, Announcing, Booting, Flushing, vars,
     serverVars, progressVars, eventVars, processVars, lateVars, powerVars,
     ServerOnly, AgentOnly
<1>1. CASE QueueCommand
  <2>1. \A r \in Requests : HandedOut(r) => HandedOut(r)'
    BY <1>1 DEF QueueCommand, HandedOut, TypeOK
  <2> QED  BY <1>1, <2>1 DEF QueueCommand, TypeOK, Events
<1>2. ASSUME NEW r \in Requests, Expire(r) PROVE Known'
  BY <1>2 DEF Expire, HandedOut
<1>3. CASE GoOffline
  BY <1>3 DEF GoOffline, HandedOut
<1>4. CASE LateEvent
  <2> PICK m \in lateEvents :
         RecordEvent(m.event) /\ lateEvents' = lateEvents \ {m}
    BY <1>4 DEF LateEvent
  <2>1. m.event \in Events
    BY DEF TypeOK
  <2>2. \A r \in Requests : HandedOut(r) => HandedOut(r)'
    BY <2>1, RecordEffect
  <2> QED  BY <1>4, <2>2 DEF LateEvent, TypeOK, Events
<1>5. CASE LatePoll
  <2> PICK reply \in Requests \cup {None} : HandlePoll(reply)
    BY <1>5 DEF LatePoll
  <2>1. \A r \in Requests : HandedOut(r) => HandedOut(r)'
    BY PollEffect
  <2> QED  BY <1>5, <2>1 DEF LatePoll, TypeOK, Events
<1>6. CASE StartReport
  BY <1>6 DEF StartReport, Flush, Enqueue, HandedOut, TypeOK
<1>7. CASE NoteBootEvent
  BY <1>7 DEF NoteBootEvent, Flush, HandedOut
<1>8. CASE CheckBootSent
  BY <1>8 DEF CheckBootSent, Flush, HandedOut
<1>9. CASE ForgetBootEvent
  BY <1>9 DEF ForgetBootEvent, Flush, HandedOut
<1>10. CASE FlushDone
  BY <1>10 DEF FlushDone, Return, Flush, TypeOK, ReturnPoints, HandedOut
<1>11. CASE SendOldest
  <2> PICK e \in outbox : RecordEvent(e) /\ outbox' = outbox \ {e}
    BY <1>11 DEF SendOldest
  <2>1. e \in Events /\ \A r \in Requests : HandedOut(r) => HandedOut(r)'
    BY RecordEffect DEF TypeOK
  <2> QED  BY <1>11, <2>1 DEF SendOldest, TypeOK, Events
<1>12. CASE Poll
  <2> PICK reply \in Requests \cup {None} :
         /\ HandlePoll(reply)
         /\ IF reply = None THEN Flush("poll") /\ UNCHANGED current
            ELSE at' = "execute" /\ current' = reply /\ UNCHANGED ret
    BY <1>12 DEF Poll
  <2>1. /\ \A r \in Requests : HandedOut(r) => HandedOut(r)'
        /\ reply # None => HandedOut(reply)'
    BY PollEffect
  <2> QED  BY <1>12, <2>1 DEF Poll, Flush, TypeOK, Events
<1>13. CASE ExecuteAgain
  BY <1>13 DEF ExecuteAgain, Flush, HandedOut
<1>14. CASE ExecuteAnswer
  BY <1>14 DEF ExecuteAnswer, Mark, HandedOut
<1>15. CASE Reply
  BY <1>15 DEF Reply, Flush, Enqueue, HandedOut
<1>16. CASE ExecutePower
  BY <1>16 DEF ExecutePower, Flush, Mark, HandedOut
<1>17. CASE Announce
  BY <1>17 DEF Announce, Enqueue, HandedOut
<1>18. CASE NotePrepared
  BY <1>18 DEF NotePrepared, Flush, HandedOut
<1>19. CASE CheckAnnounced
  BY <1>19 DEF CheckAnnounced, Flush, Mark, HandedOut
<1>20. CASE SetPendingBoot
  BY <1>20 DEF SetPendingBoot, HandedOut
<1>21. CASE MarkExecuting
  BY <1>21 DEF MarkExecuting, Mark, HandedOut
<1>22. CASE Systemctl
  BY <1>22 DEF Systemctl, Flush, HandedOut
<1>23. CASE SendUnanswered
  BY <1>23 DEF SendUnanswered, Mishap, Return, Flush, TypeOK, ReturnPoints,
       HandedOut
<1>24. CASE PollUnanswered
  BY <1>24 DEF PollUnanswered, Mishap, Flush, HandedOut
<1>25. CASE AgentCrash
  BY <1>25 DEF AgentCrash, Mishap, Restarted, HandedOut
<1>26. CASE PowerDown
  BY <1>26 DEF PowerDown, GoDown, HandedOut
<1>27. CASE PowerCut
  BY <1>27 DEF PowerCut, Mishap, GoDown, HandedOut
<1>28. CASE PowerOn
  BY <1>28 DEF PowerOn, Restarted, HandedOut
<1>29. CASE UNCHANGED vars
  BY <1>29 DEF HandedOut
<1>30. CASE SystemctlNotStarted
  BY <1>30 DEF SystemctlNotStarted, Mishap, Flush, HandedOut
<1> QED
  BY <1>1, <1>2, <1>3, <1>4, <1>5, <1>6, <1>7, <1>8, <1>9, <1>10, <1>11,
       <1>12, <1>13, <1>14, <1>15, <1>16, <1>17, <1>18, <1>19, <1>20, <1>21,
       <1>22, <1>23, <1>24, <1>25, <1>26, <1>27, <1>28, <1>29, <1>30 DEF Next, AgentStep

LEMMA AnnouncedStep ==
  ASSUME TypeOK, Working, Prepared, AnnouncedBeforeRun, [Next]_vars PROVE AnnouncedBeforeRun'
<1> USE DEF Working, Prepared, AnnouncedBeforeRun, Busy, Undone, Announcing,
     Booting, Flushing, vars, serverVars, progressVars, eventVars,
     processVars, lateVars, powerVars, ServerOnly, AgentOnly
<1>1. CASE QueueCommand
  BY <1>1 DEF QueueCommand
<1>2. ASSUME NEW r \in Requests, Expire(r) PROVE AnnouncedBeforeRun'
  BY <1>2 DEF Expire
<1>3. CASE GoOffline
  BY <1>3 DEF GoOffline
<1>4. CASE LateEvent
  BY <1>4 DEF LateEvent, RecordEvent
<1>5. CASE LatePoll
  BY <1>5 DEF LatePoll, HandlePoll
<1>6. CASE StartReport
  BY <1>6 DEF StartReport, Flush
<1>7. CASE NoteBootEvent
  BY <1>7 DEF NoteBootEvent, Flush
<1>8. CASE CheckBootSent
  BY <1>8 DEF CheckBootSent, Flush
<1>9. CASE ForgetBootEvent
  BY <1>9 DEF ForgetBootEvent, Flush
<1>10. CASE FlushDone
  BY <1>10 DEF FlushDone, Return, Flush
<1>11. CASE SendOldest
  BY <1>11 DEF SendOldest, RecordEvent
<1>12. CASE Poll
  BY <1>12 DEF Poll, Flush, HandlePoll
<1>13. CASE ExecuteAgain
  BY <1>13 DEF ExecuteAgain, Flush
<1>14. CASE ExecuteAnswer
  BY <1>14 DEF ExecuteAnswer, Mark
<1>15. CASE Reply
  BY <1>15 DEF Reply, Flush
<1>16. CASE ExecutePower
  BY <1>16 DEF ExecutePower, Flush, Mark
<1>17. CASE Announce
  BY <1>17 DEF Announce
<1>18. CASE NotePrepared
  BY <1>18 DEF NotePrepared, Flush
<1>19. CASE CheckAnnounced
  BY <1>19 DEF CheckAnnounced, Flush, Mark
<1>20. CASE SetPendingBoot
  BY <1>20 DEF SetPendingBoot
<1>21. CASE MarkExecuting
  BY <1>21 DEF MarkExecuting, Mark
<1>22. CASE Systemctl
  <2>1. Announced(current) /\ current \in Requests
    BY <1>22 DEF Systemctl
  <2>2. \A r \in Requests : ran'[r] > 0 => r = current \/ ran[r] > 0
    BY <1>22 DEF Systemctl, TypeOK
  <2> QED  BY <1>22, <2>1, <2>2 DEF Systemctl, Announced
<1>23. CASE SendUnanswered
  BY <1>23 DEF SendUnanswered, Mishap, Return, Flush
<1>24. CASE PollUnanswered
  BY <1>24 DEF PollUnanswered, Mishap, Flush
<1>25. CASE AgentCrash
  BY <1>25 DEF AgentCrash, Mishap, Restarted
<1>26. CASE PowerDown
  BY <1>26 DEF PowerDown, GoDown
<1>27. CASE PowerCut
  BY <1>27 DEF PowerCut, Mishap, GoDown
<1>28. CASE PowerOn
  BY <1>28 DEF PowerOn, Restarted
<1>29. CASE UNCHANGED vars
  BY <1>29
<1>30. CASE SystemctlNotStarted
  BY <1>30 DEF SystemctlNotStarted, Mishap, Flush
<1> QED
  BY <1>1, <1>2, <1>3, <1>4, <1>5, <1>6, <1>7, <1>8, <1>9, <1>10, <1>11,
       <1>12, <1>13, <1>14, <1>15, <1>16, <1>17, <1>18, <1>19, <1>20, <1>21,
       <1>22, <1>23, <1>24, <1>25, <1>26, <1>27, <1>28, <1>29, <1>30 DEF Next, AgentStep

LEMMA TruthStep ==
  ASSUME TypeOK, Working, Prepared, Known, Truth, [Next]_vars PROVE Truth'
<1> USE DEF Working, Prepared, Known, Truth, Announced, Busy, Undone,
     Announcing, Booting, Flushing, vars, serverVars, progressVars, eventVars,
     processVars, lateVars, powerVars, ServerOnly, AgentOnly
<1>1. CASE QueueCommand
  BY <1>1 DEF QueueCommand, TypeOK, HandedOut, Events
<1>2. ASSUME NEW r \in Requests, Expire(r) PROVE Truth'
  BY <1>2 DEF Expire
<1>3. CASE GoOffline
  BY <1>3 DEF GoOffline
<1>4. CASE LateEvent
  BY <1>4 DEF LateEvent, RecordEvent
<1>5. CASE LatePoll
  BY <1>5 DEF LatePoll, HandlePoll, Candidates
<1>6. CASE StartReport
  BY <1>6 DEF StartReport, Flush, Enqueue, Enqueue, TypeOK
<1>7. CASE NoteBootEvent
  BY <1>7 DEF NoteBootEvent, Flush
<1>8. CASE CheckBootSent
  BY <1>8 DEF CheckBootSent, Flush
<1>9. CASE ForgetBootEvent
  BY <1>9 DEF ForgetBootEvent, Flush
<1>10. CASE FlushDone
  BY <1>10 DEF FlushDone, Return, Flush, TypeOK, ReturnPoints
<1>11. CASE SendOldest
  BY <1>11 DEF SendOldest, RecordEvent
<1>12. CASE Poll
  BY <1>12 DEF Poll, Flush, HandlePoll, Candidates
<1>13. CASE ExecuteAgain
  BY <1>13 DEF ExecuteAgain, Flush
<1>14. CASE ExecuteAnswer
  BY <1>14 DEF ExecuteAnswer, Mark, TypeOK
<1>15. CASE Reply
  BY <1>15 DEF Reply, Flush, Enqueue, Enqueue, TypeOK
<1>16. CASE ExecutePower
  BY <1>16 DEF ExecutePower, Flush, Mark
<1>17. CASE Announce
  BY <1>17 DEF Announce, Enqueue, Enqueue, TypeOK
<1>18. CASE NotePrepared
  BY <1>18 DEF NotePrepared, Flush
<1>19. CASE CheckAnnounced
  BY <1>19 DEF CheckAnnounced, Flush, Mark
<1>20. CASE SetPendingBoot
  BY <1>20 DEF SetPendingBoot
<1>21. CASE MarkExecuting
  BY <1>21 DEF MarkExecuting, Mark
<1>22. CASE Systemctl
  BY <1>22 DEF Systemctl, Flush
<1>23. CASE SendUnanswered
  BY <1>23 DEF SendUnanswered, Mishap, Return, Flush, TypeOK, ReturnPoints
<1>24. CASE PollUnanswered
  BY <1>24 DEF PollUnanswered, Mishap, Flush
<1>25. CASE AgentCrash
  BY <1>25 DEF AgentCrash, Mishap, Restarted
<1>26. CASE PowerDown
  BY <1>26 DEF PowerDown, GoDown
<1>27. CASE PowerCut
  BY <1>27 DEF PowerCut, Mishap, GoDown
<1>28. CASE PowerOn
  BY <1>28 DEF PowerOn, Restarted
<1>29. CASE UNCHANGED vars
  BY <1>29
<1>30. CASE SystemctlNotStarted
  BY <1>30 DEF SystemctlNotStarted, Mishap, Flush
<1> QED
  BY <1>1, <1>2, <1>3, <1>4, <1>5, <1>6, <1>7, <1>8, <1>9, <1>10, <1>11,
       <1>12, <1>13, <1>14, <1>15, <1>16, <1>17, <1>18, <1>19, <1>20, <1>21,
       <1>22, <1>23, <1>24, <1>25, <1>26, <1>27, <1>28, <1>29, <1>30 DEF Next, AgentStep

LEMMA SettledByEvent ==
  ASSUME TypeOK, Known, Truth, Settled, NEW e \in made, RecordEvent(e),
         UNCHANGED <<made, ran>>
  PROVE  Settled'
<1> USE DEF Announced
<1>1. /\ e \in Events /\ e.req \in Requests /\ e.type \in EventTypes
      /\ HandedOut(e.req)
  BY DEF TypeOK, Known, Events
<1>2. SUFFICES ASSUME NEW r \in Requests
      PROVE  /\ Announced(r)' => status'[r] \in {"shutting_down", "completed", "rejected"}
             /\ status'[r] = "rejected" => \E f \in made : f.req = r /\ f.type = "rejected"
             /\ status'[r] = "shutting_down" =>
                  \E f \in made : f.req = r /\ f.type = "shutdown_started"
             /\ status'[r] = "completed" => command[r] = "status" \/ Announced(r)'
             /\ ran[r] <= 1
  BY DEF Settled, RecordEvent
<1>3. recorded' = recorded \cup {e}
  BY DEF RecordEvent
<1>4. CASE r = e.req
  <2>1. status'[r] = StatusAfter[e.type]
    BY <1>1, <1>4 DEF RecordEvent, TypeOK
  <2>2. /\ e.type = "shutdown_started" => status'[r] = "shutting_down"
        /\ e.type = "rejected" => status'[r] = "rejected"
        /\ e.type \in {"boot", "status_report"} => status'[r] = "completed"
    BY <1>1, <2>1 DEF StatusAfter, EventTypes
  <2>3. e.type \in {"boot", "status_report"} => command[r] = "status" \/ Announced(r)
    BY <1>4 DEF Truth
  <2> QED  BY <1>1, <1>3, <1>4, <2>2, <2>3 DEF EventTypes, Settled
<1>5. CASE r # e.req
  <2>1. status'[r] = status[r]
    BY <1>1, <1>5 DEF RecordEvent, TypeOK
  <2> QED  BY <1>3, <1>5, <2>1 DEF Settled
<1> QED  BY <1>4, <1>5

LEMMA SettledByPoll ==
  ASSUME TypeOK, Settled, NEW reply \in Requests \cup {None},
         HandlePoll(reply), UNCHANGED <<made, ran>>
  PROVE  Settled'
<1>1. \A r \in Requests : Announced(r)' <=> Announced(r)
  BY PollEffect DEF Announced
<1>2. \A r \in Requests :
         \/ status'[r] = status[r]
         \/ status[r] \in OpenStatuses /\ status'[r] \in {"accepted", "outcome_unknown"}
  <2>1. \A r \in Requests : r = reply => status[r] \in OpenStatuses
    BY PollEffect DEF Candidates, Requests, None
  <2>2. \A r \in Overdue : status[r] \in OpenStatuses
    BY DEF Overdue
  <2> QED  BY <2>1, <2>2 DEF HandlePoll
<1>3. UNCHANGED command
  BY DEF HandlePoll
<1> QED  BY <1>1, <1>2, <1>3 DEF Settled, OpenStatuses

LEMMA SettledStep ==
  ASSUME TypeOK, Working, Prepared, Marked, Known, Truth, Settled, [Next]_vars PROVE Settled'
<1> USE DEF Working, Settled, Announced, Busy, Undone, Announcing, Booting,
     Flushing, vars, serverVars, progressVars, eventVars, processVars,
     lateVars, powerVars, ServerOnly, AgentOnly
<1>1. CASE QueueCommand
  BY <1>1 DEF QueueCommand, TypeOK
<1>2. ASSUME NEW r \in Requests, Expire(r) PROVE Settled'
  BY <1>2 DEF Expire
<1>3. CASE GoOffline
  BY <1>3 DEF GoOffline
<1>4. CASE LateEvent
  BY <1>4, SettledByEvent DEF LateEvent, Known
<1>5. CASE LatePoll
  BY <1>5, SettledByPoll DEF LatePoll
<1>6. CASE StartReport
  BY <1>6 DEF StartReport, Flush, Enqueue
<1>7. CASE NoteBootEvent
  BY <1>7 DEF NoteBootEvent, Flush
<1>8. CASE CheckBootSent
  BY <1>8 DEF CheckBootSent, Flush
<1>9. CASE ForgetBootEvent
  BY <1>9 DEF ForgetBootEvent, Flush
<1>10. CASE FlushDone
  BY <1>10 DEF FlushDone, Return, Flush
<1>11. CASE SendOldest
  BY <1>11, SettledByEvent DEF SendOldest, Known
<1>12. CASE Poll
  BY <1>12, SettledByPoll DEF Poll
<1>13. CASE ExecuteAgain
  BY <1>13 DEF ExecuteAgain, Flush
<1>14. CASE ExecuteAnswer
  BY <1>14 DEF ExecuteAnswer, Mark
<1>15. CASE Reply
  BY <1>15 DEF Reply, Flush, Enqueue
<1>16. CASE ExecutePower
  BY <1>16 DEF ExecutePower, Flush, Mark
<1>17. CASE Announce
  BY <1>17 DEF Announce, Enqueue
<1>18. CASE NotePrepared
  BY <1>18 DEF NotePrepared, Flush
<1>19. CASE CheckAnnounced
  BY <1>19 DEF CheckAnnounced, Flush, Mark
<1>20. CASE SetPendingBoot
  BY <1>20 DEF SetPendingBoot
<1>21. CASE MarkExecuting
  BY <1>21 DEF MarkExecuting, Mark
<1>22. CASE Systemctl
  BY <1>22 DEF Systemctl, Flush, Marked, TypeOK
<1>23. CASE SendUnanswered
  BY <1>23 DEF SendUnanswered, Mishap, Return, Flush
<1>24. CASE PollUnanswered
  BY <1>24 DEF PollUnanswered, Mishap, Flush
<1>25. CASE AgentCrash
  BY <1>25 DEF AgentCrash, Mishap, Restarted
<1>26. CASE PowerDown
  BY <1>26 DEF PowerDown, GoDown
<1>27. CASE PowerCut
  BY <1>27 DEF PowerCut, Mishap, GoDown
<1>28. CASE PowerOn
  BY <1>28 DEF PowerOn, Restarted
<1>29. CASE UNCHANGED vars
  BY <1>29
<1>30. CASE SystemctlNotStarted
  BY <1>30 DEF SystemctlNotStarted, Mishap, Flush
<1> QED
  BY <1>1, <1>2, <1>3, <1>4, <1>5, <1>6, <1>7, <1>8, <1>9, <1>10, <1>11,
       <1>12, <1>13, <1>14, <1>15, <1>16, <1>17, <1>18, <1>19, <1>20, <1>21,
       <1>22, <1>23, <1>24, <1>25, <1>26, <1>27, <1>28, <1>29, <1>30 DEF Next, AgentStep

LEMMA StraightStep ==
  ASSUME TypeOK, Working, Prepared, Settled, Straight, [Next]_vars PROVE Straight'
<1> USE DEF Straight, Calm, Announcing, Flushing, vars, serverVars,
     progressVars, eventVars, processVars, lateVars, powerVars, ServerOnly,
     AgentOnly
<1>1. CASE QueueCommand
  BY <1>1 DEF QueueCommand
<1>2. ASSUME NEW r \in Requests, Expire(r) PROVE Straight'
  BY <1>2 DEF Expire
<1>3. CASE GoOffline
  BY <1>3 DEF GoOffline
<1>4. CASE LateEvent
  BY <1>4 DEF LateEvent, RecordEvent
<1>5. CASE LatePoll
  BY <1>5 DEF LatePoll, HandlePoll, Candidates
<1>6. CASE StartReport
  BY <1>6 DEF StartReport, Flush, Enqueue
<1>7. CASE NoteBootEvent
  BY <1>7 DEF NoteBootEvent, Flush
<1>8. CASE CheckBootSent
  BY <1>8 DEF CheckBootSent, Flush
<1>9. CASE ForgetBootEvent
  BY <1>9 DEF ForgetBootEvent, Flush
<1>10. CASE FlushDone
  BY <1>10 DEF FlushDone, Return, Flush, TypeOK, ReturnPoints
<1>11. CASE SendOldest
  BY <1>11 DEF SendOldest, RecordEvent
<1>12. CASE Poll
  BY <1>12 DEF Poll, Flush, HandlePoll, Candidates
<1>13. CASE ExecuteAgain
  BY <1>13 DEF ExecuteAgain, Flush
<1>14. CASE ExecuteAnswer
  BY <1>14 DEF ExecuteAnswer, Mark
<1>15. CASE Reply
  BY <1>15 DEF Reply, Flush, Enqueue
<1>16. CASE ExecutePower
  BY <1>16 DEF ExecutePower, Flush, Mark
<1>17. CASE Announce
  <2>1. PICK e \in Events :
           e.req = current /\ e.type = "shutdown_started" /\ made' = made \cup {e}
    BY <1>17, EnqueueEffect DEF Announce, EventTypes, Working, Busy, Undone
  <2>2. Calm => \A r \in Requests : status[r] # "shutting_down"
    BY <1>17 DEF Announce, Settled
  <2> QED  BY <1>17, <2>1, <2>2 DEF Announce
<1>18. CASE NotePrepared
  BY <1>18 DEF NotePrepared, Flush
<1>19. CASE CheckAnnounced
  BY <1>19 DEF CheckAnnounced, Flush, Mark, Unsent
<1>20. CASE SetPendingBoot
  BY <1>20 DEF SetPendingBoot
<1>21. CASE MarkExecuting
  BY <1>21 DEF MarkExecuting, Mark
<1>22. CASE Systemctl
  <2>1. ran'[current] > 0 /\ current \in Requests
    BY <1>22 DEF Systemctl, TypeOK, Working, Busy
  <2> QED  BY <2>1
<1>23. CASE SendUnanswered
  <2>1. mishaps' # 0
    BY <1>23, ControlAssumption DEF SendUnanswered, Mishap, TypeOK
  <2> QED  BY <2>1
<1>24. CASE PollUnanswered
  <2>1. mishaps' # 0
    BY <1>24, ControlAssumption DEF PollUnanswered, Mishap, TypeOK
  <2> QED  BY <2>1
<1>25. CASE AgentCrash
  <2>1. mishaps' # 0
    BY <1>25, ControlAssumption DEF AgentCrash, Mishap, TypeOK
  <2> QED  BY <2>1
<1>26. CASE PowerDown
  BY <1>26 DEF PowerDown, GoDown
<1>27. CASE PowerCut
  <2>1. mishaps' # 0
    BY <1>27, ControlAssumption DEF PowerCut, Mishap, TypeOK
  <2> QED  BY <2>1
<1>28. CASE PowerOn
  BY <1>28 DEF PowerOn, Restarted
<1>29. CASE UNCHANGED vars
  BY <1>29
<1>30. CASE SystemctlNotStarted
  <2>1. mishaps' # 0
    BY <1>30, ControlAssumption DEF SystemctlNotStarted, Mishap, TypeOK
  <2> QED  BY <2>1
<1> QED
  BY <1>1, <1>2, <1>3, <1>4, <1>5, <1>6, <1>7, <1>8, <1>9, <1>10, <1>11,
       <1>12, <1>13, <1>14, <1>15, <1>16, <1>17, <1>18, <1>19, <1>20, <1>21,
       <1>22, <1>23, <1>24, <1>25, <1>26, <1>27, <1>28, <1>29, <1>30 DEF Next, AgentStep

-----------------------------------------------------------------------------
\* The invariant and the theorems that follow from it.

LEMMA CInvInit ==
  ASSUME Init PROVE CInv
<1>1. TypeOK
  <2>1. /\ command \in [Requests -> Commands \cup {"none"}]
        /\ status \in [Requests -> Statuses]
        /\ processed \in [Requests -> ProcessedStates]
        /\ prepared \in [Requests -> Nat]
        /\ bootEvent \in [Requests -> Nat]
        /\ ran \in [Requests -> Nat]
    BY DEF Init, Statuses, ProcessedStates, None
  <2>2. dryRun \in BOOLEAN /\ mishaps \in 0..MaxMishaps
    BY ControlAssumption DEF Init
  <2>3. at \in Stages /\ ret \in ReturnPoints
    BY DEF Init, Stages, ReturnPoints
  <2> QED  BY <2>1, <2>2, <2>3 DEF Init, TypeOK, None
<1>2. Working /\ Prepared /\ Marked /\ Known
  BY DEF Init, Working, Prepared, Marked, Known, Busy, Undone, Announcing,
     Booting, Flushing, None
<1>3. Truth /\ Settled /\ Straight
  BY DEF Init, Truth, Settled, Straight, Announced, Announcing, Booting,
     Flushing, None
<1> QED  BY <1>1, <1>2, <1>3 DEF Init, CInv, NoEventLost, AnnouncedBeforeRun

LEMMA CInvStep ==
  ASSUME CInv, [Next]_vars PROVE CInv'
  BY TypeStep, WorkingStep, NoEventLostStep, PreparedStep, MarkedStep, KnownStep,
     AnnouncedStep, TruthStep, SettledStep, StraightStep DEF CInv

LEMMA CInvariant == Spec => []CInv
  BY CInvInit, CInvStep, PTL DEF Spec

(* Every variable of server and agent keeps its type. *)
THEOREM ControlTypeCorrect == Spec => []TypeOK
<1>1. CInv => TypeOK
  BY DEF CInv
<1> QED  BY <1>1, CInvariant, PTL

(* Whatever crashes and whatever answers are lost: an event that was put in *)
(* the outbox is there or on the server.                                    *)
THEOREM ControlNoEventLost == Spec => []NoEventLost
<1>1. CInv => NoEventLost
  BY DEF CInv
<1> QED  BY <1>1, CInvariant, PTL

(* systemctl is never called for a command whose announcement the server   *)
(* does not have, however the events, their ids and the crashes interleave. *)
THEOREM ControlAnnouncedBeforeRun == Spec => []AnnouncedBeforeRun
<1>1. CInv => AnnouncedBeforeRun
  BY DEF CInv
<1> QED  BY <1>1, CInvariant, PTL

(* A command that was refused, in a dry run, is not run at any later time, *)
(* nor is one refused that was run.                                        *)
THEOREM ControlRefusedIsNotRun == Spec => []RefusedIsNotRun
<1>1. CInv => RefusedIsNotRun
  BY DEF CInv, Marked, RefusedIsNotRun, TypeOK, Events
<1> QED  BY <1>1, CInvariant, PTL

(* What the administrator reads of a command is true: it does not look open, *)
(* refused or unknown when the machine was touched, not completed when it    *)
(* was not announced, and going down while nothing is under way only after   *)
(* something failed or another command took the machine down.                *)
THEOREM ControlStatusTellsTruth == Spec => []StatusTellsTruth
<1>1. ASSUME CInv, NEW r \in Requests, ran[r] > 0
      PROVE  r \in OnRecord /\ status[r] \in {"shutting_down", "completed"}
  <2>1. Announced(r) /\ processed[r] = "executing"
    BY <1>1 DEF CInv, AnnouncedBeforeRun, Announced, Marked
  <2>2. status[r] # "rejected"
    BY <1>1, <2>1 DEF CInv, Settled, Marked
  <2> QED  BY <1>1, <2>1, <2>2 DEF CInv, Settled, Announced, OnRecord
<1>2. ASSUME CInv, NEW r \in Requests, status[r] = "completed"
      PROVE  command[r] = "status" \/ r \in OnRecord
  BY <1>2 DEF CInv, Settled, Announced, OnRecord
<1>3. ASSUME CInv, NEW r \in Requests, status[r] = "shutting_down", ran[r] = 0
      PROVE  InHand(r) \/ mishaps > 0 \/ \E q \in Requests : ran[q] > 0
  <2>1. Calm \/ mishaps > 0 \/ \E q \in Requests : ran[q] > 0
    BY <1>3, ControlAssumption DEF Calm, CInv, TypeOK
  <2>2. ASSUME Calm PROVE InHand(r)
    <3>1. \E e \in made : e.req = r /\ e.type = "shutdown_started"
      BY <1>3 DEF CInv, Settled
    <3>2. /\ r = current
          /\ Announcing \/ at \in {"commit", "markExecuting", "systemctl"}
          /\ at # "note"
      BY <1>3, <2>2, <3>1 DEF CInv, Straight
    <3> QED  BY <3>2 DEF InHand, Announcing, Flushing
  <2> QED  BY <2>1, <2>2
<1>4. CInv => StatusTellsTruth
  BY <1>1, <1>2, <1>3 DEF StatusTellsTruth
<1> QED  BY <1>4, CInvariant, PTL

(* systemctl is accepted at most once for a command, however often the     *)
(* command is handed out and whatever the agent forgets in a crash.        *)
THEOREM ControlRunsOnce == Spec => [](\A r \in Requests : ran[r] <= 1)
<1>1. CInv => \A r \in Requests : ran[r] <= 1
  BY DEF CInv, Settled
<1> QED  BY <1>1, CInvariant, PTL

-----------------------------------------------------------------------------
\* Server and agent implement the contract.

LEMMA ContractInit ==
  ASSUME Init PROVE Contract!Init
  BY DEF Init, Contract!Init, OnRecord

\* An event that reaches the server is an answer to a command handed out.
LEMMA AnswerStep ==
  ASSUME CInv, NEW e \in made, RecordEvent(e), UNCHANGED ran
  PROVE  Contract!Next
<1>1. e \in Events /\ e.req \in Requests /\ HandedOut(e.req)
  BY DEF CInv, TypeOK, Known, Events
<1>2. StatusAfter[e.type] \in Contract!Answers
  BY <1>1, EventStatus DEF Contract!Answers
<1>3. status' = [status EXCEPT ![e.req] = StatusAfter[e.type]]
  BY DEF RecordEvent
<1>4. OnRecord' = IF StatusAfter[e.type] = "shutting_down"
                  THEN OnRecord \cup {e.req} ELSE OnRecord
  BY <1>1, EventStatus DEF OnRecord, RecordEvent
<1>5. Contract!Answer(e.req, StatusAfter[e.type])
  BY <1>1, <1>3, <1>4 DEF Contract!Answer, HandedOut
<1> QED  BY <1>1, <1>2, <1>5 DEF Contract!Next

\* A poll gives up what is overdue and hands out at most one open command.
LEMMA OfferStep ==
  ASSUME TypeOK, NEW reply \in Requests \cup {None}, HandlePoll(reply),
         UNCHANGED ran
  PROVE  Contract!Next
<1> DEFINE offered == {reply} \ {None}
<1>1. Overdue \in SUBSET Requests /\ offered \in SUBSET Requests
  BY DEF Overdue, TypeOK
<1>2. \A r \in Overdue \cup offered : status[r] \in Contract!Open
  BY PollEffect DEF Overdue, Candidates, OpenStatuses, Contract!Open
<1>3. \A r \in Requests : r = reply <=> r \in offered
  BY DEF Requests, None
<1>4. status' = [r \in Requests |-> CASE r \in Overdue -> "outcome_unknown"
                                      [] r \in offered -> "accepted"
                                      [] OTHER -> status[r]]
  BY <1>3 DEF HandlePoll
<1>5. OnRecord' = OnRecord
  BY PollEffect DEF OnRecord
<1>6. Contract!Offer(Overdue, offered)
  BY <1>2, <1>4, <1>5 DEF Contract!Offer
<1> QED  BY <1>1, <1>6 DEF Contract!Next

LEMMA ContractStep ==
  ASSUME CInv, [Next]_vars
  PROVE  [Contract!Next]_(Contract!contractVars)
<1> USE DEF Contract!contractVars, vars, serverVars, powerVars, ServerOnly,
     AgentOnly
<1>1. CASE QueueCommand
  <2> PICK r \in Requests, c \in Commands :
         /\ status[r] = "absent"
         /\ status' = [status EXCEPT ![r] = "queued"]
    BY <1>1 DEF QueueCommand
  <2>1. Contract!Ask(r)
    BY <1>1 DEF QueueCommand, Contract!Ask, OnRecord
  <2> QED  BY <2>1 DEF Contract!Next
<1>2. CASE LateEvent
  BY <1>2, AnswerStep DEF LateEvent, CInv, Known
<1>3. CASE LatePoll
  BY <1>3, OfferStep DEF LatePoll, CInv
<1>4. CASE SendOldest
  BY <1>4, AnswerStep DEF SendOldest, CInv, Known
<1>5. CASE Poll
  BY <1>5, OfferStep DEF Poll, CInv
<1>6. CASE Systemctl
  <2>1. current \in Requests /\ ran[current] = 0 /\ Announced(current)
    BY <1>6 DEF Systemctl, CInv, Working, Busy, Marked, Prepared
  <2>2. current \in OnRecord
    BY <2>1 DEF OnRecord, Announced
  <2>3. ran' = [ran EXCEPT ![current] = 1]
    BY <1>6, <2>1 DEF Systemctl
  <2>4. Contract!Run(current)
    BY <1>6, <2>1, <2>2, <2>3 DEF Systemctl, Contract!Run, OnRecord
  <2> QED  BY <2>1, <2>4 DEF Contract!Next
<1>7. CASE \/ \E r \in Requests : Expire(r)
           \/ GoOffline
           \/ StartReport \/ NoteBootEvent \/ CheckBootSent \/ ForgetBootEvent
           \/ FlushDone
           \/ ExecuteAgain \/ ExecuteAnswer \/ Reply
           \/ ExecutePower \/ Announce \/ NotePrepared \/ CheckAnnounced
           \/ SetPendingBoot \/ MarkExecuting
           \/ SendUnanswered \/ PollUnanswered \/ SystemctlNotStarted
           \/ AgentCrash \/ PowerDown \/ PowerCut \/ PowerOn
           \/ UNCHANGED vars
  <2>1. UNCHANGED <<status, recorded, ran>>
    BY <1>7 DEF Expire, GoOffline, StartReport, NoteBootEvent, CheckBootSent,
       ForgetBootEvent, FlushDone, ExecuteAgain, ExecuteAnswer, Reply,
       ExecutePower, Announce, NotePrepared, CheckAnnounced, SetPendingBoot,
       MarkExecuting, SendUnanswered, PollUnanswered, SystemctlNotStarted,
       AgentCrash, PowerDown, PowerCut, PowerOn, GoDown
  <2> QED  BY <2>1 DEF OnRecord
<1> QED
  BY <1>1, <1>2, <1>3, <1>4, <1>5, <1>6, <1>7 DEF Next, AgentStep

(* Server and agent together are a correct implementation of the contract: *)
(* answers only to commands handed out, no command back in the queue, at   *)
(* most one run, and that announced.                                       *)
THEOREM ControlImplementsContract == Spec => ImplementsContract
<1>1. Init => Contract!Init
  BY ContractInit
<1>2. CInv /\ [Next]_vars => [Contract!Next]_(Contract!contractVars)
  BY ContractStep
<1> QED  BY <1>1, <1>2, CInvariant, PTL
  DEF Spec, ImplementsContract, Contract!Spec

\* The promises of the contract follow from its specification alone.
LEMMA ContractPromises ==
  Contract!Spec => []Contract!OnceAndOnRecord /\ Contract!NoReturn
<1> DEFINE Typed ==
      /\ DOMAIN status = Requests /\ DOMAIN ran = Requests
      /\ \A r \in Requests : ran[r] \in {0, 1}
<1> DEFINE Kept ==
      \A r \in Requests :
        /\ status[r] \notin Contract!Open \cup {"absent"}
             => status'[r] \notin Contract!Open \cup {"absent"}
        /\ status[r] = "accepted" => status'[r] # "queued"
        /\ r \in OnRecord => r \in OnRecord'
        /\ ran[r] <= ran'[r]
<1>1. Contract!Init => Typed /\ Contract!OnceAndOnRecord
  BY DEF Contract!Init, Contract!OnceAndOnRecord
<1>2. ASSUME Typed, Contract!OnceAndOnRecord, Contract!Next
      PROVE  Typed' /\ Contract!OnceAndOnRecord' /\ Kept
  <2>1. ASSUME NEW r \in Requests, Contract!Ask(r) PROVE Typed' /\ Contract!OnceAndOnRecord' /\ Kept
    BY <1>2, <2>1 DEF Contract!Ask, Contract!OnceAndOnRecord, Contract!Open,
       Contract!Answers
  <2>2. ASSUME NEW r \in Requests, Contract!Run(r) PROVE Typed' /\ Contract!OnceAndOnRecord' /\ Kept
    BY <1>2, <2>2 DEF Contract!Run, Contract!OnceAndOnRecord
  <2>3. ASSUME NEW overdue \in SUBSET Requests, NEW offered \in SUBSET Requests,
               Contract!Offer(overdue, offered)
        PROVE  Typed' /\ Contract!OnceAndOnRecord' /\ Kept
    BY <1>2, <2>3 DEF Contract!Offer, Contract!OnceAndOnRecord, Contract!Open,
       Contract!Answers
  <2>4. ASSUME NEW r \in Requests, NEW s \in Contract!Answers, Contract!Answer(r, s)
        PROVE  Typed' /\ Contract!OnceAndOnRecord' /\ Kept
    BY <1>2, <2>4 DEF Contract!Answer, Contract!OnceAndOnRecord, Contract!Open,
       Contract!Answers
  <2>5. QED  BY <1>2, <2>1, <2>2, <2>3, <2>4 DEF Contract!Next
<1>3. ASSUME Typed, Contract!OnceAndOnRecord, UNCHANGED Contract!contractVars
      PROVE  Typed' /\ Contract!OnceAndOnRecord'
  BY <1>3 DEF Contract!OnceAndOnRecord, Contract!contractVars
<1> HIDE DEF Typed
<1>4. QED
  BY <1>1, <1>2, <1>3, PTL DEF Contract!Spec, Contract!NoReturn

(* Read off the contract: one run per command, of one that is on record as *)
(* going down; what was answered or given up is never handed out again;    *)
(* and no announcement and no run is taken back.                           *)
THEOREM ControlNothingTakenBack ==
  Spec => []Contract!OnceAndOnRecord /\ Contract!NoReturn
  BY ControlImplementsContract, ContractPromises, PTL DEF ImplementsContract
=============================================================================
