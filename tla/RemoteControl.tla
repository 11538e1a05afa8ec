---------------------------- MODULE RemoteControl ----------------------------
(***************************************************************************)
(* Remote control of one registered Pi: the web server's control_commands  *)
(* and control_events (ver3/database.py) and the agent on the Pi           *)
(* (ver3/control_agent.py), which polls for a command, keeps its progress  *)
(* and its unsent events in SQLite, and reboots or powers off its own      *)
(* machine.                                                                *)
(*                                                                         *)
(* Every commit of the agent is a step of its own, so the process can die  *)
(* between any two.  A request the agent stops waiting for may still be    *)
(* handled by the server, later.                                           *)
(***************************************************************************)
EXTENDS Naturals, FiniteSets

CONSTANTS
  MaxCommands,      \* bound on the commands administrators ask for
  MaxMishaps,       \* bound on crashes, power cuts and unanswered requests
  DryRunSettings    \* the values CONTROL_DRY_RUN is given at agent starts

ASSUME ControlAssumption ==
  /\ MaxCommands \in Nat
  /\ MaxMishaps \in Nat
  /\ DryRunSettings \subseteq BOOLEAN /\ DryRunSettings # {}

\* In the order of requested_at; 0 stands for "none".
Requests == 1..MaxCommands
None == 0

Commands == {"status", "restart", "shutdown"}
OpenStatuses == {"queued", "accepted"}
Statuses == {"absent", "shutting_down", "completed", "rejected",
             "outcome_unknown"} \cup OpenStatuses
EventTypes == {"status_report", "rejected", "shutdown_started", "boot"}
Events == [id : Nat, req : Requests, type : EventTypes]

\* The row a poll adds by itself: it has no client_event_id.
AcceptedEvent(r) == [id |-> None, req |-> r, type |-> "accepted"]

\* Mutant of StatusAfter: the schema's "offline_confirmed" is used.
StatusAfterOffline == [t \in EventTypes |->
  CASE t = "shutdown_started" -> "offline_confirmed"
    [] t = "rejected" -> "rejected"
    [] OTHER -> "completed"]

\* status_map of record_control_event, for the types the agent sends.
StatusAfter == [t \in EventTypes |->
  CASE t = "shutdown_started" -> "shutting_down"
    [] t = "rejected" -> "rejected"
    [] OTHER -> "completed"]

VARIABLES
  \* The server.
  command,      \* control_commands.command of a request that was made
  status,       \* control_commands.status, "absent" without a row
  expired,      \* the requests whose expires_at has passed
  recorded,     \* control_events
  online,       \* last_control_poll_at is less than 30 seconds old
  \* The agent's SQLite file.
  processed,    \* processed_commands.state, "none" without a row
  outbox,       \* unsent events; ORDER BY created_at is the order of ids
  pendingBoot,  \* metadata pending_boot_request_id
  prepared,     \* metadata prepared_event:<request>
  bootEvent,    \* metadata boot_event:<request>
  \* The agent's process and its machine.
  at,           \* where the agent is; "down" while there is no process
  ret,          \* where flush_outbox returns to
  current,      \* request_id in execute_command and report_pending_boot
  event,        \* event_id there
  dryRun,       \* DRY_RUN of this process
  machine,      \* "up", "going_down" once systemctl was accepted, or "off"
  \* Requests the agent has given up on, and history.
  lateEvents,   \* events that may still reach the server
  latePolls,    \* polls that may still reach the server
  mishaps,      \* bounded by MaxMishaps
  lastId,       \* events are numbered as they are made
  made,         \* history: every event that was put in the outbox
  ran,          \* history: how often systemctl was accepted for a request
  wentDown      \* history: requests whose machine went down while pending

serverVars == <<command, status, expired, recorded, online>>
progressVars == <<processed, pendingBoot, prepared, bootEvent>>
eventVars == <<outbox, lastId, made>>
processVars == <<at, ret, current, event, dryRun>>
lateVars == <<lateEvents, latePolls>>
powerVars == <<machine, ran, wentDown>>
vars == <<serverVars, progressVars, eventVars, processVars, lateVars,
          powerVars, mishaps>>

ProcessedStates == {"none", "completed", "dry_run_rejected", "prepared",
                    "waiting_for_server_ack", "executing"}
Stages == {"start", "bootNote", "bootCheck", "bootForget", "flush", "poll",
           "execute", "reply", "announce", "note", "announced", "commit",
           "markExecuting", "systemctl", "down"}
ReturnPoints == {"poll", "loop", "bootCheck", "announced"}

TypeOK ==
  /\ command \in [Requests -> Commands \cup {"none"}]
  /\ status \in [Requests -> Statuses]
  /\ expired \subseteq Requests
  /\ recorded \subseteq Events \cup {AcceptedEvent(r) : r \in Requests}
  /\ online \in BOOLEAN
  /\ processed \in [Requests -> ProcessedStates]
  /\ outbox \subseteq Events
  /\ pendingBoot \in Requests \cup {None}
  /\ prepared \in [Requests -> Nat]
  /\ bootEvent \in [Requests -> Nat]
  /\ at \in Stages
  /\ ret \in ReturnPoints
  /\ current \in Requests \cup {None}
  /\ event \in Nat
  /\ dryRun \in BOOLEAN
  /\ machine \in {"up", "going_down", "off"}
  /\ lateEvents \subseteq [copy : Nat, event : Events]
  /\ latePolls \in Nat
  /\ mishaps \in 0..MaxMishaps
  /\ lastId \in Nat
  /\ made \subseteq Events
  /\ ran \in [Requests -> Nat]
  /\ wentDown \subseteq Requests

Init ==
  /\ command = [r \in Requests |-> "none"]
  /\ status = [r \in Requests |-> "absent"]
  /\ expired = {}
  /\ recorded = {}
  /\ online = FALSE
  /\ processed = [r \in Requests |-> "none"]
  /\ outbox = {}
  /\ pendingBoot = None
  /\ prepared = [r \in Requests |-> None]
  /\ bootEvent = [r \in Requests |-> None]
  /\ at = "start"
  /\ ret = "poll"
  /\ current = None
  /\ event = None
  /\ dryRun \in DryRunSettings
  /\ machine = "up"
  /\ lateEvents = {}
  /\ latePolls = 0
  /\ mishaps = 0
  /\ lastId = 0
  /\ made = {}
  /\ ran = [r \in Requests |-> 0]
  /\ wentDown = {}

\* A step that only the server, or only the agent's process and file, takes
\* part in.
ServerOnly ==
  UNCHANGED <<progressVars, eventVars, processVars, powerVars, mishaps>>

AgentOnly ==
  UNCHANGED <<serverVars, dryRun, lateVars, powerVars, mishaps>>

Mishap == mishaps < MaxMishaps /\ mishaps' = mishaps + 1

-----------------------------------------------------------------------------
\* The server.  Each operation is one transaction, under the lock of the
\* device's row or of the command's row.

\* An administrator's request, taken only while the Pi is online.
QueueCommand ==
  /\ online
  /\ \E r \in Requests, c \in Commands :
       /\ status[r] = "absent" /\ \A q \in 1..(r - 1) : status[q] # "absent"
       /\ command' = [command EXCEPT ![r] = c]
       /\ status' = [status EXCEPT ![r] = "queued"]
  /\ UNCHANGED <<expired, recorded, online, lateVars>>
  /\ ServerOnly

\* Time: a command's expires_at passes, or 30 seconds without a poll.
Expire(r) ==
  /\ status[r] # "absent" /\ r \notin expired
  /\ expired' = expired \cup {r}
  /\ UNCHANGED <<command, status, recorded, online, lateVars>>
  /\ ServerOnly

GoOffline ==
  /\ online
  /\ online' = FALSE
  /\ UNCHANGED <<command, status, expired, recorded, lateVars>>
  /\ ServerOnly

\* Mutants of Overdue: an accepted command is never given up; an answered one
\* is.
OverdueQueued == {r \in expired : status[r] = "queued"}
OverdueAny == expired

Overdue == {r \in expired : status[r] \in OpenStatuses}

\* What a poll may pick.  SKIP LOCKED: a command whose row another request
\* holds is passed over.
Candidates(locked) ==
  {r \in Requests \ (expired \cup locked) : status[r] \in OpenStatuses}

\* poll_control_command; reply is the request handed out, or None.
HandlePoll(reply) ==
  /\ \E locked \in SUBSET {m.event.req : m \in lateEvents} :
       IF Candidates(locked) = {} THEN reply = None
       ELSE /\ reply \in Candidates(locked)
            /\ \A q \in Candidates(locked) : reply <= q
  /\ status' = [r \in Requests |-> CASE r \in Overdue -> "outcome_unknown"
                                     [] r = reply -> "accepted"
                                     [] OTHER -> status[r]]
  /\ recorded' = recorded \cup
       {AcceptedEvent(r) : r \in {q \in {reply} \ {None} : status[q] = "queued"}}
  /\ online' = TRUE
  /\ UNCHANGED <<command, expired>>

\* record_control_event: client_event_id is unique, the status is written
\* every time.
RecordEvent(e) ==
  /\ recorded' = recorded \cup {e}
  /\ status' = [status EXCEPT ![e.req] = StatusAfter[e.type]]
  /\ UNCHANGED <<command, expired, online>>

\* The server gets to a request whose sender no longer waits.
LateEvent ==
  /\ \E m \in lateEvents :
       /\ RecordEvent(m.event)
       /\ lateEvents' = lateEvents \ {m}
  /\ UNCHANGED latePolls
  /\ ServerOnly

LatePoll ==
  /\ latePolls > 0
  /\ latePolls' = latePolls - 1
  /\ \E reply \in Requests \cup {None} : HandlePoll(reply)
  /\ UNCHANGED lateEvents
  /\ ServerOnly

-----------------------------------------------------------------------------
\* The agent.

Flush(point) == at' = "flush" /\ ret' = point

\* mark
Mark(state) == processed' = [processed EXCEPT ![current] = state]

\* enqueue_event
Enqueue(r, type) ==
  LET e == [id |-> lastId + 1, req |-> r, type |-> type] IN
  /\ outbox' = outbox \cup {e}
  /\ made' = made \cup {e}
  /\ lastId' = e.id
  /\ event' = e.id

Unsent(id) == \E e \in outbox : e.id = id

\* report_pending_boot, the first thing a new process does.
StartReport ==
  /\ at = "start"
  /\ IF pendingBoot = None
     THEN Flush("poll") /\ UNCHANGED <<eventVars, current, event>>
     ELSE /\ current' = pendingBoot
          /\ IF bootEvent[pendingBoot] = None
             THEN /\ Enqueue(pendingBoot, "boot")
                  /\ at' = "bootNote"
                  /\ UNCHANGED ret
             ELSE /\ event' = bootEvent[pendingBoot]
                  /\ Flush("bootCheck")
                  /\ UNCHANGED eventVars
  /\ UNCHANGED progressVars
  /\ AgentOnly

NoteBootEvent ==
  /\ at = "bootNote"
  /\ bootEvent' = [bootEvent EXCEPT ![current] = event]
  /\ Flush("bootCheck")
  /\ UNCHANGED <<processed, pendingBoot, prepared, eventVars, current, event>>
  /\ AgentOnly

CheckBootSent ==
  /\ at = "bootCheck"
  /\ IF Unsent(event) THEN Flush("poll") /\ UNCHANGED pendingBoot
     ELSE pendingBoot' = None /\ at' = "bootForget" /\ UNCHANGED ret
  /\ UNCHANGED <<processed, prepared, bootEvent, eventVars, current, event>>
  /\ AgentOnly

ForgetBootEvent ==
  /\ at = "bootForget"
  /\ bootEvent' = [bootEvent EXCEPT ![current] = None]
  /\ Flush("poll")
  /\ UNCHANGED <<processed, pendingBoot, prepared, eventVars, current, event>>
  /\ AgentOnly

\* flush_outbox, one event at a time; "loop" is the sleep before the next
\* turn, which begins with a flush.
Oldest(e) == e \in outbox /\ \A f \in outbox : e.id <= f.id

Return == IF ret = "loop" THEN Flush("poll") ELSE at' = ret /\ UNCHANGED ret

FlushDone ==
  /\ at = "flush"
  /\ outbox = {}
  /\ Return
  /\ UNCHANGED <<progressVars, eventVars, current, event>>
  /\ AgentOnly

\* Mutant of SendOldest: the DELETE has no WHERE.
SendOldestClearsAll ==
  /\ at = "flush"
  /\ \E e \in outbox : Oldest(e) /\ RecordEvent(e)
  /\ outbox' = {}
  /\ UNCHANGED <<progressVars, lastId, made, processVars, lateVars, powerVars,
                 mishaps>>

\* The server's answer is in hand before the row is deleted.
SendOldest ==
  /\ at = "flush"
  /\ \E e \in outbox :
       /\ Oldest(e)
       /\ RecordEvent(e)
       /\ outbox' = outbox \ {e}
  /\ UNCHANGED <<progressVars, lastId, made, processVars, lateVars, powerVars,
                 mishaps>>

\* Mutant of SendUnanswered: a row is deleted once it was sent.
SendDropsRow ==
  /\ at = "flush"
  /\ Mishap
  /\ \E e \in outbox :
       /\ Oldest(e)
       /\ lateEvents' = lateEvents \cup {[copy |-> mishaps, event |-> e]}
       /\ outbox' = outbox \ {e}
  /\ Return
  /\ UNCHANGED <<serverVars, progressVars, lastId, made, current, event, dryRun,
                 latePolls, powerVars>>

\* No answer, or a bad one: the flush ends.  The request may be on its way.
SendUnanswered ==
  /\ at = "flush"
  /\ Mishap
  /\ \E e \in outbox :
       /\ Oldest(e)
       /\ lateEvents' = lateEvents \cup {[copy |-> mishaps, event |-> e]}
  /\ Return
  /\ UNCHANGED <<serverVars, progressVars, eventVars, current, event, dryRun,
                 latePolls, powerVars>>

Poll ==
  /\ at = "poll"
  /\ \E reply \in Requests \cup {None} :
       /\ HandlePoll(reply)
       /\ IF reply = None THEN Flush("poll") /\ UNCHANGED current
          ELSE at' = "execute" /\ current' = reply /\ UNCHANGED ret
  /\ UNCHANGED <<progressVars, eventVars, event, dryRun, lateVars, powerVars,
                 mishaps>>

PollUnanswered ==
  /\ at = "poll"
  /\ Mishap
  /\ latePolls' = latePolls + 1
  /\ Flush("poll")
  /\ UNCHANGED <<serverVars, progressVars, eventVars, current, event, dryRun,
                 lateEvents, powerVars>>

\* execute_command.  The states in which there is nothing left to do:
Done == {"completed", "executing", "dry_run_rejected"}

ExecuteAgain ==
  /\ at = "execute"
  /\ processed[current] \in Done
  /\ Flush("loop")
  /\ UNCHANGED <<progressVars, eventVars, current, event>>
  /\ AgentOnly

\* A status report, or the refusal of a dry run: marked first, then reported.
ExecuteAnswer ==
  /\ at = "execute"
  /\ processed[current] \notin Done
  /\ \/ command[current] = "status" /\ Mark("completed")
     \/ command[current] # "status" /\ dryRun /\ Mark("dry_run_rejected")
  /\ at' = "reply"
  /\ UNCHANGED <<pendingBoot, prepared, bootEvent, eventVars, ret, current,
                 event>>
  /\ AgentOnly

\* Mutant of Reply: the return after a refusal is missing.
ReplyGoesOn ==
  /\ at = "reply"
  /\ Enqueue(current, IF processed[current] = "completed" THEN "status_report"
                      ELSE "rejected")
  /\ IF processed[current] = "completed" THEN Flush("loop")
     ELSE at' = "announce" /\ UNCHANGED ret
  /\ UNCHANGED <<progressVars, current>>
  /\ AgentOnly

Reply ==
  /\ at = "reply"
  /\ Enqueue(current, IF processed[current] = "completed" THEN "status_report"
                      ELSE "rejected")
  /\ Flush("loop")
  /\ UNCHANGED <<progressVars, current>>
  /\ AgentOnly

\* restart and shutdown: announce, wait for the server, then act.
ExecutePower ==
  /\ at = "execute"
  /\ processed[current] \notin Done
  /\ command[current] # "status" /\ ~dryRun
  /\ IF prepared[current] = None
     THEN Mark("prepared") /\ at' = "announce" /\ UNCHANGED <<ret, event>>
     ELSE /\ event' = prepared[current]
          /\ Flush("announced")
          /\ UNCHANGED processed
  /\ UNCHANGED <<pendingBoot, prepared, bootEvent, eventVars, current>>
  /\ AgentOnly

Announce ==
  /\ at = "announce"
  /\ Enqueue(current, "shutdown_started")
  /\ at' = "note"
  /\ UNCHANGED <<progressVars, ret, current>>
  /\ AgentOnly

NotePrepared ==
  /\ at = "note"
  /\ prepared' = [prepared EXCEPT ![current] = event]
  /\ Flush("announced")
  /\ UNCHANGED <<processed, pendingBoot, bootEvent, eventVars, current,
                 event>>
  /\ AgentOnly

CheckAnnounced ==
  /\ at = "announced"
  /\ IF Unsent(event)
     THEN Mark("waiting_for_server_ack") /\ Flush("poll") /\ UNCHANGED prepared
     ELSE /\ prepared' = [prepared EXCEPT ![current] = None]
          /\ at' = "commit"
          /\ UNCHANGED <<processed, ret>>
  /\ UNCHANGED <<pendingBoot, bootEvent, eventVars, current, event>>
  /\ AgentOnly

SetPendingBoot ==
  /\ at = "commit"
  /\ pendingBoot' = current
  /\ at' = "markExecuting"
  /\ UNCHANGED <<processed, prepared, bootEvent, eventVars, ret, current,
                 event>>
  /\ AgentOnly

MarkExecuting ==
  /\ at = "markExecuting"
  /\ Mark("executing")
  /\ at' = "systemctl"
  /\ UNCHANGED <<pendingBoot, prepared, bootEvent, eventVars, ret, current,
                 event>>
  /\ AgentOnly

\* systemctl returns at once; the agent goes on until it is killed.
Systemctl ==
  /\ at = "systemctl"
  /\ ran' = [ran EXCEPT ![current] = @ + 1]
  /\ machine' = "going_down"
  /\ Flush("poll")
  /\ UNCHANGED <<serverVars, progressVars, eventVars, current, event, dryRun,
                 lateVars, wentDown, mishaps>>

\* subprocess.run cannot start it (OSError): the loop reports this and goes on.
SystemctlNotStarted ==
  /\ at = "systemctl"
  /\ Mishap
  /\ Flush("poll")
  /\ UNCHANGED <<serverVars, progressVars, eventVars, current, event, dryRun,
                 lateVars, powerVars>>

-----------------------------------------------------------------------------
\* The process and the machine.

Restarted ==
  /\ at' = "start"
  /\ ret' = "poll"
  /\ current' = None
  /\ event' = None
  /\ dryRun' \in DryRunSettings

\* An exception nothing catches: systemd starts the agent again.  At "systemctl"
\* this is the refused call or the one that hangs (CalledProcessError,
\* TimeoutExpired).
AgentCrash ==
  /\ at \notin {"start", "down"}
  /\ Mishap
  /\ Restarted
  /\ UNCHANGED <<serverVars, progressVars, eventVars, lateVars, powerVars>>

GoDown ==
  /\ machine' = "off"
  /\ at' = "down"
  /\ ret' = "poll"
  /\ current' = None
  /\ event' = None
  /\ wentDown' = wentDown \cup ({pendingBoot} \ {None})
  /\ UNCHANGED <<serverVars, progressVars, eventVars, dryRun, lateVars, ran>>

PowerDown == machine = "going_down" /\ GoDown /\ UNCHANGED mishaps

PowerCut == machine = "up" /\ Mishap /\ GoDown

\* A reboot comes back by itself, after a poweroff somebody switches it on.
PowerOn ==
  /\ machine = "off"
  /\ machine' = "up"
  /\ Restarted
  /\ UNCHANGED <<serverVars, progressVars, eventVars, lateVars, ran, wentDown,
                 mishaps>>

AgentStep ==
  \/ StartReport \/ NoteBootEvent \/ CheckBootSent \/ ForgetBootEvent
  \/ FlushDone \/ SendOldest \/ Poll
  \/ ExecuteAgain \/ ExecuteAnswer \/ Reply
  \/ ExecutePower \/ Announce \/ NotePrepared \/ CheckAnnounced
  \/ SetPendingBoot \/ MarkExecuting \/ Systemctl

Next ==
  \/ QueueCommand
  \/ \E r \in Requests : Expire(r)
  \/ GoOffline
  \/ LateEvent \/ LatePoll
  \/ AgentStep
  \/ SendUnanswered \/ PollUnanswered \/ SystemctlNotStarted
  \/ AgentCrash \/ PowerDown \/ PowerCut \/ PowerOn

Spec == Init /\ [][Next]_vars

(***************************************************************************)
(* Fairness.  The agent's loop runs while its process does; time passes; a *)
(* machine that goes down does so, and is switched on again.  Requests to  *)
(* the server fail at most MaxMishaps times in a row of any length.  No    *)
(* fairness for administrators nor for requests that were given up.        *)
(***************************************************************************)
Fairness ==
  /\ WF_vars(AgentStep)
  /\ \A r \in Requests : WF_vars(Expire(r))
  /\ WF_vars(PowerDown)
  /\ WF_vars(PowerOn)

FairSpec == Spec /\ Fairness

-----------------------------------------------------------------------------
(* Once an event is in the outbox it is in the outbox or on the server: no *)
(* crash, lost answer or retry of flush_outbox loses one, and so the       *)
(* history the administrator reads has no holes.                           *)
NoEventLost == made \subseteq outbox \cup recorded

(* The machine is touched only after the server has the shutdown_started   *)
(* event of the very same command, whatever crashed between making the     *)
(* event, noting its id and finding it gone from the outbox.               *)
AnnouncedBeforeRun ==
  \A r \in Requests :
    ran[r] > 0 => \E e \in recorded : e.req = r /\ e.type = "shutdown_started"

OnRecord == {e.req : e \in {f \in recorded : f.type = "shutdown_started"}}

\* The agent is between having announced r and systemctl.
InHand(r) ==
  /\ current = r
  /\ \/ at \in {"announced", "commit", "markExecuting", "systemctl"}
     \/ at = "flush" /\ ret = "announced"

(* What the administrator reads is true.  A command that was carried out   *)
(* is shown as going down or completed, never as open, refused or of       *)
(* unknown outcome: neither by a poll that gives up what is overdue nor by *)
(* an event that comes late or twice.  No restart is called completed that *)
(* was not announced.  And a command shown as going down that was not      *)
(* carried out is about to be - unless something has failed, or the        *)
(* machine has been going down for another command meanwhile: those are    *)
(* the two ways to AnnouncedIsFinished being false.                        *)
StatusTellsTruth ==
  \A r \in Requests :
    /\ ran[r] > 0 => r \in OnRecord /\ status[r] \in {"shutting_down", "completed"}
    /\ status[r] = "completed" => command[r] = "status" \/ r \in OnRecord
    /\ status[r] = "shutting_down" /\ ran[r] = 0 =>
         InHand(r) \/ mishaps > 0 \/ \E q \in Requests : ran[q] > 0

(* A command the agent has told the server it refuses is never carried     *)
(* out, although it may be handed out again and CONTROL_DRY_RUN may have   *)
(* been switched off since; nor is one refused that was carried out.       *)
RefusedIsNotRun ==
  \A e \in made : e.type = "rejected" => ran[e.req] = 0

(* Every command gets an answer or is given up: however often the agent    *)
(* dies and whatever it had marked as done, none stays queued or accepted. *)
NeverLeftOpen ==
  \A r \in Requests : status[r] \in OpenStatuses ~> status[r] \notin OpenStatuses

(* A machine that goes down on behalf of a command confirms it: pending    *)
(* boot and boot event survive any number of crashes before the server has *)
(* the report.                                                             *)
BootIsReported ==
  \A r \in Requests :
    machine = "off" /\ pendingBoot = r ~> status[r] = "completed"

Contract == INSTANCE ControlContract WITH announced <- OnRecord

(* Together, server and agent keep the contract: commands are answered     *)
(* only after they were handed out, never come back to the queue, and run  *)
(* at most once and announced.                                             *)
ImplementsContract == Contract!Spec

-----------------------------------------------------------------------------
\* What the documentation says and the code does not do.

(* The agent waits for the server's acknowledgement and then executes: but *)
(* when the acknowledgement comes in a later flush, the server no longer   *)
(* hands the command out, and it stays in shutting_down.                   *)
AnnouncedIsFinished ==
  \A r \in Requests : status[r] = "shutting_down" ~> status[r] # "shutting_down"
=============================================================================
