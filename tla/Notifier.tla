------------------------------ MODULE Notifier ------------------------------
(***************************************************************************)
(* WebhookNotifier, of the monitor process (ver3/web-app/monitor.py): once *)
(* per cycle dispatch_pending reads the events that are due, posts them to *)
(* the webhook one after another and commits the outcome of each.          *)
(*                                                                         *)
(* The rest of the cycle, which inserts events (module Monitor), is the    *)
(* stage "cycle".  Time is counted in units of the shortest back-off (30   *)
(* seconds) and passes between two calls of dispatch_pending, at most      *)
(* MaxCycle units with the posts that time out.  The webhook is external:  *)
(* some events it never accepts.                                           *)
(***************************************************************************)
EXTENDS Integers, Sequences, FiniteSets, FiniteSetsExt

CONSTANTS
  MaxEvents,    \* bound on the events of a run
  Poison,       \* ids of the events the webhook always refuses
  NotifyLimit,  \* LIMIT of the SELECT (20 in the code)
  MaxBackoff,   \* NOTIFICATION_MAX_BACKOFF_SEC (30 units in the code)
  MaxCycle,     \* bound on the units of time between two calls
  MaxFaults     \* bound on crashes, database errors and accidental refusals

ASSUME NotifierAssumption ==
  /\ MaxEvents \in Nat
  /\ Poison \subseteq 1..MaxEvents
  /\ NotifyLimit \in Nat \ {0}
  /\ MaxBackoff \in Nat \ {0}
  /\ MaxCycle \in Nat
  /\ MaxFaults \in Nat

VARIABLES
  alerts,       \* monitor_events by event_id
  posts,        \* history: how often the webhook has received an event
  stage,        \* where the process is
  due,          \* ids that dispatch_pending has read and not handled yet
  mishaps       \* failures so far (bounded by MaxFaults)

notifierVars == <<alerts, posts, stage, due, mishaps>>

\* Delays depend on min(attempts - 1, 5): six attempts and more are one case.
AttemptCap == 6
Least(a, b) == IF a <= b THEN a ELSE b

Alert == [required : BOOLEAN, notified : BOOLEAN, attempts : 0..AttemptCap,
          wait : 0..MaxBackoff]

FixedDelay(attempts) == 1                                   \* mutant
Delay(attempts) == Least(MaxBackoff, 2 ^ Least(attempts - 1, 5))

\* Severity and state of the events of Monitor, in _record_event's calls.
Reports == {<<"warning", "open">>, <<"error", "open">>,
            <<"info", "open">>, <<"info", "recovered">>}
ShouldNotify(severity, state) ==
  severity \in {"warning", "error", "critical"} \/ state = "recovered"

\* An event that is settled waits for nothing; due is what is left of a batch.
NotifierTypeOK ==
  /\ alerts \in Seq(Alert) /\ Len(alerts) <= MaxEvents
  /\ posts \in [1..MaxEvents -> Nat]
  /\ stage \in {"down", "cycle", "post", "mark"}
  /\ due \subseteq DOMAIN alerts
  /\ stage \in {"down", "cycle"} => due = {}
  /\ stage = "mark" => due # {}
  /\ Cardinality(due) <= NotifyLimit
  /\ mishaps \in 0..MaxFaults

NotifierInit ==
  /\ alerts = <<>>
  /\ posts = [e \in 1..MaxEvents |-> 0]
  /\ stage = "down"
  /\ due = {}
  /\ mishaps = 0

-----------------------------------------------------------------------------
\* initialize reads nothing of the notifications: they are all in the table.
Start ==
  /\ stage = "down"
  /\ stage' = "cycle"
  /\ UNCHANGED <<alerts, posts, due, mishaps>>

\* The checks of the cycle record an event.
RecordEvent(severity, state) ==
  /\ stage = "cycle" /\ Len(alerts) < MaxEvents
  /\ alerts' = Append(alerts, [required |-> ShouldNotify(severity, state),
                               notified |-> FALSE, attempts |-> 0, wait |-> 0])
  /\ UNCHANGED <<posts, stage, due, mishaps>>

\* Time passes in the checks, in sleep and in the posts of the last call.
Passed(units) == [e \in DOMAIN alerts |->
  [alerts[e] EXCEPT !.wait = IF @ <= units THEN 0 ELSE @ - units]]

Unsent(log) == {e \in DOMAIN log : log[e].required /\ ~log[e].notified}
FirstFew(S) == {e \in S : Cardinality({f \in S : f < e}) < NotifyLimit}

DueIds(log) == FirstFew({e \in Unsent(log) : log[e].wait = 0})

ReadDue ==
  /\ stage = "cycle"
  /\ stage' = "post"
  /\ \E units \in 0..MaxCycle : alerts' = Passed(units)
  /\ due' = DueIds(alerts')
  /\ UNCHANGED <<posts, mishaps>>

Posted(e) == [posts EXCEPT ![e] = @ + 1]

\* urlopen returns a 2xx answer.
PostAccepted ==
  /\ stage = "post" /\ due # {} /\ Min(due) \notin Poison
  /\ stage' = "mark"
  /\ posts' = Posted(Min(due))
  /\ UNCHANGED <<alerts, due, mishaps>>

Handled(e) ==
  /\ stage' = "post"
  /\ due' = due \ {e}

ForgetToMark ==                                             \* mutant of MarkNotified
  /\ stage = "mark"
  /\ Handled(Min(due))
  /\ UNCHANGED <<alerts, posts, mishaps>>

MarkNotified ==
  /\ stage = "mark"
  /\ alerts' = [alerts EXCEPT ![Min(due)].notified = TRUE]
  /\ Handled(Min(due))
  /\ UNCHANGED <<posts, mishaps>>

GivenUp(e) == [alerts EXCEPT ![e].notified = TRUE]          \* mutant of Postponed

\* The exception handler: one more attempt, and a later one.
Postponed(e) ==
  LET n == Least(AttemptCap, alerts[e].attempts + 1)
  IN [alerts EXCEPT ![e].attempts = n, ![e].wait = Delay(n)]

PostRefused ==
  /\ stage = "post" /\ due # {} /\ Min(due) \in Poison
  /\ alerts' = Postponed(Min(due))
  /\ Handled(Min(due))
  /\ UNCHANGED <<posts, mishaps>>

\* A timeout or an accidental error; the webhook may have the event all the same.
PostFails ==
  /\ stage = "post" /\ due # {} /\ mishaps < MaxFaults
  /\ posts' \in {posts} \cup {Posted(e) : e \in {Min(due)} \ Poison}
  /\ alerts' = Postponed(Min(due))
  /\ Handled(Min(due))
  /\ mishaps' = mishaps + 1

EndDispatch ==
  /\ stage = "post" /\ due = {}
  /\ stage' = "cycle"
  /\ UNCHANGED <<alerts, posts, due, mishaps>>

InterruptedMidway(next) ==                                  \* mutant of Interrupted
  /\ stage \in {"post", "mark"} /\ mishaps < MaxFaults
  /\ stage' = next
  /\ mishaps' = mishaps + 1
  /\ UNCHANGED <<alerts, posts, due>>

\* A database error is none of the exceptions that are caught per event: it ends
\* the cycle.  So does a crash, and systemd starts the process again.
Interrupted(next) ==
  /\ stage \in {"post", "mark"} /\ mishaps < MaxFaults
  /\ stage' = next
  /\ due' = {}
  /\ mishaps' = mishaps + 1
  /\ UNCHANGED <<alerts, posts>>

NotifierStep ==
  \/ Start
  \/ ReadDue
  \/ PostAccepted
  \/ MarkNotified
  \/ PostRefused
  \/ EndDispatch

NotifierNext ==
  \/ NotifierStep
  \/ \E r \in Reports : RecordEvent(r[1], r[2])
  \/ PostFails
  \/ Interrupted("cycle")
  \/ Interrupted("down")

NotifierSpec == NotifierInit /\ [][NotifierNext]_notifierVars

\* The loop runs, and its checks do not for ever record events.  Time passes as
\* long as it takes: a call with no time since the last one is not fair.
TimePasses == \E units \in 1..MaxCycle : alerts' = Passed(units)
NotifierFairSpec ==
  /\ NotifierSpec
  /\ WF_notifierVars(NotifierStep)
  /\ SF_notifierVars(ReadDue /\ TimePasses)

-----------------------------------------------------------------------------
Received(e) == posts[e] > 0

\* An event is marked notified only if the webhook has it and it was one to
\* report: a lost answer, a crash or a database error never hides an alert.
NotifiedIsDelivered ==
  \A e \in DOMAIN alerts : alerts[e].notified => Received(e) /\ alerts[e].required

\* The webhook gets an event once, and once more at most for every failure: what
\* is accepted in one cycle is not read again in a later one, and a batch holds
\* it once (monitor.py:61, 98).
PostedOnce == \A e \in 1..MaxEvents : posts[e] <= 1 + mishaps

\* Every event to report reaches the webhook, through failures, crashes and
\* back-off, and although events that are always refused come first in the
\* ORDER BY of a SELECT with a LIMIT: their back-off outgrows a cycle.
AlertsDelivered ==
  \A e \in (1..MaxEvents) \ Poison :
    (e \in DOMAIN alerts /\ alerts[e].required) ~> Received(e)
=============================================================================
