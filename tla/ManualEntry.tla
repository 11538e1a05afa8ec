----------------------------- MODULE ManualEntry -----------------------------
(***************************************************************************)
(* Manual readings: an operator at the Android app (ManualInputScreen and  *)
(* postManualReading in FeatureScreens.kt) or at the browser form          *)
(* (insert.html), and the dashboard that stores them (insert_data in       *)
(* web-app/app.py, insert_manual in database.py).                          *)
(*                                                                         *)
(* insert_manual runs the protocol of insert_sensor on ingest_messages,    *)
(* which module Ingest shows to be atomic: here a request is served in one *)
(* step.  Its three rows (message, reading, audit) commit together and are *)
(* one row of stored.  Values that the form or the app refuse before they  *)
(* send are not typed; there is one operator, and the page's csrf_token    *)
(* belongs to its only session.                                            *)
(***************************************************************************)
EXTENDS Integers, FiniteSets

CONSTANTS
  Ids,          \* message ids, drawn at random
  Bodies,       \* target device and sensor values
  Dangerous,    \* the bodies for which evaluate_danger_row gives reasons
  MaxEntries,   \* bound on what the operator types
  MaxMishaps,   \* bound on failures and on changes of access
  None          \* no payload, no form, no id

ASSUME ManualAssumption ==
  /\ Dangerous \subseteq Bodies
  /\ MaxEntries \in Nat
  /\ MaxMishaps \in Nat

VARIABLES
  kind,         \* "app" or "web"
  stored,       \* the committed readings, as the payloads that brought them
  access,       \* what the server thinks of the operator and the device
  form,         \* what is typed on the screen or the page
  mid,          \* currentMessageId, or the page's hidden message_id
  confirmed,    \* app: dangerConfirmed; web: the page shows its required checkbox
  pending,      \* app: "payload" in the SharedPreferences, in memory ...
  disk,         \* ... and in the file, which apply() writes later
  live,         \* the payload whose answer the client waits for
  reply,        \* its answer, once the server has sent it
  stray,        \* payloads of abandoned attempts that may still arrive
  told,         \* history: payloads the operator was told are saved
  entries,      \* history: how many forms were typed
  used,         \* history: message ids drawn
  revised,      \* history: access has changed
  mishaps       \* failures so far (bounded by MaxMishaps)

serverVars == <<stored, access, revised>>
screenVars == <<form, mid, confirmed>>
queueVars == <<pending, disk>>
manualVars == <<kind, stored, access, form, mid, confirmed, pending, disk, live,
                reply, stray, told, entries, used, revised, mishaps>>

\* timed: a measuring time is given.  entry: which form it was, for properties.
Form == [body : Bodies, timed : BOOLEAN, entry : 1..MaxEntries]
Payload == [mid : Ids, body : Bodies, timed : BOOLEAN, entry : 1..MaxEntries,
            warned : BOOLEAN]

Access == {"ok", "noKey", "inactive"}
Saved == {"inserted", "duplicate"}
Replies == Saved \cup {"none", "rejected", "retry", "confirm", "login"}

ManualTypeOK ==
  /\ kind \in {"app", "web"}
  /\ stored \subseteq Payload
  /\ access \in Access
  /\ form \in Form \cup {None}
  /\ mid \in Ids \cup {None}
  /\ confirmed \in BOOLEAN
  /\ pending \in Payload \cup {None}
  /\ disk \in Payload \cup {None}
  /\ live \in Payload \cup {None}
  /\ reply \in Replies
  /\ live = None => reply = "none"
  /\ kind = "app" => reply \notin {"confirm", "login"} /\ (live # None => pending = live)
  /\ stray \subseteq Payload
  /\ told \subseteq Payload
  /\ entries \in 0..MaxEntries
  /\ used \subseteq Ids /\ (mid # None => mid \in used)
  /\ revised \in BOOLEAN
  /\ mishaps \in 0..MaxMishaps

ManualInit ==
  /\ kind \in {"app", "web"}
  /\ stored = {}
  /\ access = "ok"
  /\ form = None
  /\ mid \in Ids
  /\ confirmed = FALSE
  /\ pending = None /\ disk = None
  /\ live = None /\ reply = "none"
  /\ stray = {}
  /\ told = {}
  /\ entries = 0
  /\ used = {mid}
  /\ revised = FALSE
  /\ mishaps = 0

Mishap == mishaps < MaxMishaps /\ mishaps' = mishaps + 1

-----------------------------------------------------------------------------
\* The server.

\* payload_hash: everything but the confirmation.  A blank measured_at is the time
\* of the request, which is never that of another one.
SameHash(r, p) == r.mid = p.mid /\ r.body = p.body /\ r.timed /\ p.timed

OnFile(p) == {r \in stored : r.mid = p.mid}

NeverAsks(p) == FALSE                                       \* mutant
NeedsConfirmation(p) == p.body \in Dangerous /\ ~p.warned

\* authenticate_request, needs_confirmation, then insert_manual.
AnyContent(p) == OnFile(p) # {}                             \* mutant of Repeated
Repeated(p) == \E r \in OnFile(p) : SameHash(r, p)

Answer(p) ==
  IF access = "noKey" THEN (IF kind = "web" THEN "login" ELSE "rejected")
  ELSE IF NeedsConfirmation(p) THEN "confirm"
  ELSE IF access = "inactive" THEN "rejected"
  ELSE IF OnFile(p) = {} THEN "inserted"
  ELSE IF Repeated(p) THEN "duplicate" ELSE "rejected"

AfterCommit(p) == stored \cup (IF Answer(p) = "inserted" THEN {p} ELSE {})

Serve ==
  /\ live # None /\ reply = "none"
  /\ reply' = Answer(live)
  /\ stored' = AfterCommit(live)
  /\ UNCHANGED <<kind, access, screenVars, queueVars, live, stray, told, entries,
                 used, revised, mishaps>>

\* insert_manual raises, before its COMMIT or after: 503, or the form again.
ServeFails ==
  /\ live # None /\ reply = "none"
  /\ access # "noKey" /\ ~NeedsConfirmation(live)
  /\ Mishap
  /\ reply' = "retry"
  /\ stored' \in {stored, AfterCommit(live)}
  /\ UNCHANGED <<kind, access, screenVars, queueVars, live, stray, told, entries,
                 used, revised>>

\* The request of an attempt that was given up arrives after all.
ServeStray(p) ==
  /\ p \in stray
  /\ stray' = stray \ {p}
  /\ stored' = AfterCommit(p)
  /\ UNCHANGED <<kind, access, screenVars, queueVars, live, reply, told, entries,
                 used, revised, mishaps>>

\* An API key or session ends, an operator or a device is switched off, or on.
ChangeAccess ==
  /\ Mishap
  /\ access' \in Access \ {access}
  /\ revised' = TRUE
  /\ UNCHANGED <<kind, stored, screenVars, queueVars, live, reply, stray, told,
                 entries, used>>

-----------------------------------------------------------------------------
\* The operator and the client.

\* The fields of screen and page can be edited while a request is out: saving
\* disables only the button.
Type(body, timed) ==
  /\ entries < MaxEntries
  /\ form' = [body |-> body, timed |-> timed, entry |-> entries + 1]
  /\ entries' = entries + 1
  /\ UNCHANGED <<kind, serverVars, mid, confirmed, queueVars, live, reply, stray,
                 told, used, mishaps>>

\* The app's checkbox, shown while what is typed is dangerous.  An edit and a refusal
\* leave it as it is.
ShowsCheckbox == kind = "app" /\ form # None /\ form.body \in Dangerous

Tick ==
  /\ ShowsCheckbox /\ ~confirmed
  /\ confirmed' = TRUE
  /\ UNCHANGED <<kind, serverVars, form, mid, queueVars, live, reply, stray, told,
                 entries, used, mishaps>>

Untick ==
  /\ ShowsCheckbox /\ confirmed /\ Mishap
  /\ confirmed' = FALSE
  /\ UNCHANGED <<kind, serverVars, form, mid, queueVars, live, reply, stray, told,
                 entries, used>>

\* What is typed now.  A checkbox that the page shows is ticked before it sends.
Typed == [mid |-> mid, body |-> form.body, timed |-> form.timed, entry |-> form.entry,
          warned |-> confirmed]

TypedFirst == Typed                                         \* mutant of ToSend
\* The app sends what is queued before what is typed, which it validates all the same.
ToSend == IF kind = "app" /\ pending # None THEN pending ELSE Typed

Save ==
  /\ live = None /\ form # None
  /\ mid # None \/ (kind = "app" /\ pending # None)
  /\ ShowsCheckbox => confirmed
  /\ live' = ToSend
  /\ pending' = IF kind = "app" THEN live' ELSE pending
  /\ UNCHANGED <<kind, serverVars, screenVars, disk, reply, stray, told, entries,
                 used, mishaps>>

\* A new message id for an empty screen or page (None beyond the bound on Ids).
Renew ==
  /\ form' = None
  /\ confirmed' = FALSE
  /\ IF Ids \subseteq used
     THEN mid' = None /\ UNCHANGED used
     ELSE mid' \in Ids \ used /\ used' = used \cup {mid'}

AnswerKept == live' = None /\ UNCHANGED reply               \* mutant of Settled
Settled == live' = None /\ reply' = "none"

TakeSaved ==
  /\ reply \in Saved
  /\ told' = told \cup {live}
  /\ pending' = None
  /\ Renew
  /\ Settled
  /\ UNCHANGED <<kind, serverVars, disk, stray, entries, mishaps>>

ForgetId ==                                                 \* mutant of KeepId
  IF Ids \subseteq used
  THEN mid' = None /\ UNCHANGED used
  ELSE mid' \in Ids \ used /\ used' = used \cup {mid'}
KeepId == UNCHANGED <<mid, used>>

\* The app drops the payload and keeps the form and the id.
TakeRejected ==
  /\ kind = "app" /\ reply = "rejected"
  /\ pending' = None
  /\ KeepId
  /\ Settled
  /\ UNCHANGED <<kind, serverVars, form, confirmed, disk, stray, told, entries,
                 mishaps>>

TakeRetry ==
  /\ kind = "app" /\ reply = "retry"
  /\ Settled
  /\ UNCHANGED <<kind, serverVars, screenVars, queueVars, stray, told, entries,
                 used, mishaps>>

\* The page comes back with what was sent and its message id: what was typed since
\* then is lost.
TakePage ==
  /\ kind = "web" /\ reply \in {"confirm", "rejected", "retry"}
  /\ form' = [body |-> live.body, timed |-> live.timed, entry |-> live.entry]
  /\ confirmed' = (reply = "confirm")
  /\ Settled
  /\ UNCHANGED <<kind, serverVars, mid, queueVars, stray, told, entries,
                 used, mishaps>>

TakeLogin ==
  /\ reply = "login"
  /\ Renew
  /\ Settled
  /\ UNCHANGED <<kind, serverVars, queueVars, stray, told, entries, mishaps>>

\* A timeout or a broken connection; the request may be on its way.
GiveUp ==
  /\ live # None /\ Mishap
  /\ stray' = IF reply = "none" THEN stray \cup {live} ELSE stray
  /\ Settled
  /\ UNCHANGED <<kind, serverVars, screenVars, queueVars, told, entries, used>>

\* The file catches up with the memory.
ApplyPending ==
  /\ disk # pending
  /\ disk' = pending
  /\ UNCHANGED <<kind, serverVars, screenVars, pending, live, reply, stray, told,
                 entries, used, mishaps>>

\* The screen or page is left, or the process ends and, with it, what the app
\* has not written to the file.
Leave ==
  /\ Mishap
  /\ pending' \in {pending, disk}
  /\ stray' = IF live # None /\ reply = "none" THEN stray \cup {live} ELSE stray
  /\ Renew
  /\ Settled
  /\ UNCHANGED <<kind, serverVars, disk, told, entries>>

ClientStep ==
  Tick \/ Save \/ TakeSaved \/ TakeRejected \/ TakeRetry \/ TakePage \/ TakeLogin

ManualNext ==
  \/ ClientStep
  \/ Untick
  \/ Serve
  \/ ServeFails
  \/ \E p \in stray : ServeStray(p)
  \/ ChangeAccess
  \/ \E body \in Bodies, timed \in BOOLEAN : Type(body, timed)
  \/ GiveUp
  \/ ApplyPending
  \/ Leave

ManualSpec == ManualInit /\ [][ManualNext]_manualVars

\* The operator confirms and presses the button again while the form is open, and
\* server and client answer.  Failures are finitely many, and nothing makes anyone type.
ManualFairSpec ==
  /\ ManualSpec
  /\ WF_manualVars(ClientStep)
  /\ WF_manualVars(Serve)

-----------------------------------------------------------------------------
\* "Saved" is the truth: what the operator was told is saved is in the table,
\* under its id and with its values, whatever retries, delayed first attempts
\* and reuses of an id after a refusal came before.
SavedIsStored ==
  \A p \in told : \E r \in stored : r.mid = p.mid /\ r.body = p.body

\* One form filled in is at most one reading, however often it is sent: through
\* refusals, lost answers, requests that arrive late, restarts of the app and
\* the confirmation page, an id is never given up while a copy is under way.
EntryStoredOnce ==
  \A p, q \in stored : p.entry = q.entry => p = q

\* No dangerous reading without a confirmation by the operator, on neither client
\* and in no retry of a payload built earlier (its audit row says so).
DangerConfirmed ==
  \A r \in stored : r.body \in Dangerous => r.warned

\* A payload the app has in its file is settled in the end: the operator is told
\* that it is saved.  The excuses: access was changed, its id was already taken
\* by another reading or by itself at another time, or it still waits and nothing
\* is typed, without which the app does not send.
Waits(m) == pending # None /\ pending.mid = m
Refusable(m) == Waits(m) /\ \E r \in OnFile(pending) : ~SameHash(r, pending)
EventuallyTold ==
  \A m \in Ids :
    (Waits(m) /\ disk = pending) ~>
      \/ \E p \in told : p.mid = m
      \/ revised
      \/ Refusable(m)
      \/ Waits(m) /\ form = None

\* What app and page say of a retry under the same message id: the result can be
\* confirmed.  A reading that is stored would then not be refused as another one.
RetryIsRecognised ==
  (live \in stored /\ ~revised) => reply # "rejected"

\* What is true of it: a retry that gives its measuring time is recognised, whatever
\* became of the attempts before it.
TimedRetryRecognised ==
  (live \in stored /\ live.timed /\ ~revised) => reply # "rejected"

\* What is cleared from the app's screen as saved is what was saved.
ClearedIsSaved ==
  [][(TakeSaved /\ kind = "app") => live.entry = form.entry]_manualVars

\* A payload that the app has in memory and in its file leaves the queue on an answer
\* to itself only, when it is in the table, under its id, or refused: not on a
\* timeout, a restart, the answer to another payload or an edit of the form.
QueuedUntilAnswered ==
  [][(pending # None /\ disk = pending /\ pending' # pending) =>
       /\ live = pending
       /\ \/ reply = "rejected"
          \/ \E r \in stored : r.mid = pending.mid /\ r.body = pending.body]_manualVars

-----------------------------------------------------------------------------
\* As the store sees it: the content is what is hashed, a manual reading has no
\* slot that another message id could hold, and no refusal is kept.
AsRequest(p) == [mid |-> p.mid, dev |-> p.mid, seq |-> p.body]
Told(i) == {<<AsRequest(p), "stored">> : p \in {q \in told : q.mid = i}}

ManualStore == INSTANCE IdempotentStore WITH
  Request <- [mid : Ids, dev : Ids, seq : Bodies],
  Connections <- Ids,
  Prior <- {},
  stored <- {AsRequest(p) : p \in stored},
  refused <- {},
  said <- [i \in Ids |-> Told(i)]

(* App, page and dashboard together are the store that the ingest service  *)
(* is, with one connection for each message id: an id is decided once,     *)
(* and the operator is told "saved" of nothing but what it stands for,     *)
(* through refusals, retries, delayed attempts and restarts.               *)
ImplementsManualStore == ManualStore!Spec
=============================================================================
