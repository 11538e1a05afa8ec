-------------------------- MODULE ManualEntryProofs --------------------------
(***************************************************************************)
(* Proofs about ManualEntry, for any number of message ids, forms, sensor  *)
(* values and failures.                                                    *)
(***************************************************************************)
EXTENDS ManualEntry, TLAPS

\* Every copy of a payload: on the server, under way, queued, and answered.
Copies == stored \cup stray \cup ({live, pending, disk} \ {None})

\* A form keeps its id: copies of one form have one id, and as long as the form is
\* open this is the id on the screen.
OneIdPerEntry == \A p, q \in Copies : p.entry = q.entry => p.mid = q.mid
FormUnderId == form # None => \A p \in Copies : p.entry = form.entry => p.mid = mid
EntriesCounted ==
  /\ \A p \in Copies : p.entry <= entries
  /\ form # None => form.entry <= entries
Names == OneIdPerEntry /\ FormUnderId /\ EntriesCounted

\* An id names one stored reading, and a success is the truth when it is sent.
IdStoredOnce == \A p, q \in stored : p.mid = q.mid => p = q
AnswerIsTrue ==
  reply \in Saved => \E r \in stored : r.mid = live.mid /\ r.body = live.body

\* The app sends nothing the server would ask about.
AppConfirms ==
  kind = "app" =>
    \A p \in {live, pending, disk} \ {None} : p.body \in Dangerous => p.warned

\* An answer the client has not taken yet still says why: while access has not been
\* changed, only another reading, or another time, under the id is a refusal.
RefusalIsConflict ==
  ~revised =>
    /\ access = "ok"
    /\ reply = "rejected" => \E r \in OnFile(live) : ~SameHash(r, live)

\* The page waits for an answer under its id, and only the app has a queue.
PageWaits ==
  kind = "web" =>
    /\ pending = None /\ disk = None
    /\ live # None => live.mid = mid

MInv ==
  /\ ManualTypeOK
  /\ Names
  /\ IdStoredOnce
  /\ AnswerIsTrue
  /\ AppConfirms
  /\ RefusalIsConflict
  /\ PageWaits
  /\ SavedIsStored
  /\ DangerConfirmed

LEMMA ManualInitInv == ManualInit => MInv
<1> SUFFICES ASSUME ManualInit PROVE MInv
  OBVIOUS
<1>1. Copies = {}
  BY DEF ManualInit, Copies
<1>2. ManualTypeOK
  <2>1. 0 \in 0..MaxEntries /\ 0 \in 0..MaxMishaps
    BY ManualAssumption
  <2>2. "ok" \in Access /\ "none" \in Replies
    BY DEF Access, Replies
  <2>3. confirmed \in BOOLEAN /\ revised \in BOOLEAN
    BY DEF ManualInit
  <2>4. QED  BY <2>1, <2>2, <2>3 DEF ManualInit, ManualTypeOK
<1>3. Names
  BY <1>1 DEF ManualInit, Names, OneIdPerEntry, FormUnderId, EntriesCounted
<1>4. QED
  BY <1>2, <1>3 DEF ManualInit, MInv, IdStoredOnce, AnswerIsTrue, AppConfirms,
     RefusalIsConflict, PageWaits, SavedIsStored, DangerConfirmed, Saved

-----------------------------------------------------------------------------
\* Lemmas about what the actions have in common.

LEMMA CopiesTyped ==
  ASSUME ManualTypeOK
  PROVE  Copies \subseteq Payload
BY DEF Copies, ManualTypeOK

\* Nothing is typed or sent: copies disappear, and the form may be cleared.
LEMMA NamesKept ==
  ASSUME Names, Copies' \subseteq Copies, entries' = entries,
         form' = None \/ (form' = form /\ mid' = mid)
  PROVE  Names'
<1>1. OneIdPerEntry'
  BY DEF Names, OneIdPerEntry
<1>2. FormUnderId'
  BY DEF Names, FormUnderId
<1>3. EntriesCounted'
  BY DEF Names, EntriesCounted
<1>4. QED  BY <1>1, <1>2, <1>3 DEF Names

\* What insert_manual does to the table, for any payload that reaches it.
LEMMA CommitKeeps ==
  ASSUME MInv, NEW p \in Payload, stored' \in {stored, AfterCommit(p)}, told' = told
  PROVE  /\ stored \subseteq stored' /\ stored' \subseteq stored \cup {p}
         /\ stored' \subseteq Payload
         /\ IdStoredOnce' /\ SavedIsStored' /\ DangerConfirmed'
<1>1. CASE stored' = stored
  BY <1>1 DEF MInv, ManualTypeOK, IdStoredOnce, SavedIsStored, DangerConfirmed
<1>2. CASE stored' # stored
  <2>1. stored' = stored \cup {p} /\ Answer(p) = "inserted"
    BY <1>2 DEF AfterCommit
  <2>2. OnFile(p) = {} /\ ~NeedsConfirmation(p)
    BY <2>1 DEF Answer
  <2>3. IdStoredOnce'
    BY <2>1, <2>2 DEF MInv, IdStoredOnce, OnFile
  <2>4. SavedIsStored' /\ DangerConfirmed'
    BY <2>1, <2>2 DEF MInv, SavedIsStored, DangerConfirmed, NeedsConfirmation
  <2>5. QED  BY <2>1, <2>3, <2>4 DEF MInv, ManualTypeOK
<1>3. QED  BY <1>1, <1>2

\* An answer, and what it means after its COMMIT.
LEMMA AnswerTrue ==
  ASSUME NEW p, stored' = AfterCommit(p), Answer(p) \in Saved
  PROVE  \E r \in stored' : r.mid = p.mid /\ r.body = p.body
<1>1. CASE Answer(p) = "inserted"
  BY <1>1 DEF AfterCommit
<1>2. CASE Answer(p) # "inserted"
  <2>1. Repeated(p)
    BY <1>2 DEF Answer, Saved
  <2>2. QED  BY <2>1 DEF Repeated, SameHash, OnFile, AfterCommit
<1>3. QED  BY <1>1, <1>2

LEMMA AnswerTyped ==
  ASSUME NEW p
  PROVE  /\ Answer(p) \in Replies
         /\ Answer(p) = "login" => kind = "web"
         /\ Answer(p) = "confirm" => NeedsConfirmation(p)
BY DEF Answer, Replies, Saved

\* A refusal keeps its reason: rows stay, and access is as it was.
LEMMA ReasonKept ==
  ASSUME RefusalIsConflict, stored \subseteq stored',
         UNCHANGED <<access, revised, reply, live>>
  PROVE  RefusalIsConflict'
BY DEF RefusalIsConflict, OnFile, SameHash

\* Neither form nor payload changes.
LEMMA PageKept ==
  ASSUME PageWaits, UNCHANGED <<kind, form, mid, pending, disk, live>>
  PROVE  PageWaits'
BY DEF PageWaits

LEMMA RenewTyped ==
  ASSUME ManualTypeOK, Renew
  PROVE  /\ form' = None /\ confirmed' = FALSE
         /\ mid' \in Ids \cup {None} /\ used' \subseteq Ids
         /\ mid' # None => mid' \in used'
BY DEF ManualTypeOK, Renew

-----------------------------------------------------------------------------
\* One lemma per action, or per kind of action.

LEMMA ServeKeeps == ASSUME MInv, Serve PROVE MInv'
<1>1. /\ live \in Payload /\ live # None /\ reply' = Answer(live)
      /\ stored' = AfterCommit(live)
      /\ UNCHANGED <<kind, access, form, mid, confirmed, pending, disk, live, stray, told,
                     entries, used, revised, mishaps>>
  BY DEF MInv, ManualTypeOK, Serve, screenVars, queueVars
<1>2. /\ stored \subseteq stored'
      /\ stored' \subseteq stored \cup {live} /\ stored' \subseteq Payload
      /\ IdStoredOnce' /\ SavedIsStored' /\ DangerConfirmed'
  BY <1>1, CommitKeeps
<1>3. Names'
  <2>1. Copies' \subseteq Copies
    BY <1>1, <1>2 DEF Copies
  <2>2. QED  BY <1>1, <2>1, NamesKept DEF MInv
<1>4. AnswerIsTrue' /\ AppConfirms'
  BY <1>1, AnswerTrue DEF AnswerIsTrue, AppConfirms, MInv
<1>5. ManualTypeOK'
  <2>1. reply' \in Replies /\ (kind = "app" => reply' \notin {"confirm", "login"})
    BY <1>1, AnswerTyped DEF MInv, AppConfirms, NeedsConfirmation
  <2>2. QED  BY <1>1, <1>2, <2>1 DEF MInv, ManualTypeOK
<1>6. RefusalIsConflict'
  <2>1. SUFFICES ASSUME ~revised', reply' = "rejected"
                 PROVE  \E r \in OnFile(live) : ~SameHash(r, live)
    BY <1>1, <1>2 DEF MInv, RefusalIsConflict, OnFile, SameHash
  <2>2. access = "ok" /\ Answer(live) = "rejected"
    BY <1>1, <2>1 DEF MInv, RefusalIsConflict
  <2>3. OnFile(live) # {} /\ ~Repeated(live)
    BY <2>2 DEF Answer
  <2>4. QED  BY <2>3 DEF Repeated
<1>7. PageWaits'
  BY <1>1, PageKept DEF MInv
<1>8. QED  BY <1>2, <1>3, <1>4, <1>5, <1>6, <1>7 DEF MInv

LEMMA ServeFailsKeeps == ASSUME MInv, ServeFails PROVE MInv'
<1>1. /\ live \in Payload /\ live # None /\ reply' = "retry"
      /\ stored' \in {stored, AfterCommit(live)}
      /\ mishaps' \in 0..MaxMishaps
      /\ UNCHANGED <<kind, access, form, mid, confirmed, pending, disk, live, stray, told,
                     entries, used, revised>>
  BY ManualAssumption DEF MInv, ManualTypeOK, ServeFails, screenVars, queueVars, Mishap
<1>2. /\ stored \subseteq stored'
      /\ stored' \subseteq stored \cup {live} /\ stored' \subseteq Payload
      /\ IdStoredOnce' /\ SavedIsStored' /\ DangerConfirmed'
  BY <1>1, CommitKeeps
<1>3. Names'
  <2>1. Copies' \subseteq Copies
    BY <1>1, <1>2 DEF Copies
  <2>2. QED  BY <1>1, <2>1, NamesKept DEF MInv
<1>4. AnswerIsTrue' /\ AppConfirms'
  BY <1>1 DEF AnswerIsTrue, AppConfirms, MInv, Saved
<1>5. ManualTypeOK'
  BY <1>1, <1>2 DEF MInv, ManualTypeOK, Replies, Saved
<1>6. RefusalIsConflict' /\ PageWaits'
  BY <1>1, PageKept DEF MInv, RefusalIsConflict
<1>7. QED  BY <1>2, <1>3, <1>4, <1>5, <1>6 DEF MInv

LEMMA ServeStrayKeeps == ASSUME MInv, NEW p \in stray, ServeStray(p) PROVE MInv'
<1>1. /\ p \in Payload /\ stray' = stray \ {p} /\ stored' = AfterCommit(p)
      /\ UNCHANGED <<kind, access, form, mid, confirmed, pending, disk, live, reply, told,
                     entries, used, revised, mishaps>>
  BY DEF MInv, ManualTypeOK, ServeStray, screenVars, queueVars
<1>2. /\ stored \subseteq stored'
      /\ stored' \subseteq stored \cup {p} /\ stored' \subseteq Payload
      /\ IdStoredOnce' /\ SavedIsStored' /\ DangerConfirmed'
  BY <1>1, CommitKeeps
<1>3. Names'
  <2>1. Copies' \subseteq Copies
    BY <1>1, <1>2 DEF Copies
  <2>2. QED  BY <1>1, <2>1, NamesKept DEF MInv
<1>4. AnswerIsTrue' /\ AppConfirms'
  BY <1>1, <1>2 DEF AnswerIsTrue, AppConfirms, MInv
<1>5. ManualTypeOK'
  BY <1>1, <1>2 DEF MInv, ManualTypeOK
<1>6. RefusalIsConflict' /\ PageWaits'
  BY <1>1, <1>2, ReasonKept, PageKept DEF MInv
<1>7. QED  BY <1>2, <1>3, <1>4, <1>5, <1>6 DEF MInv

\* A new form: no copy of it exists.
LEMMA TypeKeeps ==
  ASSUME MInv, NEW body \in Bodies, NEW timed \in BOOLEAN, Type(body, timed)
  PROVE  MInv'
<1>1. /\ entries < MaxEntries /\ entries' = entries + 1 
      /\ form' = [body |-> body, timed |-> timed, entry |-> entries + 1]
      /\ UNCHANGED <<kind, stored, access, revised, mid, confirmed, pending, disk, live,
                     reply, stray, told, used, mishaps>>
  BY DEF Type, serverVars, queueVars
<1>2. form' \in Form /\ form'.entry = entries + 1 /\ entries \in Nat
      /\ entries' \in 0..MaxEntries
  BY <1>1, ManualAssumption DEF Form, MInv, ManualTypeOK
<1>3. Names'
  <2>1. Copies' = Copies
    BY <1>1 DEF Copies
  <2>2. \A p \in Copies : p.entry <= entries /\ p.entry \in Nat
    BY CopiesTyped DEF MInv, Names, EntriesCounted, Payload
  <2>3. QED
    BY <1>1, <1>2, <2>1, <2>2 DEF MInv, Names, OneIdPerEntry, FormUnderId, EntriesCounted
<1>4. ManualTypeOK'
  BY <1>1, <1>2 DEF MInv, ManualTypeOK
<1>5. RefusalIsConflict' /\ PageWaits'
  BY <1>1, ReasonKept DEF MInv, PageWaits
<1>6. QED
  BY <1>1, <1>3, <1>4, <1>5 DEF MInv, IdStoredOnce, AnswerIsTrue, AppConfirms,
     SavedIsStored, DangerConfirmed

\* What is sent is a copy that is queued, or the first copy under the form's id.
LEMMA SaveKeeps == ASSUME MInv, Save PROVE MInv'
<1>1. /\ live = None /\ reply = "none" /\ form \in Form /\ form # None /\ live' = ToSend
      /\ mid # None \/ (kind = "app" /\ pending # None)
      /\ kind = "app" => (form.body \in Dangerous => confirmed)
      /\ pending' = IF kind = "app" THEN live' ELSE pending
      /\ UNCHANGED <<kind, stored, access, revised, form, mid, confirmed, disk, reply,
                     stray, told, entries, used, mishaps>>
  BY DEF Save, ShowsCheckbox, serverVars, screenVars, MInv, ManualTypeOK
<1>0. RefusalIsConflict'
  BY <1>1 DEF MInv, RefusalIsConflict
<1>2. CASE kind = "app" /\ pending # None
  <2>1. live' = pending /\ pending' = pending /\ pending \in Payload
    BY <1>1, <1>2 DEF ToSend, MInv, ManualTypeOK
  <2>2. Names'
    <3>1. Copies' \subseteq Copies
      BY <1>1, <1>2, <2>1 DEF Copies
    <3>2. QED  BY <1>1, <3>1, NamesKept DEF MInv
  <2>3. ManualTypeOK'
    BY <1>1, <2>1 DEF MInv, ManualTypeOK
  <2>4. QED
    BY <1>0, <1>1, <1>2, <2>1, <2>2, <2>3 DEF MInv, IdStoredOnce, AnswerIsTrue, AppConfirms,
       PageWaits, SavedIsStored, DangerConfirmed, Saved
<1>3. CASE ~(kind = "app" /\ pending # None)
  <2>1. live' = Typed /\ mid \in Ids
    BY <1>1, <1>3 DEF ToSend, MInv, ManualTypeOK
  <2>2. /\ live' \in Payload /\ live'.mid = mid /\ live'.entry = form.entry
        /\ kind = "app" => (live'.body \in Dangerous => live'.warned)
    <3>1. form.body \in Bodies /\ form.timed \in BOOLEAN /\ form.entry \in 1..MaxEntries
      BY <1>1 DEF Form
    <3>2. confirmed \in BOOLEAN
      BY DEF MInv, ManualTypeOK
    <3>3. live' = [mid |-> mid, body |-> form.body, timed |-> form.timed,
                   entry |-> form.entry, warned |-> confirmed]
      BY <2>1 DEF Typed
    <3>4. kind = "app" => (form.body \in Dangerous => confirmed)
      BY <1>1
    <3>5. live' \in Payload
      BY <2>1, <3>1, <3>2, <3>3 DEF Payload
    <3>6. live'.mid = mid /\ live'.entry = form.entry /\ live'.body = form.body
          /\ live'.warned = confirmed
      BY <3>3
    <3>7. QED  BY <3>4, <3>5, <3>6
  <2>3. Names'
    <3>1. Copies' \subseteq Copies \cup {live'}
      BY <1>1, <1>3 DEF Copies
    <3>2. OneIdPerEntry' /\ FormUnderId'
      BY <1>1, <2>2, <3>1 DEF MInv, Names, OneIdPerEntry, FormUnderId
    <3>3. EntriesCounted'
      BY <1>1, <2>2, <3>1 DEF MInv, Names, EntriesCounted
    <3>4. QED  BY <3>2, <3>3 DEF Names
  <2>4. ManualTypeOK'
    BY <1>1, <2>2 DEF MInv, ManualTypeOK
  <2>5. AppConfirms'
    BY <1>1, <2>2 DEF MInv, AppConfirms
  <2>6. PageWaits'
    BY <1>1, <2>2 DEF MInv, PageWaits
  <2>7. QED
    BY <1>0, <1>1, <2>3, <2>4, <2>5, <2>6 DEF MInv, IdStoredOnce, AnswerIsTrue,
       SavedIsStored, DangerConfirmed, Saved
<1>4. QED  BY <1>2, <1>3

\* The answer arrives or is given up; the form is kept or cleared.
LEMMA SettledKeeps ==
  ASSUME MInv, Settled,
         UNCHANGED <<kind, stored, access, revised, entries, disk>>,
         pending' \in {pending, disk, None},
         stray' \subseteq stray \cup ({live} \ {None}),
         told' = told \/ (told' = told \cup {live} /\ reply \in Saved),
         mishaps' \in 0..MaxMishaps,
         \/ Renew
         \/ UNCHANGED <<form, mid, used, confirmed>>
  PROVE  MInv'
<1>1. live' = None /\ reply' = "none"
  BY DEF Settled
<1>2. /\ form' = None \/ (form' = form /\ mid' = mid)
      /\ form' \in Form \cup {None} /\ confirmed' \in BOOLEAN
      /\ mid' \in Ids \cup {None} /\ used' \subseteq Ids /\ (mid' # None => mid' \in used')
  BY RenewTyped DEF MInv, ManualTypeOK
<1>3. reply \in Saved => live \in Payload
  BY DEF MInv, ManualTypeOK, Saved
<1>4. Names'
  <2>1. Copies' \subseteq Copies
    BY <1>1 DEF Copies
  <2>2. QED  BY <1>2, <2>1, NamesKept DEF MInv
<1>5. SavedIsStored'
  BY DEF MInv, SavedIsStored, AnswerIsTrue
<1>6. ManualTypeOK'
  BY <1>1, <1>2, <1>3 DEF MInv, ManualTypeOK, Replies
<1>7. AnswerIsTrue' /\ AppConfirms'
  BY <1>1 DEF MInv, AnswerIsTrue, AppConfirms, Saved
<1>8. RefusalIsConflict' /\ PageWaits'
  BY <1>1 DEF MInv, RefusalIsConflict, PageWaits
<1>9. QED
  BY <1>4, <1>5, <1>6, <1>7, <1>8 DEF MInv, IdStoredOnce, DangerConfirmed

\* The page comes back with what was sent: it is under its id again.
LEMMA TakePageKeeps == ASSUME MInv, TakePage PROVE MInv'
<1>1. /\ kind = "web" /\ live \in Payload /\ live # None /\ live.mid = mid
      /\ form' = [body |-> live.body, timed |-> live.timed, entry |-> live.entry]
      /\ confirmed' \in BOOLEAN /\ live' = None /\ reply' = "none"
      /\ UNCHANGED <<kind, stored, access, revised, mid, pending, disk, stray, told,
                     entries, used, mishaps>>
  <2>1. reply # "none"
    BY DEF TakePage
  <2>2. live \in Payload /\ live # None
    BY <2>1 DEF MInv, ManualTypeOK
  <2>3. (reply = "confirm") \in BOOLEAN
    OBVIOUS
  <2>4. QED
    BY <2>2, <2>3 DEF TakePage, Settled, MInv, PageWaits, serverVars, queueVars
<1>2. form' \in Form /\ form'.entry = live.entry
  BY <1>1 DEF Form, Payload
<1>3. Names'
  <2>1. Copies' \subseteq Copies /\ live \in Copies
    BY <1>1 DEF Copies
  <2>2. OneIdPerEntry'
    BY <2>1 DEF MInv, Names, OneIdPerEntry
  <2>3. FormUnderId'
    BY <1>1, <1>2, <2>1 DEF MInv, Names, OneIdPerEntry, FormUnderId
  <2>4. EntriesCounted'
    BY <1>1, <1>2, <2>1 DEF MInv, Names, EntriesCounted
  <2>5. QED  BY <2>2, <2>3, <2>4 DEF Names
<1>4. ManualTypeOK'
  BY <1>1, <1>2 DEF MInv, ManualTypeOK, Replies
<1>5. AnswerIsTrue' /\ AppConfirms' /\ RefusalIsConflict' /\ PageWaits'
  BY <1>1 DEF MInv, AnswerIsTrue, AppConfirms, RefusalIsConflict, PageWaits, Saved
<1>6. QED
  BY <1>1, <1>3, <1>4, <1>5 DEF MInv, IdStoredOnce, SavedIsStored, DangerConfirmed

\* The checkbox says nothing about payloads that are built already.
LEMMA TickKeeps == ASSUME MInv, Tick \/ Untick PROVE MInv'
<1>1. /\ confirmed' \in BOOLEAN /\ mishaps' \in 0..MaxMishaps
      /\ UNCHANGED <<kind, stored, access, revised, form, mid, pending, disk, live, reply,
                     stray, told, entries, used>>
  <2>1. mishaps \in 0..MaxMishaps
    BY DEF MInv, ManualTypeOK
  <2>2. CASE Tick
    BY <2>1, <2>2 DEF Tick, serverVars, queueVars
  <2>3. CASE Untick
    <3>1. confirmed' = FALSE /\ mishaps' = mishaps + 1 /\ mishaps < MaxMishaps
      BY <2>3 DEF Untick, Mishap
    <3>2. confirmed' \in BOOLEAN
      BY <3>1
    <3>3. mishaps' \in 0..MaxMishaps
      BY <2>1, <3>1, ManualAssumption
    <3>4. QED  BY <2>3, <3>2, <3>3 DEF Untick, serverVars, queueVars
  <2>4. QED  BY <2>2, <2>3
<1>2. Names'
  <2>1. Copies' \subseteq Copies
    BY <1>1 DEF Copies
  <2>2. QED  BY <1>1, <2>1, NamesKept DEF MInv
<1>3. ManualTypeOK'
  BY <1>1 DEF MInv, ManualTypeOK
<1>4. RefusalIsConflict' /\ PageWaits'
  BY <1>1, ReasonKept, PageKept DEF MInv
<1>5. QED
  BY <1>1, <1>2, <1>3, <1>4 DEF MInv, IdStoredOnce, AnswerIsTrue, AppConfirms,
     SavedIsStored, DangerConfirmed

LEMMA ApplyKeeps == ASSUME MInv, ApplyPending PROVE MInv'
<1>1. /\ disk' = pending
      /\ UNCHANGED <<kind, stored, access, revised, form, mid, confirmed, pending, live,
                     reply, stray, told, entries, used, mishaps>>
  BY DEF ApplyPending, serverVars, screenVars
<1>2. Names'
  <2>1. Copies' \subseteq Copies
    BY <1>1 DEF Copies
  <2>2. QED  BY <1>1, <2>1, NamesKept DEF MInv
<1>3. ManualTypeOK'
  BY <1>1 DEF MInv, ManualTypeOK
<1>4. RefusalIsConflict' /\ PageWaits'
  BY <1>1, ReasonKept DEF MInv, PageWaits
<1>5. QED
  BY <1>1, <1>2, <1>3, <1>4 DEF MInv, IdStoredOnce, AnswerIsTrue, AppConfirms,
     SavedIsStored, DangerConfirmed

LEMMA AccessKeeps ==
  ASSUME MInv, ChangeAccess \/ UNCHANGED manualVars
  PROVE  MInv'
<1>1. /\ access' \in Access /\ revised' \in BOOLEAN /\ mishaps' \in 0..MaxMishaps
      /\ revised' \/ (revised' = revised /\ access' = access)
      /\ UNCHANGED <<kind, stored, form, mid, confirmed, pending, disk, live, reply,
                     stray, told, entries, used>>
  <2>1. access \in Access /\ revised \in BOOLEAN /\ mishaps \in 0..MaxMishaps
    BY DEF MInv, ManualTypeOK
  <2>2. CASE ChangeAccess
    BY <2>1, <2>2, ManualAssumption DEF ChangeAccess, Mishap, screenVars, queueVars
  <2>3. CASE UNCHANGED manualVars
    BY <2>1, <2>3 DEF manualVars
  <2>4. QED  BY <2>2, <2>3
<1>2. Names'
  <2>1. Copies' \subseteq Copies
    BY <1>1 DEF Copies
  <2>2. QED  BY <1>1, <2>1, NamesKept DEF MInv
<1>3. ManualTypeOK'
  BY <1>1 DEF MInv, ManualTypeOK
<1>4. RefusalIsConflict' /\ PageWaits'
  BY <1>1, PageKept DEF MInv, RefusalIsConflict, OnFile, SameHash
<1>5. QED
  BY <1>1, <1>2, <1>3, <1>4 DEF MInv, IdStoredOnce, AnswerIsTrue, AppConfirms,
     SavedIsStored, DangerConfirmed

LEMMA ManualNextInv == MInv /\ [ManualNext]_manualVars => MInv'
<1> SUFFICES ASSUME MInv, [ManualNext]_manualVars PROVE MInv'
  OBVIOUS
<1> USE DEF serverVars, screenVars, queueVars
<1>1. revised \in BOOLEAN /\ mishaps \in 0..MaxMishaps /\ confirmed \in BOOLEAN
  BY DEF MInv, ManualTypeOK
<1>2. CASE Save
  BY <1>2, SaveKeeps
<1>3. CASE TakeSaved
  BY <1>1, <1>3, SettledKeeps DEF TakeSaved
<1>4. CASE TakeRejected
  BY <1>1, <1>4, SettledKeeps DEF TakeRejected, KeepId
<1>5. CASE TakeRetry
  BY <1>1, <1>5, SettledKeeps DEF TakeRetry
<1>6. CASE TakePage
  BY <1>6, TakePageKeeps
<1>7. CASE TakeLogin
  BY <1>1, <1>7, SettledKeeps DEF TakeLogin
<1>8. CASE Serve
  BY <1>8, ServeKeeps
<1>9. CASE ServeFails
  BY <1>9, ServeFailsKeeps
<1>10. CASE \E p \in stray : ServeStray(p)
  BY <1>10, ServeStrayKeeps
<1>11. CASE ChangeAccess \/ UNCHANGED manualVars
  BY <1>11, AccessKeeps
<1>12. CASE \E body \in Bodies, timed \in BOOLEAN : Type(body, timed)
  BY <1>12, TypeKeeps
<1>13. Mishap => mishaps' \in 0..MaxMishaps
  BY <1>1, ManualAssumption DEF Mishap
<1>14. CASE GiveUp
  BY <1>1, <1>13, <1>14, SettledKeeps DEF GiveUp
<1>15. CASE ApplyPending
  BY <1>15, ApplyKeeps
<1>16. CASE Leave
  BY <1>1, <1>13, <1>16, SettledKeeps DEF Leave
<1>17. CASE Tick \/ Untick
  BY <1>17, TickKeeps
<1>18. QED
  BY <1>2, <1>3, <1>4, <1>5, <1>6, <1>7, <1>8, <1>9, <1>10, <1>11, <1>12, <1>14, <1>15,
     <1>16, <1>17 DEF ManualNext, ClientStep

-----------------------------------------------------------------------------
LEMMA ManualInvariant == ManualSpec => []MInv
<1>1. QED  BY ManualInitInv, ManualNextInv, PTL DEF ManualSpec

(* Every variable keeps its type; in particular the app is never confirmed for *)
(* a confirmation and what it waits for is what it has queued.             *)
THEOREM ManualTypeCorrect == ManualSpec => []ManualTypeOK
<1>1. MInv => ManualTypeOK
  BY DEF MInv
<1>2. QED  BY <1>1, ManualInvariant, PTL

(* What the operator was told is saved is in the table, under its id and   *)
(* with its values.                                                        *)
THEOREM ManualSavedIsStored == ManualSpec => []SavedIsStored
<1>1. MInv => SavedIsStored
  BY DEF MInv
<1>2. QED  BY <1>1, ManualInvariant, PTL

(* One form is at most one reading, however often its copies are sent.     *)
THEOREM ManualEntryStoredOnce == ManualSpec => []EntryStoredOnce
<1>1. MInv => EntryStoredOnce
  BY DEF MInv, Names, OneIdPerEntry, Copies, IdStoredOnce, EntryStoredOnce
<1>2. QED  BY <1>1, ManualInvariant, PTL

(* No dangerous reading is stored without a confirmation.                  *)
THEOREM ManualDangerConfirmed == ManualSpec => []DangerConfirmed
<1>1. MInv => DangerConfirmed
  BY DEF MInv
<1>2. QED  BY <1>1, ManualInvariant, PTL

(* A retry that gives its measuring time is recognised, as long as nobody's *)
(* access is changed: without one, insert_data takes the time of the        *)
(* attempt, and the run manualRetry shows the refusal.                      *)
THEOREM ManualTimedRetryRecognised == ManualSpec => []TimedRetryRecognised
<1>1. MInv => TimedRetryRecognised
  <2> SUFFICES ASSUME MInv, live \in stored, live.timed, ~revised, reply = "rejected"
               PROVE  FALSE
    BY DEF TimedRetryRecognised
  <2>1. PICK r \in OnFile(live) : ~SameHash(r, live)
    BY DEF MInv, RefusalIsConflict
  <2>2. r = live
    BY <2>1 DEF MInv, IdStoredOnce, OnFile
  <2>3. QED  BY <2>1, <2>2 DEF SameHash
<1>2. QED  BY <1>1, ManualInvariant, PTL

(* A payload in the file of the app's queue stays queued until it is in    *)
(* the table or refused, whatever times out, restarts or is typed.         *)
THEOREM ManualQueuedUntilAnswered == ManualSpec => QueuedUntilAnswered
<1> DEFINE Leaves == pending # None /\ disk = pending /\ pending' # pending
           Answered == /\ live = pending
                       /\ \/ reply = "rejected"
                          \/ \E r \in stored : r.mid = pending.mid /\ r.body = pending.body
<1>1. ASSUME MInv, [ManualNext]_manualVars, Leaves PROVE Answered
  <2>1. kind = "app" /\ (live # None => live = pending) /\ (reply # "none" => live # None)
    BY <1>1 DEF MInv, ManualTypeOK, PageWaits
  <2>2. CASE TakeSaved
    <3>1. reply \in Saved /\ live = pending
      BY <2>1, <2>2 DEF TakeSaved, Saved
    <3>2. \E r \in stored : r.mid = live.mid /\ r.body = live.body
      BY <1>1, <3>1 DEF MInv, AnswerIsTrue
    <3>3. QED  BY <3>1, <3>2
  <2>3. CASE TakeRejected
    BY <2>1, <2>3 DEF TakeRejected
  <2>4. CASE Save
    BY <1>1, <2>1, <2>4 DEF Save, ToSend
  <2>5. ASSUME ~TakeSaved, ~TakeRejected, ~Save PROVE pending' \in {pending, disk}
    BY <1>1, <2>5
    DEF ManualNext, ClientStep, Tick, Untick, TakeRetry, TakePage, TakeLogin, Serve,
        ServeFails, ServeStray, ChangeAccess, Type, GiveUp, ApplyPending, Leave, queueVars, manualVars
  <2>6. QED  BY <1>1, <2>2, <2>3, <2>4, <2>5
<1>2. QED  BY <1>1, ManualInvariant, PTL DEF ManualSpec, QueuedUntilAnswered

-----------------------------------------------------------------------------
\* The refinement: told requests are stored ones, so an id is told one verdict.

LEMMA ToldIsStored ==
  ASSUME SavedIsStored, NEW p \in told
  PROVE  \E r \in stored : AsRequest(r) = AsRequest(p)
BY DEF SavedIsStored, AsRequest

LEMMA ManualStoreInit == ManualInit => ManualStore!Init
BY DEF ManualInit, ManualStore!Init, Told

\* insert_manual's COMMIT decides the id, or finds it decided.
LEMMA CommitStores ==
  ASSUME ManualTypeOK, NEW p \in Payload, stored' = AfterCommit(p), told' = told
  PROVE  (\E r \in [mid : Ids, dev : Ids, seq : Bodies] : ManualStore!Store(r))
           \/ UNCHANGED ManualStore!storeVars
<1>1. CASE Answer(p) = "inserted"
  <2>1. OnFile(p) = {} /\ stored' = stored \cup {p}
    BY <1>1 DEF Answer, AfterCommit
  <2>2. AsRequest(p) \in [mid : Ids, dev : Ids, seq : Bodies]
    BY DEF AsRequest, Payload
  <2>3. ~ManualStore!Decided(AsRequest(p).mid)
    BY <2>1 DEF ManualStore!Decided, AsRequest, OnFile
  <2>4. ~ManualStore!SlotTaken(AsRequest(p))
    BY <2>1 DEF ManualStore!SlotTaken, ManualStore!Slot, AsRequest, OnFile
  <2>5. {AsRequest(q) : q \in stored'} = {AsRequest(q) : q \in stored} \cup {AsRequest(p)}
    BY <2>1
  <2>6. [i \in Ids |-> Told(i)]' = [i \in Ids |-> Told(i)]
    BY DEF Told
  <2>7. ManualStore!Store(AsRequest(p))
    BY <2>3, <2>4, <2>5, <2>6 DEF ManualStore!Store
  <2>8. QED  BY <2>2, <2>7
<1>2. CASE Answer(p) # "inserted"
  BY <1>2 DEF AfterCommit, ManualStore!storeVars, Told
<1>3. QED  BY <1>1, <1>2

LEMMA ManualStoreStep ==
  ASSUME MInv, [ManualNext]_manualVars
  PROVE  [ManualStore!Next]_(ManualStore!storeVars)
<1> USE DEF serverVars, screenVars, queueVars
<1>1. CASE Serve
  BY <1>1, CommitStores DEF MInv, ManualTypeOK, Serve, ManualStore!Next
<1>2. CASE ServeFails
  <2>1. stored' = stored => UNCHANGED ManualStore!storeVars
    BY <1>2 DEF ServeFails, ManualStore!storeVars, Told
  <2>2. QED
    BY <1>2, <2>1, CommitStores DEF MInv, ManualTypeOK, ServeFails, ManualStore!Next
<1>3. ASSUME NEW p \in stray, ServeStray(p) PROVE [ManualStore!Next]_(ManualStore!storeVars)
  BY <1>3, CommitStores DEF MInv, ManualTypeOK, ServeStray, ManualStore!Next
<1>4. CASE TakeSaved
  <2>1. live \in Payload /\ live.mid \in Ids
    BY <1>4 DEF MInv, ManualTypeOK, TakeSaved, Saved, Payload
  <2>2. told' = told \cup {live} /\ stored' = stored
    BY <1>4 DEF TakeSaved
  <2>3. AsRequest(live) \in {AsRequest(p) : p \in stored}
    BY <1>4 DEF MInv, AnswerIsTrue, TakeSaved, AsRequest
  <2>4. AsRequest(live) \in [mid : Ids, dev : Ids, seq : Bodies]
    BY <2>1 DEF AsRequest, Payload
  <2>5. \A p \in told' : p.mid = live.mid => AsRequest(p) = AsRequest(live)
    BY <1>4, <2>2 DEF MInv, SavedIsStored, IdStoredOnce, AnswerIsTrue, TakeSaved, AsRequest
  <2>6. \A i \in Ids : Told(i)' = IF i = live.mid THEN {<<AsRequest(live), "stored">>}
                                                 ELSE Told(i)
    <3>1. SUFFICES ASSUME NEW i \in Ids
                   PROVE  Told(i)' = IF i = live.mid THEN {<<AsRequest(live), "stored">>}
                                                     ELSE Told(i)
      OBVIOUS
    <3>2. CASE i = live.mid
      <4>1. live \in {q \in told' : q.mid = i}
        BY <2>2, <3>2
      <4>2. \A p \in {q \in told' : q.mid = i} : AsRequest(p) = AsRequest(live)
        BY <2>5, <3>2
      <4>3. {<<AsRequest(p), "stored">> : p \in {q \in told' : q.mid = i}}
              = {<<AsRequest(live), "stored">>}
        BY <4>1, <4>2
      <4>4. QED  BY <3>2, <4>3 DEF Told, AsRequest
    <3>3. CASE i # live.mid
      BY <2>2, <3>3 DEF Told, AsRequest
    <3>4. QED  BY <3>2, <3>3
  <2>7. [i \in Ids |-> Told(i)]' = [i \in Ids |-> Told(i)']
    OBVIOUS
  <2>8. [i \in Ids |-> Told(i)]'
          = [[i \in Ids |-> Told(i)] EXCEPT ![live.mid] = {<<AsRequest(live), "stored">>}]
    BY <2>1, <2>6, <2>7
  <2>9. ManualStore!Say(live.mid, AsRequest(live), "stored")
    BY <2>2, <2>3, <2>8 DEF ManualStore!Say
  <2>10. QED  BY <2>1, <2>4, <2>9 DEF ManualStore!Next, ManualStore!Verdicts
<1>5. ASSUME stored' = stored, told' = told PROVE UNCHANGED ManualStore!storeVars
  BY <1>5 DEF ManualStore!storeVars, Told
<1>6. ASSUME ~Serve, ~ServeFails, ~TakeSaved, ~\E p \in stray : ServeStray(p)
      PROVE  stored' = stored /\ told' = told
  BY <1>6
  DEF ManualNext, ClientStep, Tick, Untick, Save, TakeRejected, TakeRetry, TakePage,
      TakeLogin, ChangeAccess, Type, GiveUp, ApplyPending, Leave, manualVars
<1>7. QED  BY <1>1, <1>2, <1>3, <1>4, <1>5, <1>6

(* App, page and dashboard implement the store of the ingest service: an   *)
(* id is decided once and the operator is told nothing else about it.      *)
THEOREM ManualEntryImplementsStore == ManualSpec => ImplementsManualStore
BY ManualStoreInit, ManualStoreStep, ManualInvariant, PTL
DEF ManualSpec, ImplementsManualStore, ManualStore!Spec

\* The promises of the store: the first is a state property, the second holds of its
\* steps.
LEMMA ManualOneFate == ASSUME MInv PROVE ManualStore!OneFate
<1> DEFINE Manual == [mid : Ids, dev : Ids, seq : Bodies]
           Committed == {AsRequest(p) : p \in stored}
<1>1. \A p, q \in Committed : p.mid = q.mid => p = q
  BY DEF MInv, IdStoredOnce, AsRequest
<1>2. \A p \in Committed : p.dev = p.mid
  BY DEF AsRequest
<1>3. \A p, q \in Committed : ManualStore!Slot(p) = ManualStore!Slot(q) => p = q
  BY <1>1, <1>2 DEF ManualStore!Slot
<1>4. ASSUME NEW i \in Ids, NEW q \in Manual
      PROVE  /\ <<q, "stored">> \in Told(i) => q \in Committed
             /\ <<q, "refused">> \notin Told(i)
  BY ToldIsStored DEF Told, MInv
<1>5. QED
  BY <1>1, <1>3, <1>4 DEF ManualStore!OneFate

LEMMA ManualDecisionsStay == ManualStore!Spec => ManualStore!DecisionsStay
<1>1. ASSUME ManualStore!Next
      PROVE  {AsRequest(p) : p \in stored} \subseteq {AsRequest(p) : p \in stored}'
             /\ {} \subseteq {}'
  BY <1>1 DEF ManualStore!Next, ManualStore!Store, ManualStore!Refuse, ManualStore!Say,
              ManualStore!HangUp
<1>2. QED
  BY <1>1, PTL DEF ManualStore!Spec, ManualStore!DecisionsStay

(* A message id has one fate and one content for ever, no decision is      *)
(* taken back, and the operator is told "saved" of what is in the table:   *)
(* whichever form is edited, retried, refused or abandoned under the id.   *)
THEOREM ManualDecidesOnce ==
  ManualSpec => []ManualStore!OneFate /\ ManualStore!DecisionsStay
<1>1. MInv => ManualStore!OneFate
  BY ManualOneFate
<1>2. QED
  BY <1>1, ManualInvariant, ManualEntryImplementsStore, ManualDecisionsStay, PTL
  DEF ImplementsManualStore
=============================================================================
