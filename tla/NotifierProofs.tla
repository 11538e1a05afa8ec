---------------------------- MODULE NotifierProofs ----------------------------
(***************************************************************************)
(* Proofs about Notifier, for any number of events, any limit of a batch   *)
(* and any back-off.                                                       *)
(***************************************************************************)
EXTENDS Notifier, SetBounds, TLAPS

-----------------------------------------------------------------------------
\* The LIMIT of the SELECT.
LEMMA BatchIsLimited ==
  ASSUME NEW b \in Nat, NEW S \in SUBSET (1..b)
  PROVE  Cardinality(FirstFew(S)) <= NotifyLimit
<1> DEFINE F == FirstFew(S)
<1>1. F \subseteq S /\ F \subseteq 1..b
  BY DEF FirstFew
<1>2. IsFiniteSet(S) /\ IsFiniteSet(F)
  <2>1. IsFiniteSet(1..b)
    BY FS_Interval
  <2> HIDE DEF F
  <2>2. QED  BY <1>1, <2>1, FS_Subset
<1>3. CASE F = {}
  BY <1>3, FS_EmptySet, NotifierAssumption
<1>4. CASE F # {}
  <2>1. PICK m \in F : \A y \in F : y <= m
    <3> HIDE DEF F
    <3>1. QED  BY <1>1, <1>4, BoundedHasMax
  <2> DEFINE Before == {f \in S : f < m}
  <2>2. Cardinality(Before) < NotifyLimit
    BY <2>1 DEF FirstFew
  <2>3. F \ {m} \subseteq Before
    BY <1>1, <2>1
  <2>4. IsFiniteSet(Before) /\ Cardinality(F \ {m}) <= Cardinality(Before)
    <3>1. IsFiniteSet(Before)
      BY <1>2, FS_Subset
    <3> HIDE DEF F, Before
    <3>2. QED  BY <3>1, <2>3, FS_Subset
  <2>5. /\ Cardinality(F \ {m}) = Cardinality(F) - 1
        /\ Cardinality(F) \in Nat /\ Cardinality(F \ {m}) \in Nat
    <3> HIDE DEF F
    <3>1. QED  BY <1>2, <2>1, FS_RemoveElement, FS_CardinalityType
  <2>6. Cardinality(Before) \in Nat
    BY <2>4, FS_CardinalityType
  <2>7. QED
    <3> HIDE DEF Before, F
    <3>1. Cardinality(F) <= NotifyLimit
      BY <2>2, <2>4, <2>5, <2>6, NotifierAssumption
    <3>2. QED  BY <3>1 DEF F
<1>5. QED  BY <1>3, <1>4

\* The back-off is a number of units within its maximum.
LEMMA DelayBounded ==
  ASSUME NEW n \in 1..AttemptCap
  PROVE  Delay(n) \in 0..MaxBackoff
<1>1. Least(n - 1, 5) \in {0, 1, 2, 3, 4, 5}
  BY DEF Least, AttemptCap
<1>2. 2^0 \in Nat /\ 2^1 \in Nat /\ 2^2 \in Nat /\ 2^3 \in Nat /\ 2^4 \in Nat /\ 2^5 \in Nat
  OBVIOUS
<1>3. 2^Least(n - 1, 5) \in Nat
  <2>1. PICK k \in {0, 1, 2, 3, 4, 5} : Least(n - 1, 5) = k
    BY <1>1
  <2>2. 2^k \in Nat
    BY <1>2, Zenon
  <2>3. QED  BY <2>1, <2>2
<1>4. QED
  BY <1>3, NotifierAssumption DEF Delay, Least

-----------------------------------------------------------------------------
\* A log of which every event is replaced.
LEMMA SameLength ==
  ASSUME NEW S, NEW s \in Seq(S), NEW f, f \in [1..Len(s) -> S]
  PROVE  f \in Seq(S) /\ Len(f) = Len(s)
<1>1. Len(s) \in Nat
  OBVIOUS
<1>2. QED  BY <1>1

\* The batch holds only events to report that are not settled, and MarkNotified
\* marks what has been received.
BatchUnsent == due \subseteq Unsent(alerts)
MarkedReceived == stage = "mark" => Received(Min(due))

\* Every POST beyond the one that settles an event, now or with the next UPDATE,
\* is owed to a failure.
Settled(e) ==
  e \in DOMAIN alerts /\ (alerts[e].notified \/ (stage = "mark" /\ e = Min(due)))

PostsOwed ==
  \A e \in 1..MaxEvents :
    posts[e] <= mishaps + 1 /\ (Settled(e) \/ posts[e] <= mishaps)

NInv ==
  /\ NotifierTypeOK
  /\ NotifiedIsDelivered
  /\ BatchUnsent
  /\ MarkedReceived
  /\ PostsOwed

LEMMA NotifierInitInv == NotifierInit => NInv
<1> SUFFICES ASSUME NotifierInit PROVE NInv
  OBVIOUS
<1>1. NotifierTypeOK
  BY FS_EmptySet, NotifierAssumption DEF NotifierInit, NotifierTypeOK
<1>2. QED
  BY <1>1 DEF NInv, NotifierInit, NotifiedIsDelivered, BatchUnsent,
    MarkedReceived, PostsOwed

\* While something is due, the oldest of it is an event in the log.
LEMMA OldestDue ==
  ASSUME NotifierTypeOK, due # {}
  PROVE  Min(due) \in due /\ Min(due) \in DOMAIN alerts
<1>1. due \subseteq Nat
  BY DEF NotifierTypeOK
<1>2. QED  BY <1>1, MinInSet DEF NotifierTypeOK

\* A batch only gets smaller.
LEMMA HandledSmaller ==
  ASSUME NotifierTypeOK, NEW e, Handled(e)
  PROVE  due' \subseteq due /\ Cardinality(due') <= NotifyLimit
<1>1. IsFiniteSet(due)
  <2>1. due \subseteq 1..Len(alerts) /\ Len(alerts) \in Nat
    BY DEF NotifierTypeOK
  <2>2. IsFiniteSet(1..Len(alerts))
    BY <2>1, FS_Interval
  <2>3. QED  BY <2>1, <2>2, FS_Subset
<1>2. Cardinality(due \ {e}) <= Cardinality(due)
  BY <1>1, FS_Subset
<1>3. Cardinality(due \ {e}) \in Nat /\ Cardinality(due) \in Nat
  <2>1. IsFiniteSet(due \ {e})
    BY <1>1, FS_Subset
  <2>2. QED  BY <1>1, <2>1, FS_CardinalityType
<1>4. QED  BY <1>2, <1>3, NotifierAssumption DEF Handled, NotifierTypeOK

LEMMA AlertUpdate ==
  ASSUME NEW a \in Alert, NEW n \in 0..AttemptCap, NEW w \in 0..MaxBackoff
  PROVE  LET b == [a EXCEPT !.attempts = n, !.wait = w]
         IN b \in Alert /\ b.required = a.required /\ b.notified = a.notified
BY DEF Alert

\* What the exception handler writes changes only attempts and wait.
LEMMA PostponedKeeps ==
  ASSUME NotifierTypeOK, NEW e \in DOMAIN alerts
  PROVE  /\ Postponed(e) \in Seq(Alert) /\ Len(Postponed(e)) = Len(alerts)
         /\ DOMAIN Postponed(e) = DOMAIN alerts
         /\ \A f \in DOMAIN alerts : /\ Postponed(e)[f].required = alerts[f].required
                                    /\ Postponed(e)[f].notified = alerts[f].notified
<1> DEFINE n == Least(AttemptCap, alerts[e].attempts + 1)
           new == [alerts[e] EXCEPT !.attempts = n, !.wait = Delay(n)]
<1>1. alerts[e] \in Alert /\ alerts \in [1..Len(alerts) -> Alert]
  BY DEF NotifierTypeOK
<1>2. n \in 1..AttemptCap
  BY <1>1 DEF Alert, AttemptCap, Least
<1>3. Delay(n) \in 0..MaxBackoff
  <2> HIDE DEF n
  <2>1. QED  BY <1>2, DelayBounded
<1>4. new \in Alert /\ new.required = alerts[e].required /\ new.notified = alerts[e].notified
  <2>1. n \in 0..AttemptCap
    BY <1>2 DEF AttemptCap
  <2> HIDE DEF n
  <2>2. QED  BY <1>1, <1>3, <2>1, AlertUpdate
<1>5. Postponed(e) = [alerts EXCEPT ![e] = new]
  <2>1. Postponed(e) = [alerts EXCEPT ![e].attempts = n, ![e].wait = Delay(n)]
    BY DEF Postponed
  <2> HIDE DEF n
  <2>2. [alerts EXCEPT ![e].attempts = n, ![e].wait = Delay(n)] = [alerts EXCEPT ![e] = new]
    BY <1>1
  <2>3. QED  BY <2>1, <2>2
<1> HIDE DEF new
<1>6. Postponed(e) \in [1..Len(alerts) -> Alert]
  BY <1>1, <1>4, <1>5
<1>7. Postponed(e) \in Seq(Alert) /\ Len(Postponed(e)) = Len(alerts)
  BY <1>6, SameLength DEF NotifierTypeOK
<1>8. QED  BY <1>1, <1>4, <1>5, <1>6, <1>7

-----------------------------------------------------------------------------
\* One lemma per kind of step.

LEMMA RecordKeeps ==
  ASSUME NInv, NEW severity, NEW state, RecordEvent(severity, state)
  PROVE  NInv'
<1> DEFINE new == [required |-> ShouldNotify(severity, state), notified |-> FALSE,
                   attempts |-> 0, wait |-> 0]
<1>1. new \in Alert /\ new.notified = FALSE
  <2>1. ShouldNotify(severity, state) \in BOOLEAN
    BY DEF ShouldNotify
  <2>2. QED  BY <2>1, NotifierAssumption DEF Alert, AttemptCap
<1>2. alerts' = Append(alerts, new) /\ Len(alerts) < MaxEvents
  BY DEF RecordEvent
<1> HIDE DEF new
<1>3. /\ alerts' \in Seq(Alert) /\ Len(alerts') = Len(alerts) + 1
      /\ DOMAIN alerts' = DOMAIN alerts \cup {Len(alerts) + 1}
      /\ \A e \in DOMAIN alerts : alerts'[e] = alerts[e]
      /\ alerts'[Len(alerts) + 1] = new
  BY <1>1, <1>2 DEF NInv, NotifierTypeOK
<1>4. UNCHANGED <<posts, stage, due, mishaps>> /\ due = {}
  BY DEF RecordEvent, NInv, NotifierTypeOK
<1>5. NotifierTypeOK'
  BY <1>2, <1>3, <1>4, NotifierAssumption DEF NInv, NotifierTypeOK
<1>6. NotifiedIsDelivered'
  BY <1>1, <1>3, <1>4 DEF NInv, NotifiedIsDelivered, Received
<1>7. BatchUnsent' /\ MarkedReceived'
  BY <1>4 DEF NInv, BatchUnsent, MarkedReceived, RecordEvent
<1>8. PostsOwed'
  <2>1. \A f \in 1..MaxEvents : Settled(f) => Settled(f)'
    BY <1>3, <1>4 DEF Settled, RecordEvent
  <2>2. QED  BY <1>4, <2>1 DEF NInv, PostsOwed
<1>9. QED  BY <1>5, <1>6, <1>7, <1>8 DEF NInv

LEMMA PassedKeeps ==
  ASSUME NotifierTypeOK, NEW units \in Nat
  PROVE  /\ Passed(units) \in Seq(Alert) /\ Len(Passed(units)) = Len(alerts)
         /\ DOMAIN Passed(units) = DOMAIN alerts
         /\ \A f \in DOMAIN alerts : /\ Passed(units)[f].required = alerts[f].required
                                    /\ Passed(units)[f].notified = alerts[f].notified
<1>1. alerts \in [1..Len(alerts) -> Alert] /\ DOMAIN alerts = 1..Len(alerts)
  BY DEF NotifierTypeOK
<1>2. ASSUME NEW f \in DOMAIN alerts
      PROVE  /\ Passed(units)[f] \in Alert
             /\ Passed(units)[f].required = alerts[f].required
             /\ Passed(units)[f].notified = alerts[f].notified
  <2>1. PICK w \in 0..MaxBackoff : Passed(units)[f] = [alerts[f] EXCEPT !.wait = w]
    <3>1. alerts[f].wait \in 0..MaxBackoff
      BY <1>1 DEF Alert
    <3>2. (IF alerts[f].wait <= units THEN 0 ELSE alerts[f].wait - units) \in 0..MaxBackoff
      BY <3>1, NotifierAssumption
    <3>3. QED  BY <3>2 DEF Passed
  <2>2. alerts[f] \in Alert
    BY <1>1
  <2> DEFINE a == alerts[f]
  <2> HIDE DEF a
  <2>3. ASSUME NEW b \in Alert
        PROVE  LET c == [b EXCEPT !.wait = w]
               IN c \in Alert /\ c.required = b.required /\ c.notified = b.notified
    BY DEF Alert
  <2>4. QED  BY <2>1, <2>2, <2>3
<1>3. Passed(units) \in [1..Len(alerts) -> Alert]
  BY <1>1, <1>2 DEF Passed
<1>4. QED  BY <1>1, <1>2, <1>3, SameLength DEF NotifierTypeOK

LEMMA ReadKeeps ==
  ASSUME NInv, ReadDue
  PROVE  NInv'
<1>1. PICK units \in 0..MaxCycle : alerts' = Passed(units)
  BY DEF ReadDue
<1>2. /\ alerts' \in Seq(Alert) /\ Len(alerts') = Len(alerts)
      /\ DOMAIN alerts' = DOMAIN alerts
      /\ \A f \in DOMAIN alerts : /\ alerts'[f].required = alerts[f].required
                                 /\ alerts'[f].notified = alerts[f].notified
  BY <1>1, PassedKeeps, NotifierAssumption DEF NInv
<1>3. /\ stage' = "post" /\ UNCHANGED <<posts, mishaps>>
      /\ due' = DueIds(alerts')
  BY DEF ReadDue
<1>4. due' \subseteq Unsent(alerts') /\ Unsent(alerts') \subseteq DOMAIN alerts'
  BY <1>3 DEF DueIds, FirstFew, Unsent
<1>5. Cardinality(due') <= NotifyLimit
  <2> DEFINE S == {e \in Unsent(alerts') : alerts'[e].wait = 0}
  <2>1. S \subseteq 1..Len(alerts') /\ Len(alerts') \in Nat
    BY <1>2, <1>4 DEF NInv, NotifierTypeOK
  <2>2. due' = FirstFew(S)
    BY <1>3 DEF DueIds
  <2> HIDE DEF S
  <2>3. QED  BY <2>1, <2>2, BatchIsLimited
<1>6. NotifierTypeOK'
  BY <1>2, <1>3, <1>4, <1>5 DEF NInv, NotifierTypeOK
<1>7. NotifiedIsDelivered'
  BY <1>2, <1>3 DEF NInv, NotifiedIsDelivered, Received
<1>8. BatchUnsent' /\ MarkedReceived'
  BY <1>3, <1>4 DEF BatchUnsent, MarkedReceived
<1>9. PostsOwed'
  <2>1. \A f \in 1..MaxEvents : Settled(f) => Settled(f)'
    BY <1>2, <1>3 DEF Settled, ReadDue
  <2>2. QED  BY <1>3, <2>1 DEF NInv, PostsOwed
<1>10. QED  BY <1>6, <1>7, <1>8, <1>9 DEF NInv

\* One more POST of one event.
LEMMA PostedEffect ==
  ASSUME NotifierTypeOK, NEW e \in DOMAIN alerts
  PROVE  /\ e \in 1..MaxEvents
         /\ Posted(e) \in [1..MaxEvents -> Nat]
         /\ Posted(e)[e] = posts[e] + 1
         /\ \A f \in 1..MaxEvents : f # e => Posted(e)[f] = posts[f]
         /\ \A f \in 1..MaxEvents : Posted(e)[f] >= posts[f]
<1>1. e \in 1..MaxEvents
  BY NotifierAssumption DEF NotifierTypeOK
<1>2. QED  BY <1>1 DEF NotifierTypeOK, Posted

LEMMA AcceptedKeeps ==
  ASSUME NInv, PostAccepted
  PROVE  NInv'
<1> DEFINE e == Min(due)
<1>1. e \in due /\ e \in DOMAIN alerts
  BY OldestDue DEF PostAccepted, NInv
<1>2. /\ stage' = "mark" /\ stage = "post" /\ posts' = Posted(e) /\ due # {}
      /\ UNCHANGED <<alerts, due, mishaps>>
  BY DEF PostAccepted
<1>3. /\ e \in 1..MaxEvents /\ posts' \in [1..MaxEvents -> Nat]
      /\ posts'[e] = posts[e] + 1
      /\ \A f \in 1..MaxEvents : f # e => posts'[f] = posts[f]
      /\ \A f \in 1..MaxEvents : posts'[f] >= posts[f]
  <2> HIDE DEF e
  <2>1. QED  BY <1>1, <1>2, PostedEffect DEF NInv
<1>4. NotifierTypeOK'
  BY <1>1, <1>2, <1>3 DEF NInv, NotifierTypeOK
<1>5. NotifiedIsDelivered'
  <2> HIDE DEF e
  <2>1. /\ posts \in [1..MaxEvents -> Nat]
        /\ \A f \in DOMAIN alerts : f \in 1..MaxEvents
    BY NotifierAssumption DEF NInv, NotifierTypeOK
  <2>2. ASSUME NEW f \in DOMAIN alerts, alerts[f].notified
        PROVE  posts'[f] > 0 /\ alerts[f].required
    <3>1. posts[f] > 0 /\ alerts[f].required
      BY <2>2 DEF NInv, NotifiedIsDelivered, Received
    <3>2. posts[f] \in Nat /\ posts'[f] \in Nat /\ posts'[f] >= posts[f]
      BY <1>3, <2>1, <2>2
    <3>3. QED  BY <3>1, <3>2
  <2>3. QED  BY <1>2, <2>2 DEF NotifiedIsDelivered, Received
<1>6. BatchUnsent' /\ MarkedReceived'
  BY <1>2, <1>3 DEF NInv, NotifierTypeOK, BatchUnsent, MarkedReceived, Received, Unsent
<1>7. PostsOwed'
  <2>1. posts[e] <= mishaps
    <3>1. ~Settled(e)
      BY <1>1, <1>2 DEF NInv, BatchUnsent, Unsent, Settled
    <3>2. e \in 1..MaxEvents
      BY <1>3
    <3> HIDE DEF e
    <3>3. QED  BY <3>1, <3>2 DEF NInv, PostsOwed
  <2>2. \A f \in 1..MaxEvents : f = e => Settled(f)'
    BY <1>1, <1>2 DEF Settled
  <2>3. \A f \in 1..MaxEvents : Settled(f) => Settled(f)'
    BY <1>2 DEF Settled
  <2> HIDE DEF e
  <2>4. posts \in [1..MaxEvents -> Nat] /\ mishaps \in Nat /\ mishaps' = mishaps
    BY <1>2 DEF NInv, NotifierTypeOK
  <2>5. ASSUME NEW f \in 1..MaxEvents
        PROVE  posts'[f] <= mishaps' + 1 /\ (Settled(f)' \/ posts'[f] <= mishaps')
    <3>1. CASE f = e
      BY <1>3, <2>1, <2>2, <2>4, <3>1
    <3>2. CASE f # e
      BY <1>3, <2>3, <2>4, <3>2 DEF NInv, PostsOwed
    <3>3. QED  BY <3>1, <3>2
  <2>6. QED  BY <2>5 DEF PostsOwed
<1>8. QED  BY <1>4, <1>5, <1>6, <1>7 DEF NInv

LEMMA MarkKeeps ==
  ASSUME NInv, MarkNotified
  PROVE  NInv'
<1> DEFINE e == Min(due)
<1>1. e \in due /\ e \in DOMAIN alerts
  BY OldestDue DEF MarkNotified, NInv, NotifierTypeOK
<1>2. /\ alerts' = [alerts EXCEPT ![e].notified = TRUE]
      /\ stage = "mark" /\ Handled(e) /\ UNCHANGED <<posts, mishaps>>
  BY DEF MarkNotified
<1>3. Received(e) /\ alerts[e].required
  BY <1>1, <1>2 DEF NInv, BatchUnsent, MarkedReceived, Unsent
<1> HIDE DEF e
<1>4. ASSUME NEW a \in Alert
      PROVE  LET b == [a EXCEPT !.notified = TRUE]
             IN b \in Alert /\ b.required = a.required /\ b.notified = TRUE
  BY DEF Alert
<1>5. alerts \in [1..Len(alerts) -> Alert] /\ DOMAIN alerts = 1..Len(alerts)
  BY DEF NInv, NotifierTypeOK
<1>6. /\ alerts'[e] \in Alert /\ alerts'[e].required = alerts[e].required
      /\ alerts'[e].notified = TRUE
      /\ \A f \in DOMAIN alerts \ {e} : alerts'[f] = alerts[f]
      /\ alerts' \in [1..Len(alerts) -> Alert]
  BY <1>1, <1>2, <1>4, <1>5
<1>7. alerts' \in Seq(Alert) /\ Len(alerts') = Len(alerts) /\ DOMAIN alerts' = DOMAIN alerts
  BY <1>5, <1>6, SameLength DEF NInv, NotifierTypeOK
<1>8. due' = due \ {e} /\ stage' = "post" /\ Cardinality(due') <= NotifyLimit
  BY <1>2, HandledSmaller DEF Handled, NInv
<1>9. NotifierTypeOK'
  BY <1>2, <1>7, <1>8 DEF NInv, NotifierTypeOK
<1>10. NotifiedIsDelivered'
  BY <1>2, <1>3, <1>6, <1>7 DEF NInv, NotifiedIsDelivered, Received
<1>11. BatchUnsent' /\ MarkedReceived'
  BY <1>6, <1>7, <1>8 DEF NInv, BatchUnsent, MarkedReceived, Unsent
<1>12. PostsOwed'
  <2>1. \A f \in 1..MaxEvents : Settled(f) => Settled(f)'
    BY <1>6, <1>7 DEF Settled, e
  <2>2. QED  BY <1>2, <2>1 DEF NInv, NotifierTypeOK, PostsOwed
<1>13. QED  BY <1>9, <1>10, <1>11, <1>12 DEF NInv

\* A failed post, of whatever kind: if the webhook has received the event, a
\* mishap is counted.
LEMMA PostponeKeeps ==
  ASSUME NInv, stage = "post", due # {}, alerts' = Postponed(Min(due)), Handled(Min(due)),
         mishaps' \in 0..MaxFaults,
         \/ UNCHANGED <<posts, mishaps>>
         \/ posts' \in {posts, Posted(Min(due))} /\ mishaps' = mishaps + 1
  PROVE  NInv'
<1> DEFINE e == Min(due)
<1>1. e \in due /\ e \in DOMAIN alerts
  BY OldestDue DEF NInv
<1>2. /\ alerts' = Postponed(e) /\ Handled(e)
      /\ \/ UNCHANGED <<posts, mishaps>>
         \/ posts' \in {posts, Posted(e)} /\ mishaps' = mishaps + 1
  OBVIOUS
<1> HIDE DEF e
<1>3. /\ alerts' \in Seq(Alert) /\ Len(alerts') = Len(alerts)
      /\ DOMAIN alerts' = DOMAIN alerts
      /\ \A f \in DOMAIN alerts : /\ alerts'[f].required = alerts[f].required
                                 /\ alerts'[f].notified = alerts[f].notified
  BY <1>1, <1>2, PostponedKeeps DEF NInv
<1>4. due' \subseteq due /\ stage' = "post" /\ Cardinality(due') <= NotifyLimit
  BY <1>2, HandledSmaller DEF Handled, NInv
<1>5. /\ posts' \in [1..MaxEvents -> Nat] /\ posts \in [1..MaxEvents -> Nat]
      /\ \A f \in 1..MaxEvents : /\ posts'[f] >= posts[f]
                                 /\ posts'[f] - posts[f] <= mishaps' - mishaps
  <2>1. /\ e \in 1..MaxEvents /\ Posted(e) \in [1..MaxEvents -> Nat]
        /\ Posted(e)[e] = posts[e] + 1
        /\ \A f \in 1..MaxEvents : f # e => Posted(e)[f] = posts[f]
    BY <1>1, PostedEffect DEF NInv
  <2>2. posts \in [1..MaxEvents -> Nat] /\ mishaps \in Nat
    BY DEF NInv, NotifierTypeOK
  <2>3. CASE UNCHANGED <<posts, mishaps>>
    BY <2>2, <2>3
  <2>4. CASE posts' = posts /\ mishaps' = mishaps + 1
    BY <2>2, <2>4
  <2>5. CASE posts' = Posted(e) /\ mishaps' = mishaps + 1
    <3>1. \A f \in 1..MaxEvents : posts'[f] = posts[f] \/ posts'[f] = posts[f] + 1
      BY <2>1, <2>5
    <3>2. \A f \in 1..MaxEvents : posts'[f] >= posts[f] /\ posts'[f] - posts[f] <= 1
      BY <2>2, <3>1
    <3>3. mishaps' - mishaps = 1
      BY <2>2, <2>5
    <3>4. QED  BY <2>1, <2>2, <2>5, <3>2, <3>3
  <2>6. QED  BY <1>2, <2>3, <2>4, <2>5
<1>6. NotifierTypeOK'
  BY <1>3, <1>4, <1>5 DEF NInv, NotifierTypeOK
<1>7. NotifiedIsDelivered'
  <2>1. DOMAIN alerts \subseteq 1..MaxEvents
    BY NotifierAssumption DEF NInv, NotifierTypeOK
  <2>2. \A f \in 1..MaxEvents : Received(f) => Received(f)'
    BY <1>5 DEF Received
  <2>3. QED  BY <1>3, <2>1, <2>2 DEF NInv, NotifiedIsDelivered
<1>8. BatchUnsent' /\ MarkedReceived'
  BY <1>3, <1>4 DEF NInv, BatchUnsent, MarkedReceived, Unsent
<1>9. PostsOwed'
  <2>1. \A f \in 1..MaxEvents : Settled(f)' <=> Settled(f)
    BY <1>3, <1>4 DEF Settled
  <2>2. QED  BY <1>5, <2>1 DEF NInv, NotifierTypeOK, PostsOwed
<1>10. QED  BY <1>6, <1>7, <1>8, <1>9 DEF NInv

LEMMA InterruptedKeeps ==
  ASSUME NInv, NEW next \in {"cycle", "down"}, Interrupted(next)
  PROVE  NInv'
<1>1. Cardinality({}) <= NotifyLimit
  BY FS_EmptySet, NotifierAssumption
<1>2. NotifierTypeOK'
  BY <1>1, NotifierAssumption DEF NInv, NotifierTypeOK, Interrupted
<1>3. NotifiedIsDelivered' /\ BatchUnsent' /\ MarkedReceived'
  BY DEF NInv, NotifiedIsDelivered, Received, BatchUnsent, MarkedReceived, Interrupted
<1>4. PostsOwed'
  BY DEF NInv, NotifierTypeOK, PostsOwed, Settled, Interrupted
<1>5. QED  BY <1>2, <1>3, <1>4 DEF NInv

LEMMA NotifierNextInv == NInv /\ [NotifierNext]_notifierVars => NInv'
<1> SUFFICES ASSUME NInv, [NotifierNext]_notifierVars PROVE NInv'
  OBVIOUS
<1>1. CASE Start \/ EndDispatch \/ UNCHANGED notifierVars
  <2>1. UNCHANGED <<alerts, posts, due, mishaps>>
    BY <1>1 DEF Start, EndDispatch, notifierVars
  <2>2. NotifierTypeOK'
    BY <1>1, <2>1 DEF NInv, NotifierTypeOK, Start, EndDispatch, notifierVars
  <2>3. NotifiedIsDelivered' /\ BatchUnsent'
    BY <2>1 DEF NInv, NotifiedIsDelivered, Received, BatchUnsent, Unsent
  <2>4. MarkedReceived' /\ PostsOwed'
    <3>1. stage' = "mark" <=> stage = "mark"
      BY <1>1 DEF Start, EndDispatch, notifierVars
    <3>2. QED
      BY <2>1, <3>1 DEF NInv, MarkedReceived, Received, PostsOwed, Settled
  <2>5. QED  BY <2>2, <2>3, <2>4 DEF NInv
<1>2. CASE ReadDue
  BY <1>2, ReadKeeps
<1>3. CASE PostAccepted
  BY <1>3, AcceptedKeeps
<1>4. CASE MarkNotified
  BY <1>4, MarkKeeps
<1>5. CASE PostRefused
  <2>1. mishaps \in 0..MaxFaults
    BY DEF NInv, NotifierTypeOK
  <2>2. QED  BY <1>5, <2>1, PostponeKeeps DEF PostRefused
<1>6. CASE PostFails
  <2>1. mishaps' \in 0..MaxFaults /\ mishaps' # 0
    BY <1>6, NotifierAssumption DEF PostFails, NInv, NotifierTypeOK
  <2>2. posts' \in {posts, Posted(Min(due))} /\ mishaps' = mishaps + 1
    BY <1>6 DEF PostFails
  <2>3. QED  BY <1>6, <2>1, <2>2, PostponeKeeps DEF PostFails
<1>7. CASE \E r \in Reports : RecordEvent(r[1], r[2])
  BY <1>7, RecordKeeps
<1>8. CASE Interrupted("cycle") \/ Interrupted("down")
  BY <1>8, InterruptedKeeps
<1>9. QED
  BY <1>1, <1>2, <1>3, <1>4, <1>5, <1>6, <1>7, <1>8 DEF NotifierNext, NotifierStep

-----------------------------------------------------------------------------
(* The invariant holds in every reachable state.                           *)
THEOREM NotifierInvariant == NotifierSpec => []NInv
<1>1. QED  BY NotifierInitInv, NotifierNextInv, PTL DEF NotifierSpec

(* Every variable keeps its type; a batch has at most NotifyLimit events.  *)
THEOREM NotifierTypeCorrect == NotifierSpec => []NotifierTypeOK
<1>1. NInv => NotifierTypeOK
  BY DEF NInv
<1>2. QED  BY <1>1, NotifierInvariant, PTL

(* What is marked as notified has reached the webhook, through lost        *)
(* answers, database errors and crashes.                                   *)
THEOREM NotifierNotifiedIsDelivered == NotifierSpec => []NotifiedIsDelivered
<1>1. NInv => NotifiedIsDelivered
  BY DEF NInv
<1>2. QED  BY <1>1, NotifierInvariant, PTL

(* The webhook receives an event once, and once more at most for every     *)
(* failure: a lost answer, a database error, a crash.                      *)
THEOREM NotifierPostedOnce == NotifierSpec => []PostedOnce
<1>1. NInv => PostedOnce
  BY DEF NInv, NotifierTypeOK, PostsOwed, PostedOnce
<1>2. QED  BY <1>1, NotifierInvariant, PTL
=============================================================================
