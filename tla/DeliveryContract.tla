--------------------------- MODULE DeliveryContract ---------------------------
(***************************************************************************)
(* What the sensor path promises between "the Pi has queued a reading" and *)
(* "the Pi may forget it", with no network, no processes and no retries.   *)
(* Module SensorDelivery implements it.                                    *)
(***************************************************************************)
CONSTANT Reading    \* records with the fields mid, dev and seq

VARIABLES
  produced,     \* queued on the Pi, once each
  stored,       \* committed on the server
  forgotten,    \* deleted from the Pi's outbox
  quarantined   \* set aside on the Pi for a person to look at

contractVars == <<produced, stored, forgotten, quarantined>>

Init ==
  /\ produced = {}
  /\ stored = {}
  /\ forgotten = {}
  /\ quarantined = {}

Produce(p) ==
  /\ \A q \in produced : q.mid # p.mid /\ q.seq # p.seq
  /\ produced' = produced \cup {p}
  /\ UNCHANGED <<stored, forgotten, quarantined>>

\* Even a reading the Pi has set aside can still arrive, from an attempt it
\* has given up on.  One that is forgotten has arrived before.
Store(p) ==
  /\ p \in produced \ (stored \cup forgotten)
  /\ stored' = stored \cup {p}
  /\ UNCHANGED <<produced, forgotten, quarantined>>

Forget(p) ==
  /\ p \in stored \ (forgotten \cup quarantined)
  /\ forgotten' = forgotten \cup {p}
  /\ UNCHANGED <<produced, stored, quarantined>>

Quarantine(p) ==
  /\ p \in produced \ (forgotten \cup quarantined)
  /\ quarantined' = quarantined \cup {p}
  /\ UNCHANGED <<produced, stored, forgotten>>

Next ==
  \E p \in Reading : Produce(p) \/ Store(p) \/ Forget(p) \/ Quarantine(p)

Spec == Init /\ [][Next]_contractVars

-----------------------------------------------------------------------------
\* What this comes to for whoever trusts the Pi with a reading: it is forgotten
\* only when it is stored, and not if it was set aside; and no two readings of
\* the Pi share a message id or a number.
OnlyStoredForgotten ==
  /\ forgotten \subseteq stored
  /\ stored \cup quarantined \subseteq produced
  /\ forgotten \cap quarantined = {}
  /\ \A p, q \in produced : p.mid = q.mid \/ p.seq = q.seq => p = q

\* Nothing is taken back: what is forgotten never returns to the outbox, what is
\* stored stays stored, and no reading that was set aside is put back.
NothingReturns ==
  [][/\ produced \subseteq produced'
     /\ stored \subseteq stored'
     /\ forgotten \subseteq forgotten'
     /\ quarantined \subseteq quarantined']_contractVars
=============================================================================
