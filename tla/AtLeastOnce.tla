----------------------------- MODULE AtLeastOnce -----------------------------
(***************************************************************************)
(* What a QoS1 publish promises the application, without sockets, packet   *)
(* ids or threads: a payload the client has accepted is given to the       *)
(* broker at least once before the client lets go of it.                   *)
(***************************************************************************)

CONSTANT Msgs            \* payloads

VARIABLES
  promised,              \* payloads the client has accepted
  delivered,             \* payloads the broker has taken
  released,              \* payloads the client has let go of
  exhausted              \* a packet id was mistaken for another: no promise any more

vars == <<promised, delivered, released, exhausted>>

Init ==
  /\ promised = {} /\ delivered = {} /\ released = {}
  /\ exhausted = FALSE

Accept(m) ==
  /\ m \notin promised
  /\ promised' = promised \cup {m}
  /\ UNCHANGED <<delivered, released, exhausted>>

Deliver(m) ==
  /\ m \in promised
  /\ delivered' = delivered \cup {m}
  /\ UNCHANGED <<promised, released, exhausted>>

\* Only what has been delivered is let go of; the step that lets go of more
\* ends the promise.
Release(S) ==
  /\ S \subseteq promised
  /\ exhausted' \in {exhausted, TRUE}
  /\ exhausted' \/ S \subseteq delivered
  /\ released' = released \cup S
  /\ UNCHANGED <<promised, delivered>>

Exhaust ==
  /\ exhausted' = TRUE
  /\ UNCHANGED <<promised, delivered, released>>

Next ==
  \/ \E m \in Msgs : Accept(m) \/ Deliver(m)
  \/ \E S \in SUBSET Msgs : Release(S)
  \/ Exhaust

Spec == Init /\ [][Next]_vars

=============================================================================
