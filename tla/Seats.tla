-------------------------------- MODULE Seats --------------------------------
(***************************************************************************)
(* What a meetup promises about its seats, with no requests, calls or      *)
(* clocks: people take and give up seats only while the meetup is on, no   *)
(* more of them than it has room for, and who was there when it ended      *)
(* stays settled, but for people at the time their account is erased.      *)
(***************************************************************************)
EXTENDS Integers, FiniteSets

CONSTANTS Users, Meetups, Capacity

VARIABLES
  phase,    \* of each meetup
  seated,   \* who has a seat on it
  gone      \* people whose account was erased

vars == <<phase, seated, gone>>

Init ==
  /\ phase = [m \in Meetups |-> "planned"]
  /\ seated = [m \in Meetups |-> {}]
  /\ gone = {}

Offer(m) ==
  /\ phase[m] = "planned"
  /\ phase' = [phase EXCEPT ![m] = "on"]
  /\ UNCHANGED <<seated, gone>>

Take(m, u) ==
  /\ phase[m] = "on"
  /\ u \notin seated[m]
  /\ Cardinality(seated[m]) < Capacity[m]
  /\ seated' = [seated EXCEPT ![m] = @ \cup {u}]
  /\ UNCHANGED <<phase, gone>>

Give(m, u) ==
  /\ phase[m] = "on"
  /\ seated' = [seated EXCEPT ![m] = @ \ {u}]
  /\ UNCHANGED <<phase, gone>>

Finish(m) ==
  /\ phase[m] = "on"
  /\ phase' = [phase EXCEPT ![m] = "over"]
  /\ UNCHANGED <<seated, gone>>

Forget(u) ==
  /\ u \notin gone
  /\ gone' = gone \cup {u}
  /\ seated' = [m \in Meetups |-> seated[m] \ {u}]
  /\ UNCHANGED phase

Next ==
  \/ \E m \in Meetups : Offer(m) \/ Finish(m)
  \/ \E m \in Meetups, u \in Users : Take(m, u) \/ Give(m, u)
  \/ \E u \in Users : Forget(u)

Spec == Init /\ [][Next]_vars
=============================================================================
