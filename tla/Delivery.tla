------------------------------ MODULE Delivery ------------------------------
(***************************************************************************)
(* What an outbox promises its callers, with no pollers, leases or clocks: *)
(* a row that was stored with the business write is marked done only after *)
(* its side effect happened at least once; the side effect never happens   *)
(* for a row nobody stored; a row is given up only while it was pending.   *)
(* Duplicates are allowed (package outbox, "AT-LEAST-ONCE, NOT             *)
(* EXACTLY-ONCE").                                                         *)
(***************************************************************************)
CONSTANT Rows

VARIABLES
  status,     \* where each row stands
  happened    \* rows whose side effect happened at least once

vars == <<status, happened>>

Statuses == {"none", "pending", "done", "abandoned", "erased"}

TypeOK ==
  /\ status \in [Rows -> Statuses]
  /\ happened \subseteq Rows

Init ==
  /\ status = [r \in Rows |-> "none"]
  /\ happened = {}

Move(r, from, to) ==
  /\ status[r] \in from
  /\ status' = [status EXCEPT ![r] = to]
  /\ UNCHANGED happened

Store(r) == Move(r, {"none"}, "pending")

\* The effect may repeat, and may even come after the row was settled or
\* erased: a delivery that is under way is not called back.
Happen(r) ==
  /\ status[r] # "none"
  /\ happened' = happened \cup {r}
  /\ UNCHANGED status

\* A row that one claimer gave up may still be completed by another.
Complete(r) == r \in happened /\ Move(r, {"pending", "abandoned"}, "done")

Abandon(r) == Move(r, {"pending"}, "abandoned")

Erase(r) == Move(r, {"pending", "done", "abandoned"}, "erased")

Next ==
  \E r \in Rows :
    Store(r) \/ Happen(r) \/ Complete(r) \/ Abandon(r) \/ Erase(r)

Spec == Init /\ [][Next]_vars
=============================================================================
