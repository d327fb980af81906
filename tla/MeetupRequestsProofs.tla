------------------------ MODULE MeetupRequestsProofs ------------------------
(***************************************************************************)
(* Theorems of MeetupRequests, for any finite sets of users and meetups,   *)
(* any windows, capacities and number of requests, and unbounded time.     *)
(***************************************************************************)
EXTENDS MeetupRequests, FiniteSetTheorems, TLAPS

\* What a call in progress knows: no meetup it creates is there yet, no row it
\* inserts is used yet; a meetup that is not there has no rows; and who was told
\* of an end was told of one that happened.
CallShape ==
  /\ \A m \in hosting : mstatus[m] = "none"
  /\ \A r \in Rows : joining[r] # "no" => status[r] = "unused"
  /\ \A r \in Rows : mstatus[Of(r)] = "none" => status[r] = "unused" /\ joining[r] = "no"
  /\ \A r \in told : Ended(Of(r))

IInv ==
  /\ TypeOK /\ CallShape
  /\ SeatsWithinCapacity /\ OpenHasASeat /\ SeatLostOnlyToPurge
  /\ OneLiveRequest /\ EndedIsTold

-----------------------------------------------------------------------------
(* Rows and seats *)

LEMMA RowParts == \A r \in Rows : Of(r) \in Meetups /\ By(r) \in Users
BY DEF Rows, Of, By

LEMMA RowsFinite == IsFiniteSet(Rows)
<1> DEFINE Asks == 1 .. MaxAsks
           Pairs == Users \X Asks
           Nested == Meetups \X Pairs
           f == [x \in Nested |-> <<x[1], x[2][1], x[2][2]>>]
<1>1. IsFiniteSet(Asks)
  BY FS_Interval, RequestsAssumption
<1>2. IsFiniteSet(Pairs)
  BY <1>1, FS_Product, RequestsAssumption
<1>3. IsFiniteSet(Nested)
  BY <1>2, FS_Product, RequestsAssumption
<1>4. f \in Surjection(Nested, Rows)
  <2>1. f \in [Nested -> Rows]
    BY DEF Rows
  <2>2. ASSUME NEW r \in Rows PROVE \E x \in Nested : f[x] = r
    <3>1. PICK m \in Meetups, u \in Users, k \in Asks : r = <<m, u, k>>
      BY <2>2 DEF Rows
    <3>2. <<m, <<u, k>>>> \in Nested /\ f[<<m, <<u, k>>>>] = r
      BY <3>1
    <3> QED BY <3>2
  <2> QED BY <2>1, <2>2 DEF Surjection
<1> HIDE DEF Nested, f
<1> QED BY <1>3, <1>4, FS_Surjection

LEMMA SeatsFinite ==
  ASSUME NEW m \in Meetups
  PROVE  IsFiniteSet(Seats(m)) /\ Cardinality(Seats(m)) \in Nat
<1>1. Seats(m) \in SUBSET Rows
  BY DEF Seats, RowsOf
<1>2. IsFiniteSet(Seats(m))
  BY <1>1, RowsFinite, FS_Subset
<1> QED BY <1>2, FS_CardinalityType

LEMMA FewerSeats ==
  ASSUME NEW m \in Meetups, NEW T \in SUBSET Seats(m)
  PROVE  IsFiniteSet(T) /\ Cardinality(T) \in Nat /\ Cardinality(T) <= Cardinality(Seats(m))
BY SeatsFinite, FS_Subset, FS_CardinalityType

\* A purge, once done, is not undone.
LEMMA PurgedStays ==
  ASSUME TypeOK, [Next]_vars, NEW u \in Users, account[u] = "purged"
  PROVE  account'[u] = "purged"
<1>1. ASSUME UNCHANGED account PROVE account'[u] = "purged"
  BY <1>1
<1>2. ASSUME NEW v \in Users, Departure(v) PROVE account'[u] = "purged"
  BY <1>2 DEF Departure, Leave, Delete, Purge, TypeOK
<1>3. ASSUME NEW r \in Rows, Join(r) \/ Answer(r) \/ Back(r) PROVE UNCHANGED account
  BY <1>3 DEF Join, JoinAsk, JoinCheck, JoinWrite, JoinAbort, Answer, Accept, Reject,
      Back, WithdrawRead, CancelPending, Withdraw, calls, tables
<1>4. ASSUME NEW m \in Meetups, Host(m) \/ Ends(m) PROVE UNCHANGED account
  BY <1>4 DEF Host, HostCheck, HostWrite, HostAbort, Ends, Cancel, Close, AutoClose,
      CancelForDeleted, Finish
<1>5. ASSUME Tick PROVE UNCHANGED account
  BY <1>5 DEF Tick
<1> QED BY <1>1, <1>2, <1>3, <1>4, <1>5 DEF Next, vars

\* Accepts, withdrawals and purges change who is seated; the rest do not.
Quiet == UNCHANGED <<tables, purged>>
OtherStep ==
  \/ \E r \in Rows : JoinWrite(r) \/ Reject(r) \/ CancelPending(r)
  \/ \E m \in Meetups : HostWrite(m)
  \/ \E m \in Meetups, s \in {"cancelled", "completed"} : Finish(m, s)
  \/ Quiet
TableStep ==
  \/ \E r \in Rows : Accept(r) \/ Withdraw(r)
  \/ \E u \in Users : Purge(u)
  \/ OtherStep

LEMMA Steps == ASSUME TypeOK, [Next]_vars PROVE TableStep
<1>1. ASSUME NEW r \in Rows, Join(r) \/ Answer(r) \/ Back(r) PROVE TableStep
  BY <1>1 DEF TableStep, OtherStep, Quiet, Join, JoinAsk, JoinCheck, JoinAbort, Answer, Back,
      WithdrawRead, tables, purged
<1>2. ASSUME NEW m \in Meetups, Host(m) PROVE TableStep
  BY <1>2 DEF TableStep, OtherStep, Quiet, Host, HostCheck, HostAbort, tables, purged
<1>3. ASSUME NEW m \in Meetups, Ends(m) PROVE TableStep
  BY <1>3 DEF TableStep, OtherStep, Ends, Cancel, Close, AutoClose, CancelForDeleted
<1>4. ASSUME NEW u \in Users, Departure(u) PROVE TableStep
  BY <1>4 DEF TableStep, OtherStep, Quiet, Departure, Leave, Delete, tables, purged, TypeOK
<1>5. ASSUME Tick \/ UNCHANGED vars PROVE TableStep
  BY <1>5 DEF TableStep, OtherStep, Quiet, Tick, tables, vars, purged
<1> QED BY <1>1, <1>2, <1>3, <1>4, <1>5 DEF Next
-----------------------------------------------------------------------------
(* Types, and what calls in progress know *)

\* Every step keeps the types.
LEMMA TypeStep ==
  ASSUME TypeOK, [Next]_vars
  PROVE  TypeOK'
<1>1. ASSUME NEW r \in Rows, JoinAsk(r) PROVE TypeOK'
  BY <1>1, RowParts DEF JoinAsk, TypeOK, Statuses, tables, calls, Live
<1>2. ASSUME NEW r \in Rows, JoinCheck(r) PROVE TypeOK'
  BY <1>2, RowParts DEF JoinCheck, TypeOK, Statuses, tables, calls, Live
<1>3. ASSUME NEW r \in Rows, JoinWrite(r) PROVE TypeOK'
  BY <1>3, RowParts DEF JoinWrite, TypeOK, Statuses, tables, calls, Live
<1>4. ASSUME NEW r \in Rows, JoinAbort(r) PROVE TypeOK'
  BY <1>4, RowParts DEF JoinAbort, TypeOK, Statuses, tables, calls, Live
<1>5. ASSUME NEW r \in Rows, Accept(r) PROVE TypeOK'
  BY <1>5, RowParts DEF Accept, Acceptable, TypeOK, Statuses, tables, calls, Live
<1>6. ASSUME NEW r \in Rows, Reject(r) PROVE TypeOK'
  BY <1>6, RowParts DEF Reject, TypeOK, Statuses, tables, calls, Live
<1>7. ASSUME NEW r \in Rows, WithdrawRead(r) PROVE TypeOK'
  BY <1>7, RowParts DEF WithdrawRead, TypeOK, Statuses, tables, calls, Live
<1>8. ASSUME NEW r \in Rows, CancelPending(r) PROVE TypeOK'
  BY <1>8, RowParts DEF CancelPending, TypeOK, Statuses, tables, calls, Live
<1>9. ASSUME NEW r \in Rows, Withdraw(r) PROVE TypeOK'
  BY <1>9, RowParts DEF Withdraw, Withdrawable, TypeOK, Statuses, tables, calls,
      Live
<1>10. ASSUME NEW m \in Meetups, HostCheck(m) PROVE TypeOK'
  BY <1>10, RowParts DEF HostCheck, TypeOK, Statuses, tables, calls, Live
<1>11. ASSUME NEW m \in Meetups, HostWrite(m) PROVE TypeOK'
  BY <1>11, RowParts DEF HostWrite, TypeOK, Statuses, tables, calls, Live
<1>12. ASSUME NEW m \in Meetups, HostAbort(m) PROVE TypeOK'
  BY <1>12, RowParts DEF HostAbort, TypeOK, Statuses, tables, calls, Live
<1>13. ASSUME NEW u \in Users, Leave(u) PROVE TypeOK'
  BY <1>13, RowParts DEF Leave, TypeOK, Statuses, tables, calls, Live
<1>14. ASSUME NEW u \in Users, Delete(u) PROVE TypeOK'
  BY <1>14, RowParts DEF Delete, TypeOK, Statuses, tables, calls, Live
<1>15. ASSUME NEW u \in Users, Purge(u) PROVE TypeOK'
  BY <1>15, RowParts DEF Purge, TypeOK, Statuses, tables, calls, Live
<1>16. ASSUME NEW m \in Meetups, NEW s \in {"cancelled", "completed"}, Finish(m, s)
      PROVE TypeOK'
  BY <1>16, RowParts DEF Finish, Seats, RowsOf, TypeOK, Statuses, tables, calls,
      Live
<1>17. ASSUME Tick PROVE TypeOK'
  BY <1>17, RowParts DEF Tick, TypeOK, Statuses, tables, calls, Live
<1>18. ASSUME UNCHANGED vars PROVE TypeOK'
  BY <1>18, RowParts DEF vars, TypeOK, Statuses, tables, calls, Live
<1> QED BY <1>1, <1>2, <1>3, <1>4, <1>5, <1>6, <1>7, <1>8, <1>9, <1>10, <1>11,
    <1>12, <1>13, <1>14, <1>15, <1>16, <1>17, <1>18 DEF Next, Join, Answer, Back,
    Host, Departure, Ends, Cancel, Close, AutoClose, CancelForDeleted

\* A meetup's rows come after it, an insert's row is new, and only ends are told.
LEMMA CallStep ==
  ASSUME TypeOK, CallShape, [Next]_vars
  PROVE  CallShape'
<1>1. ASSUME NEW r \in Rows, JoinAsk(r) PROVE CallShape'
  BY <1>1, RowParts DEF JoinAsk, TypeOK, CallShape, Statuses, tables, calls, Live,
      Ended
<1>2. ASSUME NEW r \in Rows, JoinCheck(r) PROVE CallShape'
  BY <1>2, RowParts DEF JoinCheck, TypeOK, CallShape, Statuses, tables, calls, Live,
      Ended
<1>3. ASSUME NEW r \in Rows, JoinWrite(r) PROVE CallShape'
  BY <1>3, RowParts DEF JoinWrite, TypeOK, CallShape, Statuses, tables, calls, Live,
      Ended
<1>4. ASSUME NEW r \in Rows, JoinAbort(r) PROVE CallShape'
  BY <1>4, RowParts DEF JoinAbort, TypeOK, CallShape, Statuses, tables, calls, Live,
      Ended
<1>5. ASSUME NEW r \in Rows, Accept(r) PROVE CallShape'
  BY <1>5, RowParts DEF Accept, Acceptable, Pending, RowsOf, TypeOK, CallShape,
      Statuses, tables, calls, Live, Ended
<1>6. ASSUME NEW r \in Rows, Reject(r) PROVE CallShape'
  BY <1>6, RowParts DEF Reject, TypeOK, CallShape, Statuses, tables, calls, Live,
      Ended
<1>7. ASSUME NEW r \in Rows, WithdrawRead(r) PROVE CallShape'
  BY <1>7, RowParts DEF WithdrawRead, TypeOK, CallShape, Statuses, tables, calls,
      Live, Ended
<1>8. ASSUME NEW r \in Rows, CancelPending(r) PROVE CallShape'
  BY <1>8, RowParts DEF CancelPending, TypeOK, CallShape, Statuses, tables, calls,
      Live, Ended
<1>9. ASSUME NEW r \in Rows, Withdraw(r) PROVE CallShape'
  BY <1>9, RowParts DEF Withdraw, Withdrawable, IsLive, Reopens, TypeOK, CallShape,
      Statuses, tables, calls, Live, Ended
<1>10. ASSUME NEW m \in Meetups, HostCheck(m) PROVE CallShape'
  BY <1>10, RowParts DEF HostCheck, TypeOK, CallShape, Statuses, tables, calls,
      Live, Ended
<1>11. ASSUME NEW m \in Meetups, HostWrite(m) PROVE CallShape'
  BY <1>11, RowParts DEF HostWrite, TypeOK, CallShape, Statuses, tables, calls,
      Live, Ended
<1>12. ASSUME NEW m \in Meetups, HostAbort(m) PROVE CallShape'
  BY <1>12, RowParts DEF HostAbort, TypeOK, CallShape, Statuses, tables, calls,
      Live, Ended
<1>13. ASSUME NEW u \in Users, Leave(u) PROVE CallShape'
  BY <1>13, RowParts DEF Leave, TypeOK, CallShape, Statuses, tables, calls, Live,
      Ended
<1>14. ASSUME NEW u \in Users, Delete(u) PROVE CallShape'
  BY <1>14, RowParts DEF Delete, TypeOK, CallShape, Statuses, tables, calls, Live,
      Ended
<1>15. ASSUME NEW u \in Users, Purge(u) PROVE CallShape'
  BY <1>15, RowParts DEF Purge, TypeOK, CallShape, Statuses, tables, calls, Live,
      Ended
<1>16. ASSUME NEW m \in Meetups, NEW s \in {"cancelled", "completed"}, Finish(m, s)
      PROVE CallShape'
  BY <1>16, RowParts DEF Finish, Seats, RowsOf, TypeOK, CallShape, Statuses, tables,
      calls, Live, Ended
<1>17. ASSUME Tick PROVE CallShape'
  BY <1>17, RowParts DEF Tick, TypeOK, CallShape, Statuses, tables, calls, Live,
      Ended
<1>18. ASSUME UNCHANGED vars PROVE CallShape'
  BY <1>18, RowParts DEF vars, TypeOK, CallShape, Statuses, tables, calls, Live,
      Ended
<1> QED BY <1>1, <1>2, <1>3, <1>4, <1>5, <1>6, <1>7, <1>8, <1>9, <1>10, <1>11,
    <1>12, <1>13, <1>14, <1>15, <1>16, <1>17, <1>18 DEF Next, Join, Answer, Back,
    Host, Departure, Ends, Cancel, Close, AutoClose, CancelForDeleted
-----------------------------------------------------------------------------
(* What a step does to the seats *)

\* Only these rows change hands: an accept takes one seat, a withdrawal gives
\* one back, a purge gives back its user's.
LEMMA AcceptSeats ==
  ASSUME TypeOK, NEW r \in Rows, Accept(r), NEW m \in Meetups
  PROVE  Seats(m)' = IF m = Of(r) THEN Seats(m) \cup {r} ELSE Seats(m)
<1>1. ASSUME NEW q \in Rows
      PROVE  status'[q] = "accepted" <=> q = r \/ status[q] = "accepted"
  BY <1>1 DEF Accept, Acceptable, Pending, RowsOf
<1> QED BY <1>1 DEF Seats, RowsOf

LEMMA WithdrawSeats ==
  ASSUME TypeOK, NEW r \in Rows, Withdraw(r), NEW m \in Meetups
  PROVE  Seats(m)' = IF Withdrawable(r) THEN Seats(m) \ {r} ELSE Seats(m)
<1>1. ASSUME NEW q \in Rows
      PROVE  status'[q] = "accepted" <=> status[q] = "accepted" /\ ~(q = r /\ Withdrawable(r))
  BY <1>1 DEF Withdraw, TypeOK
<1> QED BY <1>1 DEF Seats, RowsOf

LEMMA PurgeSeats ==
  ASSUME TypeOK, NEW u \in Users, Purge(u), NEW m \in Meetups
  PROVE  Seats(m)' = {r \in Seats(m) : By(r) # u}
<1>1. ASSUME NEW q \in Rows
      PROVE  status'[q] = "accepted" <=> status[q] = "accepted" /\ By(q) # u
  BY <1>1 DEF Purge
<1> QED BY <1>1 DEF Seats, RowsOf

LEMMA OtherSeats ==
  ASSUME TypeOK, CallShape, NEW m \in Meetups, OtherStep
  PROVE  Seats(m)' = Seats(m)
<1>1. ASSUME NEW r \in Rows, JoinWrite(r) PROVE Seats(m)' = Seats(m)
  BY <1>1 DEF JoinWrite, Seats, RowsOf, TypeOK, CallShape
<1>2. ASSUME NEW r \in Rows, Reject(r) PROVE Seats(m)' = Seats(m)
  BY <1>2 DEF Reject, Seats, RowsOf, TypeOK
<1>3. ASSUME NEW r \in Rows, CancelPending(r) PROVE Seats(m)' = Seats(m)
  BY <1>3 DEF CancelPending, Seats, RowsOf, TypeOK
<1>4. ASSUME UNCHANGED status PROVE Seats(m)' = Seats(m)
  BY <1>4 DEF Seats, RowsOf
<1> QED BY <1>1, <1>2, <1>3, <1>4 DEF OtherStep, HostWrite, Finish, Quiet, tables

-----------------------------------------------------------------------------
(* The invariants, one step at a time *)

\* An accept counts the seats under the meetup's row lock; nothing else adds one.
LEMMA CapacityStep ==
  ASSUME TypeOK, CallShape, SeatsWithinCapacity, [Next]_vars
  PROVE  SeatsWithinCapacity'
<1> SUFFICES ASSUME NEW m \in Meetups PROVE Cardinality(Seats(m))' <= Capacity[m]
  BY DEF SeatsWithinCapacity
<1>0. /\ IsFiniteSet(Seats(m)) /\ Cardinality(Seats(m)) \in Nat
      /\ Cardinality(Seats(m)) <= Capacity[m] /\ Capacity[m] \in Nat
  BY SeatsFinite, RequestsAssumption DEF SeatsWithinCapacity
<1>1. ASSUME NEW r \in Rows, Accept(r) PROVE Cardinality(Seats(m))' <= Capacity[m]
  <2>1. CASE m = Of(r)
    <3>1. Cardinality(Seats(m)) < Capacity[m]
      BY <1>1, <2>1 DEF Accept, Acceptable, HasSeat
    <3>2. Seats(m)' = Seats(m) \cup {r}
      BY <1>1, <2>1, AcceptSeats
    <3>3. Cardinality(Seats(m) \cup {r}) \in {Cardinality(Seats(m)), Cardinality(Seats(m)) + 1}
      BY <1>0, FS_AddElement
    <3> QED BY <1>0, <3>1, <3>2, <3>3
  <2>2. CASE m # Of(r)
    BY <1>0, <1>1, <2>2, AcceptSeats
  <2> QED BY <2>1, <2>2
<1>2. ASSUME NEW r \in Rows, Withdraw(r) PROVE Cardinality(Seats(m))' <= Capacity[m]
  <2>1. Seats(m)' \in SUBSET Seats(m)
    BY <1>2, WithdrawSeats
  <2> QED BY <1>0, <2>1, FewerSeats
<1>3. ASSUME NEW u \in Users, Purge(u) PROVE Cardinality(Seats(m))' <= Capacity[m]
  <2>1. Seats(m)' \in SUBSET Seats(m)
    BY <1>3, PurgeSeats
  <2> QED BY <1>0, <2>1, FewerSeats
<1>4. ASSUME Seats(m)' = Seats(m) PROVE Cardinality(Seats(m))' <= Capacity[m]
  BY <1>0, <1>4
<1> QED BY <1>1, <1>2, <1>3, <1>4, Steps, OtherSeats DEF TableStep

\* The accept that takes the last seat marks the meetup full, and a withdrawal
\* reopens it only when one is free.
LEMMA OpenStep ==
  ASSUME TypeOK, CallShape, OpenHasASeat, [Next]_vars
  PROVE  OpenHasASeat'
<1> SUFFICES ASSUME NEW m \in Meetups, mstatus'[m] = "open"
             PROVE  Cardinality(Seats(m))' < Capacity[m]
  BY DEF OpenHasASeat, HasSeat
<1>0. /\ IsFiniteSet(Seats(m)) /\ Cardinality(Seats(m)) \in Nat
      /\ Capacity[m] \in Nat /\ Capacity[m] > 0
      /\ mstatus[m] = "open" => Cardinality(Seats(m)) < Capacity[m]
  BY SeatsFinite, RequestsAssumption DEF OpenHasASeat, HasSeat
<1>1. ASSUME NEW r \in Rows, Accept(r) PROVE Cardinality(Seats(m))' < Capacity[m]
  <2>1. CASE m = Of(r)
    <3>1. ~Fills(r)
      BY <1>1, <2>1 DEF Accept, TypeOK
    <3>2. Seats(m)' = Seats(m) \cup {r}
      BY <1>1, <2>1, AcceptSeats
    <3>3. Cardinality(Seats(m) \cup {r}) \in {Cardinality(Seats(m)), Cardinality(Seats(m)) + 1}
      BY <1>0, FS_AddElement
    <3> QED BY <1>0, <2>1, <3>1, <3>2, <3>3 DEF Fills
  <2>2. CASE m # Of(r)
    <3>1. mstatus[m] = "open"
      BY <1>1, <2>2 DEF Accept, TypeOK
    <3> QED BY <1>0, <1>1, <2>2, <3>1, AcceptSeats
  <2> QED BY <2>1, <2>2
<1>2. ASSUME NEW r \in Rows, Withdraw(r) PROVE Cardinality(Seats(m))' < Capacity[m]
  <2>1. Seats(m)' \in SUBSET Seats(m)
    BY <1>2, WithdrawSeats
  <2>2. CASE mstatus[m] = "open"
    BY <1>0, <2>1, <2>2, FewerSeats
  <2>3. CASE mstatus[m] # "open"
    <3>1. Withdrawable(r) /\ Reopens(r) /\ m = Of(r)
      BY <1>2, <2>3, RowParts DEF Withdraw, TypeOK
    <3>2. Seats(m)' = Seats(m) \ {r}
      BY <1>2, <3>1, WithdrawSeats
    <3> QED BY <3>1, <3>2 DEF Reopens
  <2> QED BY <2>2, <2>3
<1>3. ASSUME NEW u \in Users, Purge(u) PROVE Cardinality(Seats(m))' < Capacity[m]
  <2>1. Seats(m)' \in SUBSET Seats(m)
    BY <1>3, PurgeSeats
  <2>2. mstatus[m] = "open"
    BY <1>3 DEF Purge
  <2> QED BY <1>0, <2>1, <2>2, FewerSeats
<1>4. ASSUME NEW n \in Meetups, HostWrite(n) PROVE Cardinality(Seats(m))' < Capacity[m]
  <2>1. Seats(m)' = Seats(m)
    BY <1>4 DEF HostWrite, Seats, RowsOf
  <2>2. CASE m = n
    <3>1. mstatus[m] = "none"
      BY <1>4, <2>2 DEF HostWrite, CallShape
    <3>2. Seats(m) = {}
      BY <3>1 DEF CallShape, Seats, RowsOf
    <3> QED BY <1>0, <2>1, <3>2, FS_EmptySet
  <2>3. CASE m # n
    BY <1>0, <1>4, <2>1, <2>3 DEF HostWrite, TypeOK
  <2> QED BY <2>2, <2>3
<1>5. ASSUME Seats(m)' = Seats(m), mstatus[m] = "open"
      PROVE  Cardinality(Seats(m))' < Capacity[m]
  BY <1>0, <1>5
<1>6. ASSUME OtherStep, \A n \in Meetups : ~HostWrite(n) PROVE mstatus[m] = "open"
  BY <1>6 DEF OtherStep, JoinWrite, Reject, CancelPending, Finish, Quiet, tables, TypeOK
<1> QED BY <1>1, <1>2, <1>3, <1>4, <1>5, <1>6, Steps, OtherSeats DEF TableStep

\* A full meetup keeps its seats taken, but for the rows a purge deleted.
LEMMA LostStep ==
  ASSUME TypeOK, CallShape, SeatLostOnlyToPurge, [Next]_vars
  PROVE  SeatLostOnlyToPurge'
<1> DEFINE Erased(r) == status[r] = "deleted" /\ account[By(r)] = "purged"
<1> SUFFICES ASSUME NEW m \in Meetups, mstatus'[m] = "full",
                    Cardinality(Seats(m))' < Capacity[m]
             PROVE  \E r \in RowsOf(m) : Erased(r)'
  BY DEF SeatLostOnlyToPurge, HasSeat, RowsOf
<1>0. /\ IsFiniteSet(Seats(m)) /\ Cardinality(Seats(m)) \in Nat /\ Capacity[m] \in Nat
  BY SeatsFinite, RequestsAssumption
<1>1. ASSUME NEW r \in RowsOf(m), Erased(r) PROVE Erased(r)'
  <2>1. account'[By(r)] = "purged"
    BY <1>1, PurgedStays, RowParts DEF RowsOf
  <2>2. status'[r] = "deleted"
    <3>1. r \in Rows /\ status[r] = "deleted"
      BY <1>1 DEF RowsOf
    <3>2. ASSUME NEW q \in Rows, Accept(q) PROVE status'[r] = "deleted"
      BY <3>1, <3>2 DEF Accept, Acceptable, Pending, RowsOf
    <3>3. ASSUME NEW q \in Rows, Withdraw(q) PROVE status'[r] = "deleted"
      BY <3>1, <3>3 DEF Withdraw, Withdrawable, IsLive, TypeOK
    <3>4. ASSUME NEW u \in Users, Purge(u) PROVE status'[r] = "deleted"
      BY <3>1, <3>4 DEF Purge
    <3>5. ASSUME OtherStep PROVE status'[r] = "deleted"
      BY <3>1, <3>5 DEF OtherStep, JoinWrite, Reject, CancelPending, HostWrite, Finish,
          Quiet, tables, TypeOK, CallShape
    <3> QED BY <3>2, <3>3, <3>4, <3>5, Steps DEF TableStep
  <2> QED BY <2>1, <2>2
<1>2. ASSUME mstatus[m] = "full", Cardinality(Seats(m)) < Capacity[m]
      PROVE  \E r \in RowsOf(m) : Erased(r)'
  BY <1>1, <1>2 DEF SeatLostOnlyToPurge, HasSeat
<1>3. ASSUME NEW r \in Rows, Accept(r) PROVE \E q \in RowsOf(m) : Erased(q)'
  <2>1. CASE m = Of(r)
    <3>1. mstatus[m] = "open"
      BY <1>3, <2>1 DEF Accept, Acceptable
    <3>2. Fills(r)
      BY <1>3, <2>1, <3>1 DEF Accept
    <3>3. Seats(m)' = Seats(m) \cup {r}
      BY <1>3, <2>1, AcceptSeats
    <3>4. Cardinality(Seats(m) \cup {r}) \in {Cardinality(Seats(m)), Cardinality(Seats(m)) + 1}
      BY <1>0, FS_AddElement
    <3> QED BY <1>0, <2>1, <3>2, <3>3, <3>4 DEF Fills
  <2>2. CASE m # Of(r)
    BY <1>2, <1>3, <2>2, AcceptSeats DEF Accept, TypeOK
  <2> QED BY <2>1, <2>2
<1>4. ASSUME NEW r \in Rows, Withdraw(r) PROVE \E q \in RowsOf(m) : Erased(q)'
  <2>1. mstatus[m] = "full"
    BY <1>4 DEF Withdraw, TypeOK
  <2>2. CASE r \in Seats(m) /\ Withdrawable(r)
    <3>1. m = Of(r) /\ ~Reopens(r)
      BY <1>4, <2>1, <2>2 DEF Withdraw, Seats, RowsOf, TypeOK
    <3>2. Seats(m)' = Seats(m) \ {r}
      BY <1>4, <2>2, <3>1, WithdrawSeats
    <3>3. ~(Cardinality(Seats(m) \ {r}) < Capacity[m])
      BY <2>1, <2>2, <3>1 DEF Reopens, Seats
    <3> QED BY <3>2, <3>3
  <2>3. CASE ~(r \in Seats(m) /\ Withdrawable(r))
    <3>1. Seats(m)' = Seats(m)
      BY <1>4, <2>3, WithdrawSeats
    <3> QED BY <1>2, <2>1, <3>1
  <2> QED BY <2>2, <2>3
<1>5. ASSUME NEW u \in Users, Purge(u) PROVE \E r \in RowsOf(m) : Erased(r)'
  <2>1. mstatus[m] = "full"
    BY <1>5 DEF Purge
  <2>2. CASE \E r \in Seats(m) : By(r) = u
    <3>1. PICK r \in Seats(m) : By(r) = u
      BY <2>2
    <3>2. r \in RowsOf(m) /\ r \in Rows /\ status[r] = "accepted"
      BY <3>1 DEF Seats, RowsOf
    <3>3. Erased(r)'
      BY <1>5, <3>1, <3>2 DEF Purge, TypeOK
    <3> QED BY <3>2, <3>3
  <2>3. CASE ~ \E r \in Seats(m) : By(r) = u
    <3>1. Seats(m)' = Seats(m)
      BY <1>5, <2>3, PurgeSeats
    <3> QED BY <1>2, <2>1, <3>1
  <2> QED BY <2>2, <2>3
<1>6. ASSUME OtherStep PROVE \E r \in RowsOf(m) : Erased(r)'
  <2>1. mstatus[m] = "full"
    BY <1>6 DEF OtherStep, JoinWrite, Reject, CancelPending, HostWrite, Finish, Quiet, tables, TypeOK
  <2>2. Seats(m)' = Seats(m)
    BY <1>6, OtherSeats
  <2> QED BY <1>2, <2>1, <2>2
<1> QED BY <1>3, <1>4, <1>5, <1>6, Steps DEF TableStep

\* The unique index lets a row become live only if the user has no other.
LEMMA OneLiveStep ==
  ASSUME TypeOK, OneLiveRequest, [Next]_vars
  PROVE  OneLiveRequest'
<1> SUFFICES ASSUME NEW q \in Rows, NEW r \in Rows, IsLive(q)', IsLive(r)',
                    Of(q) = Of(r), By(q) = By(r)
             PROVE  q = r
  BY DEF OneLiveRequest, Of, By
<1>1. ASSUME NEW p \in Rows, JoinWrite(p) PROVE q = r
  <2>1. \A x \in Rows : IsLive(x)' => x = p \/ IsLive(x)
    BY <1>1 DEF JoinWrite, IsLive, TypeOK
  <2>2. \A x \in Rows : Of(x) = Of(p) /\ By(x) = By(p) => ~IsLive(x)
    BY <1>1 DEF JoinWrite, FreeOfLive, Mine
  <2> QED BY <2>1, <2>2 DEF OneLiveRequest
<1>2. ASSUME \A x \in Rows : IsLive(x)' => IsLive(x) PROVE q = r
  BY <1>2 DEF OneLiveRequest
<1>3. ASSUME NEW p \in Rows, Accept(p), NEW x \in Rows, IsLive(x)' PROVE IsLive(x)
  BY <1>3 DEF Accept, Acceptable, IsLive
<1>4. ASSUME NEW p \in Rows, Reject(p) \/ CancelPending(p) \/ Withdraw(p),
             NEW x \in Rows, IsLive(x)'
      PROVE  IsLive(x)
  BY <1>4 DEF Reject, CancelPending, Withdraw, IsLive, TypeOK
<1>5. ASSUME NEW u \in Users, Purge(u), NEW x \in Rows, IsLive(x)' PROVE IsLive(x)
  BY <1>5 DEF Purge, IsLive
<1>6. ASSUME UNCHANGED status, NEW x \in Rows, IsLive(x)' PROVE IsLive(x)
  BY <1>6 DEF IsLive
<1> QED BY <1>1, <1>2, <1>3, <1>4, <1>5, <1>6, Steps
      DEF TableStep, OtherStep, HostWrite, Finish, Quiet, tables

\* The transaction that ends a meetup tells its seats, and after it only a
\* purge touches the row of someone who was told.
LEMMA ToldStep ==
  ASSUME TypeOK, CallShape, EndedIsTold, [Next]_vars
  PROVE  EndedIsTold'
<1> SUFFICES ASSUME NEW m \in Meetups, Ended(m)', NEW r \in RowsOf(m)
             PROVE  /\ status'[r] = "accepted" => r \in told'
                    /\ r \in told' => status'[r] \in {"accepted", "deleted"}
  BY DEF EndedIsTold, RowsOf
<1> DEFINE Settled == /\ status'[r] = "accepted" => r \in told'
                      /\ r \in told' => status'[r] \in {"accepted", "deleted"}
<1>0. r \in Rows /\ Of(r) = m
  BY DEF RowsOf
<1>1. ASSUME Ended(m)
      PROVE  /\ status[r] = "accepted" => r \in told
             /\ r \in told => status[r] \in {"accepted", "deleted"}
  BY <1>1 DEF EndedIsTold
<1>2. ASSUME NEW q \in Rows, Accept(q) PROVE Settled
  <2>1. Ended(m) /\ Of(q) # m
    BY <1>2 DEF Accept, Acceptable, Ended, TypeOK
  <2>2. status'[r] = status[r] /\ told' = told
    BY <1>0, <1>2, <2>1 DEF Accept, Pending, RowsOf
  <2> QED BY <1>1, <2>1, <2>2
<1>3. ASSUME NEW q \in Rows, Withdraw(q) PROVE Settled
  <2>1. Ended(m)
    BY <1>3 DEF Withdraw, Withdrawable, Reopens, Ended, TypeOK
  <2>2. status'[r] = status[r] /\ told' = told
    BY <1>0, <1>3, <2>1 DEF Withdraw, Withdrawable, Live, Ended, TypeOK
  <2> QED BY <1>1, <2>1, <2>2
<1>4. ASSUME NEW u \in Users, Purge(u) PROVE Settled
  BY <1>0, <1>1, <1>4 DEF Purge, Ended
<1>5. ASSUME NEW q \in Rows, JoinWrite(q) PROVE Settled
  <2>1. Ended(m)
    BY <1>5 DEF JoinWrite, Ended
  <2>2. status[q] = "unused"
    BY <1>5 DEF JoinWrite, CallShape
  <2> QED BY <1>0, <1>1, <1>5, <2>1, <2>2 DEF JoinWrite, TypeOK
<1>6. ASSUME NEW q \in Rows, Reject(q) \/ CancelPending(q) PROVE Settled
  BY <1>0, <1>1, <1>6 DEF Reject, CancelPending, Ended, TypeOK
<1>7. ASSUME NEW n \in Meetups, HostWrite(n) PROVE Settled
  BY <1>0, <1>1, <1>7 DEF HostWrite, Ended, TypeOK
<1>8. ASSUME NEW n \in Meetups, NEW s \in {"cancelled", "completed"}, Finish(n, s) PROVE Settled
  <2>1. CASE n = m
    <3>1. r \notin told
      BY <1>0, <1>8, <2>1 DEF Finish, Live, CallShape, Ended
    <3> QED BY <1>0, <1>8, <2>1, <3>1 DEF Finish, Seats, RowsOf
  <2>2. CASE n # m
    <3>1. r \notin Seats(n) /\ Ended(m)
      BY <1>0, <1>8, <2>2 DEF Finish, Seats, RowsOf, Ended, TypeOK
    <3> QED BY <1>1, <1>8, <3>1 DEF Finish
  <2> QED BY <2>1, <2>2
<1>9. ASSUME Quiet PROVE Settled
  BY <1>1, <1>9 DEF Quiet, tables, Ended
<1> QED BY <1>2, <1>3, <1>4, <1>5, <1>6, <1>7, <1>8, <1>9, Steps DEF TableStep, OtherStep

-----------------------------------------------------------------------------
(* Theorems *)

LEMMA InitIInv == Init => IInv
<1> SUFFICES ASSUME Init PROVE IInv
  OBVIOUS
<1>1. TypeOK /\ CallShape
  BY DEF Init, TypeOK, CallShape, Statuses
<1>2. \A m \in Meetups : Cardinality(Seats(m)) = 0
  <2>1. \A m \in Meetups : Seats(m) = {}
    BY DEF Init, Seats, RowsOf
  <2> QED BY <2>1, FS_EmptySet
<1>3. SeatsWithinCapacity /\ OpenHasASeat /\ SeatLostOnlyToPurge
  BY <1>2, RequestsAssumption DEF Init, SeatsWithinCapacity, OpenHasASeat, HasSeat,
      SeatLostOnlyToPurge
<1>4. OneLiveRequest /\ EndedIsTold
  BY DEF Init, OneLiveRequest, IsLive, EndedIsTold, Ended
<1> QED BY <1>1, <1>3, <1>4 DEF IInv

LEMMA StepIInv == IInv /\ [Next]_vars => IInv'
BY TypeStep, CallStep, CapacityStep, OpenStep, LostStep, OneLiveStep, ToldStep DEF IInv

\* The inductive invariant of the tables and of the calls over them.
THEOREM Inductive == Spec => []IInv
BY InitIInv, StepIInv, PTL DEF Spec

\* Every variable has its type: no meetup or request takes a status that the
\* enums of migration 0002 do not have.
THEOREM TypeCorrect == Spec => []TypeOK
<1>1. IInv => TypeOK
  BY DEF IInv
<1> QED BY <1>1, Inductive, PTL

\* V-2, for any number of people racing for any number of seats: they are not
\* oversold, an open meetup has a free seat, and a full one with a free seat
\* lost it to a purge.
THEOREM SeatsFollowTheRules == Spec => []SeatRules
<1>1. IInv => SeatRules
  BY DEF IInv, SeatRules
<1> QED BY <1>1, Inductive, PTL

\* One live request per person per meetup.
THEOREM LiveRequestIsUnique == Spec => []OneLiveRequest
<1>1. IInv => OneLiveRequest
  BY DEF IInv
<1> QED BY <1>1, Inductive, PTL

\* Whoever is seated at the end was told, and stays.
THEOREM EndIsTold == Spec => []EndedIsTold
<1>1. IInv => EndedIsTold
  BY DEF IInv
<1> QED BY <1>1, Inductive, PTL

\* Rejected, withdrawn and deleted requests stay so, and only a purge erases a
\* seat that was taken.
Decided ==
  \A r \in Rows :
    /\ status[r] \in {"rejected", "withdrawn"} => status'[r] \in {status[r], "deleted"}
    /\ status[r] = "deleted" => status'[r] = "deleted"
    /\ status[r] = "accepted" /\ status'[r] = "deleted" => account'[By(r)] = "purged"

THEOREM DecisionsStay == Spec => DecidedStays
<1>1. ASSUME TypeOK, CallShape, [Next]_vars PROVE Decided
  <2>1. ASSUME NEW q \in Rows, Accept(q) PROVE Decided
    BY <2>1 DEF Decided, Accept, Acceptable, Pending, RowsOf
  <2>2. ASSUME NEW q \in Rows, Withdraw(q) PROVE Decided
    BY <1>1, <2>2 DEF Decided, Withdraw, Withdrawable, IsLive, TypeOK
  <2>3. ASSUME NEW u \in Users, Purge(u) PROVE Decided
    BY <1>1, <2>3, RowParts DEF Decided, Purge, TypeOK
  <2>4. ASSUME OtherStep PROVE Decided
    BY <1>1, <2>4 DEF Decided, OtherStep, JoinWrite, Reject, CancelPending, HostWrite,
        Finish, Quiet, tables, TypeOK, CallShape
  <2> QED BY <1>1, <2>1, <2>2, <2>3, <2>4, Steps DEF TableStep
<1>2. TypeOK /\ CallShape /\ [Next]_vars => [Decided]_vars
  BY <1>1
<1>3. IInv => TypeOK /\ CallShape
  BY DEF IInv
<1>4. Spec => [][Decided]_vars
  BY <1>2, <1>3, Inductive, PTL DEF Spec
<1> QED BY <1>4 DEF Decided, DecidedStays

-----------------------------------------------------------------------------
(* The tables keep the promise of module Seats *)

\* No row seats two people: no more of them sit than there are accepted rows.
LEMMA SittersBounded ==
  ASSUME NEW m \in Meetups
  PROVE  /\ Cardinality(seatedOn[m]) \in Nat
         /\ Cardinality(seatedOn[m]) <= Cardinality(Seats(m))
<1> DEFINE who == [r \in Seats(m) |-> By(r)]
<1>1. who \in Surjection(Seats(m), seatedOn[m])
  BY DEF Surjection, seatedOn
<1> HIDE DEF who
<1>2. IsFiniteSet(seatedOn[m]) /\ Cardinality(seatedOn[m]) <= Cardinality(Seats(m))
  BY <1>1, SeatsFinite, FS_Surjection
<1> QED BY <1>2, FS_CardinalityType

\* The instance's Cardinality is the same function.
LEMMA SameCardinality == \A S : Promise!Cardinality(S) = Cardinality(S)
BY DEF Promise!Cardinality, Cardinality

\* A step that leaves the phases and the seats alone maps to a stutter.
LEMMA SameSeats ==
  ASSUME \A m \in Meetups : Seats(m)' = Seats(m)
  PROVE  seatedOn' = seatedOn
BY DEF seatedOn

LEMMA SamePhase ==
  ASSUME \A m \in Meetups : (mstatus'[m] = mstatus[m] \/ (Live(m) /\ Live(m)'))
  PROVE  phaseOf' = phaseOf
BY DEF phaseOf, Live

LEMMA AcceptTakes ==
  ASSUME TypeOK, OneLiveRequest, NEW r \in Rows, Accept(r)
  PROVE  Promise!Take(Of(r), By(r))
<1>0. Of(r) \in Meetups /\ By(r) \in Users
  BY RowParts
<1>1. phaseOf[Of(r)] = "on"
  BY <1>0 DEF Accept, Acceptable, phaseOf, Live
<1>2. By(r) \notin seatedOn[Of(r)]
  <2>1. ASSUME NEW q \in Seats(Of(r)), By(q) = By(r) PROVE FALSE
    <3>1. q \in Rows /\ Of(q) = Of(r) /\ status[q] = "accepted" /\ status[r] = "pending"
      BY <2>1 DEF Seats, RowsOf, Accept, Acceptable
    <3> QED BY <2>1, <3>1 DEF OneLiveRequest, IsLive
  <2> QED BY <1>0, <2>1 DEF seatedOn
<1>3. Cardinality(seatedOn[Of(r)]) < Capacity[Of(r)]
  <2>1. Cardinality(Seats(Of(r))) < Capacity[Of(r)]
    BY DEF Accept, Acceptable, HasSeat
  <2> QED BY <1>0, <2>1, SittersBounded, SeatsFinite, RequestsAssumption
<1>4. seatedOn' = [seatedOn EXCEPT ![Of(r)] = @ \cup {By(r)}]
  <2>1. \A m \in Meetups : Seats(m)' = IF m = Of(r) THEN Seats(m) \cup {r} ELSE Seats(m)
    BY AcceptSeats
  <2> QED BY <1>0, <2>1 DEF seatedOn
<1>5. phaseOf' = phaseOf
  <2>1. \A m \in Meetups : mstatus'[m] = mstatus[m] \/ (Live(m) /\ Live(m)')
    BY <1>0 DEF Accept, Acceptable, Live, TypeOK
  <2> QED BY <2>1, SamePhase
<1>6. purged' = purged
  BY DEF Accept, purged
<1> QED BY <1>1, <1>2, <1>3, <1>4, <1>5, <1>6, SameCardinality DEF Promise!Take

LEMMA WithdrawGives ==
  ASSUME TypeOK, OneLiveRequest, NEW r \in Rows, Withdraw(r)
  PROVE  Promise!Give(Of(r), By(r)) \/ UNCHANGED <<phaseOf, seatedOn, purged>>
<1>0. Of(r) \in Meetups /\ By(r) \in Users
  BY RowParts
<1>1. phaseOf' = phaseOf
  <2>1. \A m \in Meetups : mstatus'[m] = mstatus[m] \/ (Live(m) /\ Live(m)')
    BY <1>0 DEF Withdraw, Reopens, Live, TypeOK
  <2> QED BY <2>1, SamePhase
<1>4. purged' = purged
  BY DEF Withdraw, purged
<1>2. CASE Withdrawable(r) /\ status[r] = "accepted"
  <2>1. phaseOf[Of(r)] = "on"
    BY <1>0, <1>2 DEF Withdrawable, phaseOf, Live
  <2>2. \A m \in Meetups : Seats(m)' = Seats(m) \ {r}
    BY <1>2, WithdrawSeats
  <2>3. ASSUME NEW m \in Meetups
        PROVE  seatedOn'[m] = IF m = Of(r) THEN seatedOn[m] \ {By(r)} ELSE seatedOn[m]
    <3>1. \A q \in Seats(m) : q \in Rows /\ Of(q) = m /\ IsLive(q)
      BY DEF Seats, RowsOf, IsLive
    <3>2. \A q \in Seats(m) : By(q) = By(r) /\ m = Of(r) => q = r
      BY <1>2, <3>1 DEF OneLiveRequest, IsLive
    <3>3. m # Of(r) => r \notin Seats(m)
      BY <3>1
    <3>4. seatedOn'[m] = {By(q) : q \in Seats(m) \ {r}} /\ seatedOn[m] = {By(q) : q \in Seats(m)}
      BY <2>2 DEF seatedOn
    <3> QED BY <3>2, <3>3, <3>4
  <2>4. seatedOn' = [seatedOn EXCEPT ![Of(r)] = @ \ {By(r)}]
    <3>1. /\ seatedOn = [m \in Meetups |-> seatedOn[m]]
          /\ seatedOn' = [m \in Meetups |-> seatedOn'[m]]
      BY DEF seatedOn
    <3> QED BY <1>0, <2>3, <3>1
  <2> QED BY <1>1, <1>4, <2>1, <2>4 DEF Promise!Give
<1>3. CASE ~(Withdrawable(r) /\ status[r] = "accepted")
  <2>1. \A m \in Meetups : Seats(m)' = Seats(m)
    BY <1>3, WithdrawSeats DEF Seats
  <2> QED BY <1>1, <1>4, <2>1, SameSeats
<1> QED BY <1>2, <1>3

LEMMA PurgeForgets ==
  ASSUME TypeOK, NEW u \in Users, Purge(u)
  PROVE  Promise!Forget(u)
<1>1. phaseOf' = phaseOf
  BY SamePhase DEF Purge
<1>2. \A m \in Meetups : Seats(m)' = {r \in Seats(m) : By(r) # u}
  BY PurgeSeats
<1>3. seatedOn' = [m \in Meetups |-> seatedOn[m] \ {u}]
  BY <1>2 DEF seatedOn
<1>4. u \notin purged /\ purged' = purged \cup {u}
  BY DEF Purge, purged, TypeOK
<1> QED BY <1>1, <1>3, <1>4 DEF Promise!Forget

LEMMA OtherKeeps ==
  ASSUME TypeOK, CallShape, OtherStep
  PROVE  Promise!Next \/ UNCHANGED <<phaseOf, seatedOn, purged>>
<1>1. seatedOn' = seatedOn
  BY OtherSeats, SameSeats
<1>0. purged' = purged
  BY DEF OtherStep, JoinWrite, Reject, CancelPending, HostWrite, Finish, Quiet, purged
<1>2. ASSUME NEW m \in Meetups, HostWrite(m) PROVE Promise!Offer(m)
  <2>1. mstatus[m] = "none"
    BY <1>2 DEF HostWrite, CallShape
  <2>2. phaseOf' = [phaseOf EXCEPT ![m] = "on"]
    BY <1>2 DEF HostWrite, phaseOf, Live, TypeOK
  <2> QED BY <1>0, <1>1, <2>1, <2>2 DEF Promise!Offer, phaseOf
<1>3. ASSUME NEW m \in Meetups, NEW s \in {"cancelled", "completed"}, Finish(m, s)
      PROVE  Promise!Finish(m)
  <2>1. phaseOf[m] = "on"
    BY <1>3 DEF Finish, phaseOf, Live
  <2>2. phaseOf' = [phaseOf EXCEPT ![m] = "over"]
    BY <1>3 DEF Finish, phaseOf, Live, TypeOK
  <2> QED BY <1>0, <1>1, <2>1, <2>2 DEF Promise!Finish
<1>4. ASSUME NEW r \in Rows, JoinWrite(r) \/ Reject(r) \/ CancelPending(r)
      PROVE  phaseOf' = phaseOf
  BY <1>4, SamePhase DEF JoinWrite, Reject, CancelPending
<1>5. ASSUME Quiet PROVE phaseOf' = phaseOf
  BY <1>5, SamePhase DEF Quiet, tables
<1> QED BY <1>0, <1>1, <1>2, <1>3, <1>4, <1>5 DEF OtherStep, Promise!Next

\* Joining, answering, withdrawing, ending and purging implement Seats: whoever
\* sits took a free seat while the meetup was on, once, and keeps it when the
\* meetup is over, but for a purge.
THEOREM RequestsKeepSeats == Spec => KeepsSeats
<1>1. Init => Promise!Init
  BY RowParts DEF Init, Promise!Init, phaseOf, seatedOn, purged, Seats, RowsOf
<1>2. ASSUME IInv, [Next]_vars PROVE Promise!Next \/ UNCHANGED <<phaseOf, seatedOn, purged>>
  <2>0. TypeOK /\ CallShape /\ OneLiveRequest
    BY <1>2 DEF IInv
  <2>1. ASSUME NEW r \in Rows, Accept(r) PROVE Promise!Next
    BY <2>0, <2>1, AcceptTakes, RowParts DEF Promise!Next
  <2>2. ASSUME NEW r \in Rows, Withdraw(r)
        PROVE  Promise!Next \/ UNCHANGED <<phaseOf, seatedOn, purged>>
    BY <2>0, <2>2, WithdrawGives, RowParts DEF Promise!Next
  <2>3. ASSUME NEW u \in Users, Purge(u) PROVE Promise!Next
    BY <2>0, <2>3, PurgeForgets DEF Promise!Next
  <2> QED BY <1>2, <2>0, <2>1, <2>2, <2>3, OtherKeeps, Steps DEF TableStep
<1>3. IInv /\ [Next]_vars => [Promise!Next]_(Promise!vars)
  BY <1>2 DEF Promise!vars
<1> QED BY <1>1, <1>3, Inductive, PTL DEF Spec, KeepsSeats, Promise!Spec

-----------------------------------------------------------------------------
(* One meetup at a time *)

\* A user's schedule lock has one holder, and what the holder is about to write
\* conflicts with nothing its user is committed to.
OneHolder ==
  /\ \A m, n \in hosting : HostOf[m] = HostOf[n] => m = n
  /\ \A q, r \in Rows :
       joining[q] = "writing" /\ joining[r] = "writing" /\ By(q) = By(r) => q = r
  /\ \A m \in hosting, r \in Rows : HostOf[m] = By(r) => joining[r] # "writing"

Checked ==
  /\ \A m \in hosting : ~ScheduleConflict(HostOf[m], m)
  /\ \A r \in Rows : joining[r] = "writing" => ~ScheduleConflict(By(r), Of(r))

BookInv == OneHolder /\ Checked /\ NoDoubleBooking

LEMMA TimePasses ==
  ASSUME TypeOK, [Next]_vars
  PROVE  now \in Nat /\ now' \in Nat /\ now <= now'
<1>1. now \in Nat
  BY DEF TypeOK
<1>2. ASSUME NEW r \in Rows, Join(r) \/ Answer(r) \/ Back(r) PROVE now' = now
  BY <1>2 DEF Join, JoinAsk, JoinCheck, JoinWrite, JoinAbort, Answer, Accept, Reject,
      Back, WithdrawRead, CancelPending, Withdraw
<1>3. ASSUME NEW m \in Meetups, Host(m) \/ Ends(m) PROVE now' = now
  BY <1>3 DEF Host, HostCheck, HostWrite, HostAbort, Ends, Cancel, Close, AutoClose,
      CancelForDeleted, Finish
<1>4. ASSUME NEW u \in Users, Departure(u) PROVE now' = now
  BY <1>4 DEF Departure, Leave, Delete, Purge
<1>5. ASSUME Tick \/ UNCHANGED vars PROVE now' = now \/ now' = now + 1
  BY <1>5 DEF Tick, vars
<1> QED BY <1>1, <1>2, <1>3, <1>4, <1>5 DEF Next

\* Only a create or a join commits its user to a meetup.
LEMMA NewCommitment ==
  ASSUME TypeOK, CallShape, [Next]_vars, NEW u \in Users, NEW m \in Meetups,
         ~Committed(u, m), Committed(u, m)'
  PROVE  \/ HostWrite(m) /\ HostOf[m] = u
         \/ \E r \in Rows : JoinWrite(r) /\ Of(r) = m /\ By(r) = u
<1> DEFINE Goal == \/ HostWrite(m) /\ HostOf[m] = u
                   \/ \E r \in Rows : JoinWrite(r) /\ Of(r) = m /\ By(r) = u
<1>1. Live(m)' /\ (Hosts(u, m)' \/ Asked(u, m)')
  BY DEF Committed
<1>2. ~Over(m)
  BY TimePasses, RequestsAssumption DEF Committed, Over
<1>3. ~(Live(m) /\ (Hosts(u, m) \/ Asked(u, m)))
  BY <1>2 DEF Committed
<1>4. ASSUME \A q \in Rows : IsLive(q)' => IsLive(q), Live(m)' => Live(m),
             orphaned \subseteq orphaned'
      PROVE  Goal
  BY <1>1, <1>3, <1>4 DEF Hosts, Asked, RowsOf
<1>5. ASSUME NEW r \in Rows, Accept(r) PROVE Goal
  <2>1. \A q \in Rows : IsLive(q)' => IsLive(q)
    BY <1>5 DEF Accept, Acceptable, IsLive
  <2>2. (Live(m)' => Live(m)) /\ orphaned' = orphaned
    BY <1>5 DEF Accept, Acceptable, Live, TypeOK
  <2> QED BY <1>4, <2>1, <2>2
<1>6. ASSUME NEW r \in Rows, Withdraw(r) PROVE Goal
  <2>1. \A q \in Rows : IsLive(q)' => IsLive(q)
    BY <1>6 DEF Withdraw, IsLive, TypeOK
  <2>2. (Live(m)' => Live(m)) /\ orphaned' = orphaned
    BY <1>6 DEF Withdraw, Reopens, Live, TypeOK
  <2> QED BY <1>4, <2>1, <2>2
<1>7. ASSUME NEW v \in Users, Purge(v) PROVE Goal
  BY <1>4, <1>7 DEF Purge, IsLive, Live
<1>8. ASSUME NEW r \in Rows, JoinWrite(r) PROVE Goal
  <2>1. CASE Of(r) = m /\ By(r) = u
    BY <1>8, <2>1
  <2>2. CASE ~(Of(r) = m /\ By(r) = u)
    <3>1. Asked(u, m)' => Asked(u, m)
      BY <1>8, <2>2 DEF JoinWrite, Asked, RowsOf, IsLive, TypeOK
    <3>2. (Live(m)' => Live(m)) /\ (Hosts(u, m)' => Hosts(u, m))
      BY <1>8 DEF JoinWrite, Live, Hosts
    <3> QED BY <1>1, <1>3, <3>1, <3>2
  <2> QED BY <2>1, <2>2
<1>9. ASSUME NEW r \in Rows, Reject(r) \/ CancelPending(r) PROVE Goal
  BY <1>4, <1>9 DEF Reject, CancelPending, IsLive, Live, TypeOK
<1>10. ASSUME NEW n \in Meetups, HostWrite(n) PROVE Goal
  <2>1. \A q \in Rows : IsLive(q)' => IsLive(q)
    BY <1>10 DEF HostWrite, IsLive
  <2>2. CASE n = m
    <3>1. mstatus[m] = "none"
      BY <1>10, <2>2 DEF HostWrite, CallShape
    <3>2. ~Asked(u, m)
      BY <3>1 DEF Asked, RowsOf, IsLive, CallShape
    <3> QED BY <1>1, <1>10, <2>1, <2>2, <3>2 DEF Asked, RowsOf, Hosts
  <2>3. CASE n # m
    BY <1>4, <1>10, <2>1, <2>3 DEF HostWrite, Live, TypeOK
  <2> QED BY <2>2, <2>3
<1>11. ASSUME NEW n \in Meetups, NEW s \in {"cancelled", "completed"}, Finish(n, s) PROVE Goal
  BY <1>4, <1>11 DEF Finish, IsLive, Live, TypeOK
<1>12. ASSUME Quiet PROVE Goal
  BY <1>4, <1>12 DEF Quiet, tables, IsLive, Live
<1> QED BY <1>5, <1>6, <1>7, <1>8, <1>9, <1>10, <1>11, <1>12, Steps DEF TableStep, OtherStep

\* Who holds a lock after a step held it before, or took it while it was free.
LEMMA HolderStep ==
  ASSUME TypeOK, OneHolder, [Next]_vars
  PROVE  OneHolder'
<1>1. ASSUME NEW m \in Meetups, HostCheck(m) PROVE OneHolder'
  BY <1>1 DEF HostCheck, OneHolder, Locked, TypeOK
<1>2. ASSUME NEW r \in Rows, JoinCheck(r) PROVE OneHolder'
  BY <1>2 DEF JoinCheck, OneHolder, Locked, TypeOK
<1>3. ASSUME hosting' \subseteq hosting,
             \A r \in Rows : joining'[r] = "writing" => joining[r] = "writing"
      PROVE  OneHolder'
  BY <1>3 DEF OneHolder
<1>4. ASSUME NEW r \in Rows, JoinAsk(r) \/ JoinWrite(r) \/ JoinAbort(r) PROVE OneHolder'
  BY <1>3, <1>4 DEF JoinAsk, JoinWrite, JoinAbort, TypeOK
<1>5. ASSUME NEW r \in Rows, Answer(r) \/ Back(r) PROVE OneHolder'
  BY <1>3, <1>5 DEF Answer, Accept, Reject, Back, WithdrawRead, CancelPending, Withdraw, calls
<1>6. ASSUME NEW m \in Meetups, HostWrite(m) \/ HostAbort(m) \/ Ends(m) PROVE OneHolder'
  BY <1>3, <1>6 DEF HostWrite, HostAbort, Ends, Cancel, Close, AutoClose,
      CancelForDeleted, Finish, calls
<1>7. ASSUME NEW u \in Users, Departure(u) PROVE OneHolder'
  BY <1>3, <1>7 DEF Departure, Leave, Delete, Purge, calls
<1>8. ASSUME Tick \/ UNCHANGED vars PROVE OneHolder'
  BY <1>3, <1>8 DEF Tick, vars, calls
<1> QED BY <1>1, <1>2, <1>4, <1>5, <1>6, <1>7, <1>8 DEF Next, Join, Host

\* The holder of a user's lock is the only one who can commit that user.
LEMMA HolderCommits ==
  ASSUME TypeOK, CallShape, OneHolder, [Next]_vars, NEW u \in Users, NEW n \in Meetups,
         ~Committed(u, n), Committed(u, n)'
  PROVE  /\ \A m \in hosting : HostOf[m] = u => HostWrite(n) /\ m = n
         /\ \A r \in Rows : joining[r] = "writing" /\ By(r) = u => JoinWrite(r) /\ Of(r) = n
<1>1. CASE HostWrite(n) /\ HostOf[n] = u
  BY <1>1 DEF OneHolder, HostWrite
<1>2. ASSUME NEW q \in Rows, JoinWrite(q), Of(q) = n, By(q) = u
      PROVE  /\ \A m \in hosting : HostOf[m] # u
             /\ \A r \in Rows : joining[r] = "writing" /\ By(r) = u => r = q
  BY <1>2 DEF OneHolder, JoinWrite
<1> QED BY <1>1, <1>2, NewCommitment

LEMMA CheckedStep ==
  ASSUME TypeOK, CallShape, OneHolder, Checked, [Next]_vars
  PROVE  Checked'
<1>1. ASSUME NEW m \in hosting', NEW n \in Meetups \ {m}, Overlap(m, n)
      PROVE  ~Committed(HostOf[m], n)'
  <2>0. m \in Meetups /\ HostOf[m] \in Users
    BY TypeStep, RequestsAssumption DEF TypeOK
  <2>1. CASE m \in hosting
    <3>1. ~Committed(HostOf[m], n)
      BY <1>1, <2>1 DEF Checked, ScheduleConflict
    <3> QED BY <2>0, <2>1, <3>1, HolderCommits
  <2>2. CASE m \notin hosting
    <3>1. HostCheck(m)
      BY <2>2 DEF Next, vars, tables, calls, Join, JoinAsk, JoinCheck, JoinWrite, JoinAbort,
          Answer, Accept, Reject, Back, WithdrawRead, CancelPending, Withdraw, Host,
          HostCheck, HostWrite, HostAbort, Ends, Cancel, Close, AutoClose,
          CancelForDeleted, Finish, Departure, Leave, Delete, Purge, Tick
    <3>2. ~Committed(HostOf[m], n)
      BY <1>1, <3>1 DEF HostCheck, ScheduleConflict
    <3> QED BY <3>1, <3>2 DEF HostCheck, tables, Committed, Live, Over, Hosts, Asked,
          IsLive, RowsOf
  <2> QED BY <2>1, <2>2
<1>2. ASSUME NEW r \in Rows, joining'[r] = "writing",
             NEW n \in Meetups \ {Of(r)}, Overlap(Of(r), n)
      PROVE  ~Committed(By(r), n)'
  <2>1. CASE joining[r] = "writing"
    <3>1. ~Committed(By(r), n)
      BY <1>2, <2>1 DEF Checked, ScheduleConflict
    <3> QED BY <2>1, <3>1, RowParts, HolderCommits
  <2>2. CASE joining[r] # "writing"
    <3>1. JoinCheck(r)
      BY <1>2, <2>2 DEF Next, vars, tables, calls, Join, JoinAsk, JoinCheck, JoinWrite,
          JoinAbort, Answer, Accept, Reject, Back, WithdrawRead, CancelPending, Withdraw,
          Host, HostCheck, HostWrite, HostAbort, Ends, Cancel, Close, AutoClose,
          CancelForDeleted, Finish, Departure, Leave, Delete, Purge, Tick, TypeOK
    <3>2. ~Committed(By(r), n)
      BY <1>2, <3>1 DEF JoinCheck, ScheduleConflict
    <3> QED BY <3>1, <3>2 DEF JoinCheck, tables, Committed, Live, Over, Hosts, Asked,
          IsLive, RowsOf
  <2> QED BY <2>1, <2>2
<1>3. ASSUME NEW m \in hosting' PROVE ~ScheduleConflict(HostOf[m], m)'
  BY <1>1, <1>3 DEF ScheduleConflict, Overlap
<1>4. ASSUME NEW r \in Rows, joining'[r] = "writing" PROVE ~ScheduleConflict(By(r), Of(r))'
  BY <1>2, <1>4 DEF ScheduleConflict, Overlap, Of, By
<1> QED BY <1>3, <1>4 DEF Checked, Of, By

LEMMA BookStep ==
  ASSUME TypeOK, CallShape, BookInv, [Next]_vars
  PROVE  NoDoubleBooking'
<1>0. OneHolder /\ Checked /\ NoDoubleBooking
  BY DEF BookInv
<1>1. ASSUME NEW u \in Users, NEW m \in Meetups, NEW n \in Meetups, m # n, Overlap(m, n),
             ~Committed(u, m), Committed(u, m)', Committed(u, n)'
      PROVE  FALSE
  <2>1. CASE HostWrite(m) /\ HostOf[m] = u
    <3>1. m \in hosting /\ ~Committed(u, n)
      BY <1>0, <1>1, <2>1 DEF HostWrite, Checked, ScheduleConflict
    <3> QED BY <1>0, <1>1, <2>1, <3>1, HolderCommits
  <2>2. ASSUME NEW r \in Rows, JoinWrite(r), Of(r) = m, By(r) = u PROVE FALSE
    <3>1. joining[r] = "writing" /\ ~Committed(u, n)
      BY <1>0, <1>1, <2>2 DEF JoinWrite, Checked, ScheduleConflict
    <3> QED BY <1>0, <1>1, <2>2, <3>1, HolderCommits
  <2> QED BY <1>1, <2>1, <2>2, NewCommitment
<1>2. ASSUME NEW u \in Users, NEW m \in Meetups, NEW n \in Meetups, m # n,
             Committed(u, m)', Committed(u, n)'
      PROVE  ~Overlap(m, n)
  <2>1. CASE Committed(u, m) /\ Committed(u, n)
    BY <1>0, <1>2, <2>1 DEF NoDoubleBooking
  <2>2. CASE ~Committed(u, m)
    BY <1>1, <1>2, <2>2
  <2>3. CASE ~Committed(u, n)
    BY <1>1, <1>2, <2>3 DEF Overlap
  <2> QED BY <2>1, <2>2, <2>3
<1> QED BY <1>2 DEF NoDoubleBooking, Overlap

\* Nobody is committed to two overlapping live meetups: the check is made and
\* the write is committed under one lock, and nothing else commits a user.
THEOREM OneMeetupAtATime == Spec => []NoDoubleBooking
<1>1. Init => BookInv
  BY DEF Init, BookInv, OneHolder, Checked, NoDoubleBooking, Committed, Live
<1>2. IInv /\ BookInv /\ [Next]_vars => BookInv'
  <2> SUFFICES ASSUME IInv, BookInv, [Next]_vars PROVE BookInv'
    OBVIOUS
  <2>1. TypeOK /\ CallShape /\ OneHolder /\ Checked
    BY DEF IInv, BookInv
  <2> QED BY <2>1, HolderStep, CheckedStep, BookStep DEF BookInv
<1>3. BookInv => NoDoubleBooking
  BY DEF BookInv
<1> QED BY <1>1, <1>2, <1>3, Inductive, PTL DEF Spec

-----------------------------------------------------------------------------
(* Asking again *)

\* While a row is being written at most one of its user's rows stands: its check
\* found no refusal, and nothing else inserts for that user meanwhile.
OneBeside ==
  \A r \in Rows : joining[r] = "writing" =>
    \A p, q \in Mine(r) : Stands(p) /\ Stands(q) => p = q

AskInv == OneBeside /\ AskedAgainOnce

\* A step that inserts nothing leaves standing what stood before.
LEMMA NothingNewStands ==
  ASSUME AskInv, \A x \in Rows : Stands(x)' => Stands(x),
         \A r \in Rows : joining'[r] = "writing" => joining[r] = "writing"
  PROVE  AskInv'
BY DEF AskInv, OneBeside, AskedAgainOnce, Mine, Of, By

LEMMA AskStep ==
  ASSUME TypeOK, OneLiveRequest, OneHolder, AskInv, [Next]_vars
  PROVE  AskInv'
<1>1. ASSUME NEW r \in Rows, JoinWrite(r) PROVE AskInv'
  <2>1. /\ joining[r] = "writing" /\ joining'[r] = "no"
        /\ \A x \in Rows : x # r => joining'[x] = joining[x]
        /\ \A x \in Rows : Stands(x)' => Stands(x) \/ x = r
    BY <1>1 DEF JoinWrite, Stands, TypeOK
  <2>2. \A x \in Rows : joining'[x] = "writing" => By(x) # By(r)
    BY <2>1 DEF OneHolder
  <2>3. OneBeside'
    <3> SUFFICES ASSUME NEW x \in Rows, joining'[x] = "writing", NEW p \in Rows, NEW q \in Rows,
                        p \in Mine(x), q \in Mine(x), Stands(p)', Stands(q)'
                 PROVE  p = q
      BY DEF OneBeside, Mine, Of, By
    <3>1. p # r /\ q # r
      BY <2>2 DEF Mine
    <3> QED
      BY <2>1, <3>1 DEF AskInv, OneBeside
  <2>4. AskedAgainOnce'
    <3> SUFFICES ASSUME NEW p \in Rows, NEW q \in Rows, NEW s \in Rows,
                        Stands(p)', Stands(q)', Stands(s)', q \in Mine(p), s \in Mine(p)
                 PROVE  p = q \/ q = s \/ p = s
      BY DEF AskedAgainOnce, Mine, Of, By
    <3>1. CASE r \notin {p, q, s}
      BY <2>1, <3>1 DEF AskInv, AskedAgainOnce
    <3>2. CASE r \in {p, q, s}
      <4>1. p \in Mine(r) /\ q \in Mine(r) /\ s \in Mine(r)
        BY <3>2 DEF Mine
      <4> QED
        BY <2>1, <3>2, <4>1 DEF AskInv, OneBeside
    <3> QED
      BY <3>1, <3>2
  <2> QED
    BY <2>3, <2>4 DEF AskInv
<1>2. ASSUME NEW r \in Rows, JoinCheck(r) PROVE AskInv'
  <2>1. /\ status' = status /\ NotRefusedBefore(r)
        /\ \A x \in Rows : x # r => joining'[x] = joining[x]
    BY <1>2 DEF JoinCheck, tables, TypeOK
  <2>2. \A p, q \in Mine(r) : Stands(p) /\ Stands(q) => p = q
    <3> SUFFICES ASSUME NEW p \in Mine(r), NEW q \in Mine(r), Stands(p), Stands(q)
                 PROVE  p = q
      OBVIOUS
    <3>1. IsLive(p) /\ IsLive(q)
      BY <2>1 DEF NotRefusedBefore, Stands, IsLive
    <3> QED
      BY <3>1 DEF OneLiveRequest, Mine
  <2>3. OneBeside' /\ AskedAgainOnce'
    BY <2>1, <2>2 DEF AskInv, OneBeside, AskedAgainOnce, Stands, Mine, Of, By
  <2> QED
    BY <2>3 DEF AskInv
<1>3. ASSUME NEW r \in Rows, JoinAsk(r) \/ JoinAbort(r) PROVE AskInv'
  BY <1>3, NothingNewStands DEF JoinAsk, JoinAbort, tables, Stands, TypeOK
<1>4. ASSUME NEW r \in Rows, Answer(r) \/ Back(r) PROVE AskInv'
  <2>1. \A x \in Rows : Stands(x)' => Stands(x)
    BY <1>4 DEF Answer, Accept, Acceptable, Pending, RowsOf, Reject, Back, WithdrawRead,
      CancelPending, Withdraw, tables, Stands, TypeOK
  <2>2. joining' = joining
    BY <1>4 DEF Answer, Accept, Reject, Back, WithdrawRead, CancelPending, Withdraw, calls
  <2> QED
    BY <2>1, <2>2, NothingNewStands
<1>5. ASSUME NEW m \in Meetups, Host(m) \/ Ends(m) PROVE AskInv'
  BY <1>5, NothingNewStands DEF Host, HostCheck, HostWrite, HostAbort, Ends, Cancel, Close,
      AutoClose, CancelForDeleted, Finish, tables, calls, Stands
<1>6. ASSUME NEW u \in Users, Departure(u) PROVE AskInv'
  BY <1>6, NothingNewStands DEF Departure, Leave, Delete, Purge, tables, calls, Stands
<1>7. ASSUME Tick \/ UNCHANGED vars PROVE AskInv'
  BY <1>7, NothingNewStands DEF Tick, vars, tables, calls, Stands
<1> QED
  BY <1>1, <1>2, <1>3, <1>4, <1>5, <1>6, <1>7 DEF Next, Join

\* One ask gets past a rejection, the one that was in its INSERT, and never two:
\* the schedule lock, the INSERT's subquery and the unique index together.
THEOREM OneAskPastARejection == Spec => []AskedAgainOnce
<1>1. Init => OneHolder /\ AskInv
  BY DEF Init, OneHolder, AskInv, OneBeside, AskedAgainOnce, Stands
<1>2. IInv /\ OneHolder /\ AskInv /\ [Next]_vars => (OneHolder /\ AskInv)'
  BY HolderStep, AskStep DEF IInv
<1>3. AskInv => AskedAgainOnce
  BY DEF AskInv
<1> QED BY <1>1, <1>2, <1>3, Inductive, PTL DEF Spec
=============================================================================
