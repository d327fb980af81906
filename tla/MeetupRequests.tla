---------------------------- MODULE MeetupRequests ----------------------------
(***************************************************************************)
(* A meetup's seats: joining, withdrawing, the host's accept and reject,   *)
(* cancel, close and auto-close, and what deleting an account does to them *)
(* (internal/modules/meetup over the tables meetups and meetup_requests).  *)
(*                                                                         *)
(* A transaction that decides under the meetup's row lock is one action.   *)
(* What is read before that lock, or in a statement whose snapshot is      *)
(* older than its write, is an action of its own:                          *)
(*   - RequestToJoin reads the meetup (JoinAsk), then takes its user's     *)
(*     schedule lock, checks the schedule and evaluates the conditional    *)
(*     INSERT's subqueries (JoinCheck), then meets the unique index and    *)
(*     the foreign key's lock on the meetup, and commits (JoinWrite);      *)
(*   - WithdrawRequest reads the request, and the status it read chooses   *)
(*     which of two writes it makes later (WithdrawRead);                  *)
(*   - an account's deletion is checked, committed and purged apart.       *)
(*                                                                         *)
(* A row <<m, u, k>> is the k-th request user u made for meetup m.  What   *)
(* these transactions queue in the outboxes is Outbox's concern; only who  *)
(* is told that a meetup ended is kept here.                               *)
(***************************************************************************)
EXTENDS Integers, FiniteSets

CONSTANTS
  Users, Meetups,
  HostOf,       \* who hosts each meetup
  Capacity,     \* the seats of each meetup, the host's apart
  Start, End,   \* its window
  Leavers,      \* bound: the users who may delete their account
  Horizon,      \* bound: the last instant
  MaxAsks       \* bound: requests of one user for one meetup

ASSUME RequestsAssumption ==
  /\ IsFiniteSet(Users) /\ IsFiniteSet(Meetups)
  /\ HostOf \in [Meetups -> Users]
  /\ Capacity \in [Meetups -> Nat \ {0}]
  /\ Start \in [Meetups -> Nat]
  /\ End \in [Meetups -> Nat]
  /\ \A m \in Meetups : Start[m] < End[m]
  /\ Horizon \in Nat
  /\ MaxAsks \in Nat

Rows == Meetups \X Users \X (1 .. MaxAsks)
Of(r) == r[1]
By(r) == r[2]

VARIABLES
  now,
  mstatus,      \* meetups.status, "none" before the INSERT
  status,       \* meetup_requests.status, "unused" or "deleted" without a row
  orphaned,     \* meetups whose host_user_id was anonymised
  told,         \* requests whose requester was queued "cancelled" or "ended"
  hosting,      \* creates past their schedule guard, not committed
  joining,      \* how far the call that inserts a row has come
  cancelling,   \* withdraw calls that read "pending"
  withdrawing,  \* withdraw calls that read "accepted" before the meetup ended
  account       \* of each user

tables == <<mstatus, status, orphaned, told>>
calls == <<hosting, joining, cancelling, withdrawing>>
vars == <<now, tables, calls, account>>

Statuses == {"unused", "pending", "accepted", "rejected", "withdrawn", "deleted"}

TypeOK ==
  /\ now \in Nat
  /\ mstatus \in [Meetups -> {"none", "open", "full", "cancelled", "completed"}]
  /\ status \in [Rows -> Statuses]
  /\ orphaned \in SUBSET Meetups
  /\ told \in SUBSET Rows
  /\ hosting \in SUBSET Meetups
  /\ joining \in [Rows -> {"no", "asked", "writing"}]
  /\ cancelling \in SUBSET Rows
  /\ withdrawing \in SUBSET Rows
  /\ account \in [Users -> {"active", "leaving", "deleted", "purged"}]

Init ==
  /\ now = 0
  /\ mstatus = [m \in Meetups |-> "none"]
  /\ status = [r \in Rows |-> "unused"]
  /\ orphaned = {} /\ told = {}
  /\ hosting = {}
  /\ joining = [r \in Rows |-> "no"]
  /\ cancelling = {} /\ withdrawing = {}
  /\ account = [u \in Users |-> "active"]

Live(m) == mstatus[m] \in {"open", "full"}
Over(m) == now >= End[m]
IsLive(r) == status[r] \in {"pending", "accepted"}
RowsOf(m) == {r \in Rows : Of(r) = m}
Seats(m) == {r \in RowsOf(m) : status[r] = "accepted"}
Pending(m) == {r \in RowsOf(m) : status[r] = "pending"}
Mine(r) == {q \in Rows : Of(q) = Of(r) /\ By(q) = By(r)}
Hosts(u, m) == HostOf[m] = u /\ m \notin orphaned

-----------------------------------------------------------------------------
(* One meetup at a time *)

\* Mutant: a request that is only pending commits nobody.
AskedAndSeated(u, m) == \E r \in RowsOf(m) : By(r) = u /\ status[r] = "accepted"
Asked(u, m) == \E r \in RowsOf(m) : By(r) = u /\ IsLive(r)
Committed(u, m) == Live(m) /\ ~Over(m) /\ (Hosts(u, m) \/ Asked(u, m))
Overlap(m, n) == Start[m] < End[n] /\ Start[n] < End[m]
ScheduleConflict(u, m) ==
  \E n \in Meetups \ {m} : Committed(u, n) /\ Overlap(m, n)

\* LockUserSchedule: who holds u's advisory lock across steps.
Locked(u) ==
  \/ \E m \in hosting : HostOf[m] = u
  \/ \E r \in Rows : By(r) = u /\ joining[r] = "writing"

-----------------------------------------------------------------------------
(* Creating a meetup *)

\* A token outlives its account, so a create may come after the purge.
HostCheck(m) ==
  /\ mstatus[m] = "none" /\ m \notin hosting
  /\ now <= Start[m]
  /\ ~Locked(HostOf[m])
  /\ ~ScheduleConflict(HostOf[m], m)
  /\ hosting' = hosting \cup {m}
  /\ UNCHANGED <<now, tables, joining, cancelling, withdrawing, account>>

HostWrite(m) ==
  /\ m \in hosting
  /\ mstatus' = [mstatus EXCEPT ![m] = "open"]
  /\ hosting' = hosting \ {m}
  /\ UNCHANGED <<now, status, orphaned, told, joining, cancelling, withdrawing,
                 account>>

HostAbort(m) ==
  /\ m \in hosting
  /\ hosting' = hosting \ {m}
  /\ UNCHANGED <<now, tables, joining, cancelling, withdrawing, account>>

-----------------------------------------------------------------------------
(* Asking to join *)

\* RequestToJoin's own reads.  A row's number is the next one free; a purged
\* account has no cached location, so it fails the radius check.
JoinAsk(r) ==
  /\ status[r] = "unused" /\ joining[r] = "no"
  /\ \A q \in Mine(r) : q[3] < r[3] => status[q] # "unused" \/ joining[q] # "no"
  /\ HostOf[Of(r)] # By(r)
  /\ mstatus[Of(r)] = "open" /\ ~Over(Of(r))
  /\ account[By(r)] # "purged"
  /\ joining' = [joining EXCEPT ![r] = "asked"]
  /\ UNCHANGED <<now, tables, hosting, cancelling, withdrawing, account>>

\* Mutant: the INSERT does not look for a rejection.
AskedFreely(r) == TRUE
NotRefusedBefore(r) == \A q \in Mine(r) : status[q] # "rejected"

\* The window is compared with now(), the transaction's start: JoinAsk's time.
JoinCheck(r) ==
  /\ joining[r] = "asked"
  /\ ~Locked(By(r))
  /\ ~ScheduleConflict(By(r), Of(r))
  /\ NotRefusedBefore(r)
  /\ mstatus[Of(r)] = "open"
  /\ joining' = [joining EXCEPT ![r] = "writing"]
  /\ UNCHANGED <<now, tables, hosting, cancelling, withdrawing, account>>

\* uq_meetup_requests_one_live_per_user
FreeOfLive(r) == \A q \in Mine(r) : ~IsLive(q)

JoinWrite(r) ==
  /\ joining[r] = "writing"
  /\ FreeOfLive(r)
  /\ status' = [status EXCEPT ![r] = "pending"]
  /\ joining' = [joining EXCEPT ![r] = "no"]
  /\ UNCHANGED <<now, mstatus, orphaned, told, hosting, cancelling, withdrawing,
                 account>>

\* Refused at any of its checks, or rolled back.
JoinAbort(r) ==
  /\ joining[r] # "no"
  /\ joining' = [joining EXCEPT ![r] = "no"]
  /\ UNCHANGED <<now, tables, hosting, cancelling, withdrawing, account>>

-----------------------------------------------------------------------------
(* The host's answer *)

HasSeat(m) == Cardinality(Seats(m)) < Capacity[m]

Fills(r) == Cardinality(Seats(Of(r)) \cup {r}) >= Capacity[Of(r)]

\* Mutant: neither the seats nor 'full' are looked at under the row lock.
AcceptableUnlocked(r) == status[r] = "pending" /\ Live(Of(r)) /\ ~Over(Of(r))
\* Mutant: the UPDATE does not look at the request's status (V-2).
AcceptableTwice(r) ==
  /\ status[r] \in {"pending", "rejected"}
  /\ mstatus[Of(r)] = "open" /\ ~Over(Of(r)) /\ HasSeat(Of(r))
Acceptable(r) ==
  /\ status[r] = "pending"
  /\ mstatus[Of(r)] = "open" /\ ~Over(Of(r)) /\ HasSeat(Of(r))

\* The final seat also rejects everyone still waiting.
Accept(r) ==
  /\ Of(r) \notin orphaned
  /\ Acceptable(r)
  /\ LET out == IF Fills(r) THEN Pending(Of(r)) \ {r} ELSE {}
     IN status' = [q \in Rows |-> IF q = r THEN "accepted"
                                  ELSE IF q \in out THEN "rejected"
                                  ELSE status[q]]
  /\ mstatus' = IF Fills(r) THEN [mstatus EXCEPT ![Of(r)] = "full"] ELSE mstatus
  /\ UNCHANGED <<now, orphaned, told, calls, account>>

Reject(r) ==
  /\ status[r] = "pending"
  /\ Of(r) \notin orphaned
  /\ status' = [status EXCEPT ![r] = "rejected"]
  /\ UNCHANGED <<now, mstatus, orphaned, told, calls, account>>

-----------------------------------------------------------------------------
(* Withdrawing *)

\* now() in the second write is its transaction's start, later than this read.
WithdrawRead(r) ==
  /\ \/ /\ status[r] = "pending"
        /\ cancelling' = cancelling \cup {r}
        /\ UNCHANGED withdrawing
     \/ /\ status[r] = "accepted" /\ ~Over(Of(r))
        /\ withdrawing' = withdrawing \cup {r}
        /\ UNCHANGED cancelling
  /\ UNCHANGED <<now, tables, hosting, joining, account>>

CancelPending(r) ==
  /\ r \in cancelling
  /\ cancelling' = cancelling \ {r}
  /\ status' = IF status[r] = "pending" THEN [status EXCEPT ![r] = "deleted"]
                                        ELSE status
  /\ UNCHANGED <<now, mstatus, orphaned, told, hosting, joining, withdrawing,
                 account>>

\* Mutant: #85, the seats are counted before the withdrawal gives its own back.
ReopensBefore(r) ==
  /\ status[r] = "accepted"
  /\ mstatus[Of(r)] = "full"
  /\ HasSeat(Of(r))
\* ReopenMeetupIfSeatFreed
Reopens(r) ==
  /\ status[r] = "accepted"
  /\ mstatus[Of(r)] = "full"
  /\ Cardinality(Seats(Of(r)) \ {r}) < Capacity[Of(r)]

\* Mutant: #84, a seat on an ended meetup can be given back.
WithdrawableAnytime(r) == IsLive(r)
Withdrawable(r) == IsLive(r) /\ Live(Of(r))

Withdraw(r) ==
  /\ r \in withdrawing
  /\ withdrawing' = withdrawing \ {r}
  /\ IF Withdrawable(r)
       THEN /\ status' = [status EXCEPT ![r] = "withdrawn"]
            /\ mstatus' = IF Reopens(r) THEN [mstatus EXCEPT ![Of(r)] = "open"]
                                        ELSE mstatus
       ELSE UNCHANGED <<status, mstatus>>
  /\ UNCHANGED <<now, orphaned, told, hosting, joining, cancelling, account>>

-----------------------------------------------------------------------------
(* The end of a meetup: everyone with a seat is told in its transaction *)

Finish(m, s) ==
  /\ Live(m)
  /\ mstatus' = [mstatus EXCEPT ![m] = s]
  /\ told' = told \cup Seats(m)
  /\ UNCHANGED <<now, status, orphaned, calls, account>>

Cancel(m) == m \notin orphaned /\ Finish(m, "cancelled")
Close(m) == m \notin orphaned /\ now >= Start[m] /\ Finish(m, "completed")

\* Mutant: full meetups left out.
AutoCloseOpen(m) == Over(m) /\ mstatus[m] = "open" /\ Finish(m, "completed")
AutoClose(m) == Over(m) /\ Finish(m, "completed")

-----------------------------------------------------------------------------
(* Deleting an account *)

\* CheckAccountDeletable, then the auth module's own transaction.
Leave(u) ==
  /\ account[u] = "active" /\ u \in Leavers
  /\ \A m \in Meetups : ~Committed(u, m)
  /\ account' = [account EXCEPT ![u] = "leaving"]
  /\ UNCHANGED <<now, tables, calls>>

Delete(u) ==
  /\ account[u] = "leaving"
  /\ account' = [account EXCEPT ![u] = "deleted"]
  /\ UNCHANGED <<now, tables, calls>>

\* HandleUserDeleted cancels what its subject still hosts ...
CancelForDeleted(m) ==
  /\ account[HostOf[m]] = "deleted"
  /\ ~Over(m)
  /\ Cancel(m)

\* Mutant: the list of hosted meetups is not filtered by status.
EverHosted(u, m) == mstatus[m] # "none" /\ Hosts(u, m)
StillHosts(u, m) == Live(m) /\ ~Over(m) /\ Hosts(u, m)

\* ... and purges once nothing live is left, or fails and is retried.
Purge(u) ==
  /\ account[u] = "deleted"
  /\ ~Locked(u)
  /\ \A m \in Meetups : ~StillHosts(u, m)
  /\ orphaned' = orphaned \cup {m \in Meetups : mstatus[m] # "none" /\ HostOf[m] = u}
  /\ status' = [r \in Rows |-> IF By(r) = u /\ status[r] # "unused" THEN "deleted"
                                                                   ELSE status[r]]
  /\ account' = [account EXCEPT ![u] = "purged"]
  /\ UNCHANGED <<now, mstatus, told, calls>>

Tick ==
  /\ now < Horizon
  /\ now' = now + 1
  /\ UNCHANGED <<tables, calls, account>>

-----------------------------------------------------------------------------
Join(r) == JoinAsk(r) \/ JoinCheck(r) \/ JoinWrite(r) \/ JoinAbort(r)
Answer(r) == Accept(r) \/ Reject(r)
Back(r) == WithdrawRead(r) \/ CancelPending(r) \/ Withdraw(r)
Host(m) == HostCheck(m) \/ HostWrite(m) \/ HostAbort(m)
Ends(m) == Cancel(m) \/ Close(m) \/ AutoClose(m) \/ CancelForDeleted(m)
Departure(u) == Leave(u) \/ Delete(u) \/ Purge(u)

Next ==
  \/ \E r \in Rows : Join(r) \/ Answer(r) \/ Back(r)
  \/ \E m \in Meetups : Host(m) \/ Ends(m)
  \/ \E u \in Users : Departure(u)
  \/ Tick

Spec == Init /\ [][Next]_vars

\* Time passes, calls in progress return, the lifecycle poller ticks and the
\* deleted-user outbox redelivers until its handler succeeds.  Nobody has to
\* join, answer, withdraw, cancel or leave.
Fairness ==
  /\ WF_vars(Tick)
  /\ \A m \in Meetups : /\ WF_vars(HostWrite(m) \/ HostAbort(m))
                        /\ WF_vars(AutoClose(m))
                        /\ WF_vars(CancelForDeleted(m))
  /\ \A r \in Rows : WF_vars(JoinWrite(r) \/ JoinAbort(r))
  /\ \A u \in Users : WF_vars(Delete(u)) /\ WF_vars(Purge(u))

FairSpec == Spec /\ Fairness

-----------------------------------------------------------------------------
(* Properties *)

\* V-2: two answers, a withdrawal and a reopening never seat more people than
\* the meetup has room for.
SeatsWithinCapacity == \A m \in Meetups : Cardinality(Seats(m)) <= Capacity[m]

\* An open meetup can seat someone: Accept flips it to 'full' with the last
\* seat, and nothing reopens it while every seat is taken.
OpenHasASeat == \A m \in Meetups : mstatus[m] = "open" => HasSeat(m)

\* #85: a seat that came back makes a full meetup joinable again.  The purge of
\* a deleted account is the one way a seat is lost: it deletes the request
\* without ReopenMeetupIfSeatFreed.
SeatLostOnlyToPurge ==
  \A m \in Meetups : mstatus[m] = "full" /\ HasSeat(m) =>
    \E r \in RowsOf(m) : status[r] = "deleted" /\ account[By(r)] = "purged"

\* The seats and the status of a meetup agree in these three ways, whatever
\* accepts, withdrawals, sweeps and purges interleave to.
SeatRules == SeatsWithinCapacity /\ OpenHasASeat /\ SeatLostOnlyToPurge

Stands(r) == status[r] \in {"pending", "accepted", "rejected"}

\* "No second ask after a rejection" (meetup_requests.sql) is decided by the
\* INSERT's snapshot, and the unique index (migration 0019) lets in what waited
\* there: so one ask gets past a rejection, the one whose INSERT was under way.
\* However many calls of one user race each other and the host's answers, a
\* third request never stands beside two.
AskedAgainOnce ==
  \A p, q, r \in Rows :
    /\ Stands(p) /\ Stands(q) /\ Stands(r)
    /\ q \in Mine(p) /\ r \in Mine(p)
    => p = q \/ q = r \/ p = r

\* One live request per person per meetup, which the seats rest on.
OneLiveRequest ==
  \A q, r \in Rows :
    IsLive(q) /\ IsLive(r) /\ Of(q) = Of(r) /\ By(q) = By(r) => q = r

\* One meetup at a time (Plan 19): nobody is committed to two live meetups
\* whose windows overlap, whichever way each commitment came about.
NoDoubleBooking ==
  \A u \in Users, m, n \in Meetups :
    m # n /\ Committed(u, m) /\ Committed(u, n) => ~Overlap(m, n)

Ended(m) == mstatus[m] \in {"cancelled", "completed"}

\* Whoever has a seat when a meetup ends was told so by the transaction that
\* ended it, and nobody told so has lost the seat since: who was there is
\* settled (#84), but for accounts that were deleted.
EndedIsTold ==
  \A m \in Meetups : Ended(m) =>
    \A r \in RowsOf(m) :
      /\ status[r] = "accepted" => r \in told
      /\ r \in told => status[r] \in {"accepted", "deleted"}

\* A request that was answered or taken back never becomes live again (V-2),
\* and only the deletion of its user's account erases a seat that was taken.
DecidedStays ==
  [][\A r \in Rows :
       /\ status[r] \in {"rejected", "withdrawn"} => status'[r] \in {status[r], "deleted"}
       /\ status[r] = "deleted" => status'[r] = "deleted"
       /\ status[r] = "accepted" /\ status'[r] = "deleted" => account'[By(r)] = "purged"]_vars

\* What Seats keeps: a seat is an accepted request of its user.
phaseOf == [m \in Meetups |-> IF mstatus[m] = "none" THEN "planned"
                              ELSE IF Live(m) THEN "on" ELSE "over"]
seatedOn == [m \in Meetups |-> {By(r) : r \in Seats(m)}]
purged == {u \in Users : account[u] = "purged"}
Promise == INSTANCE Seats WITH phase <- phaseOf, seated <- seatedOn, gone <- purged

\* The tables and the calls racing over them implement that promise: each
\* transaction is one of its steps or none.
KeepsSeats == Promise!Spec

\* Every meetup ends, by its host or by the auto-close sweep.
EveryMeetupEnds == \A m \in Meetups : Live(m) ~> Ended(m)

\* A deleted account is purged, although each live meetup it still hosts makes
\* the handler fail ("The process converges").
DeletionConverges == \A u \in Users : (account[u] = "deleted") ~> (account[u] = "purged")

-----------------------------------------------------------------------------
(* What comments of the code say and the code does not keep *)

\* meetup_requests.sql: "no second ask after a rejection".
NoSecondAsk ==
  \A q, r \in Rows :
    status[q] = "rejected" /\ IsLive(r) => Of(q) # Of(r) \/ By(q) # By(r)
=============================================================================
