------------------------------- MODULE Outbox -------------------------------
(***************************************************************************)
(* The generic outbox (internal/platform/outbox) over one of its tables:   *)
(* rows are inserted with a business write, claimed in batches by an       *)
(* UPDATE that hides them for a visibility timeout, delivered one by one   *)
(* by a caller-supplied function, and then marked processed, failed with a *)
(* backoff deadline, or dead-lettered.  Every instance of the program runs *)
(* a poller, so several of them share a table.                             *)
(*                                                                         *)
(* Leased = TRUE is the notification table, whose store also implements    *)
(* Leaser: next_attempt_at is the claimer's lease, renewed before each     *)
(* delivery and compared when the row is marked processed.  The other      *)
(* tables (billing, meetup billing, completed meetups, deleted users,      *)
(* activity) are Leased = FALSE.                                           *)
(*                                                                         *)
(* Time is relative: wait[r] is next_attempt_at - now, never below zero.   *)
(* Whose stamp next_attempt_at is, which the code reads off the            *)
(* microseconds, is holder[r].                                             *)
(***************************************************************************)
EXTENDS Integers, FiniteSets

CONSTANTS
  Rows,         \* row ids
  Pollers,      \* one per running instance of the monolith
  NoRow, NoPoller,
  BatchSize, Visibility, BaseDelay, MaxDelay, MaxAttempts,
  Leased,       \* does the store implement Leaser?
  MaxFaults     \* bound: crashes, database errors and overrun deadlines

ASSUME OutboxAssumption ==
  /\ IsFiniteSet(Rows)
  /\ BatchSize \in Nat \ {0}
  /\ Visibility \in Nat \ {0}
  /\ BaseDelay \in Nat
  /\ MaxDelay \in Nat
  /\ MaxAttempts \in Nat
  /\ MaxFaults \in Nat
  /\ Leased \in BOOLEAN
  /\ NoRow \notin Rows
  /\ NoPoller \notin Pollers

VARIABLES
  stored,      \* rows in the table
  erased,      \* rows that were deleted from it
  processed,   \* processed_at IS NOT NULL
  dead,        \* dead_lettered_at IS NOT NULL
  attempts,    \* the attempts column
  wait,        \* next_attempt_at - now, 0 when due
  holder,      \* whose claim or renewal wrote next_attempt_at
  pc,          \* what each poller is doing
  batch,       \* claimed rows it has not reached yet
  seen,        \* Row.Attempts as its claim returned it
  full,        \* the claim returned BatchSize rows: claim again afterwards
  cur,         \* the row being delivered
  result,      \* what process returned for it
  wake,        \* a nudge waits in the poller's one-slot channel
  origin,      \* instance whose request stored the row, while it runs
  told,        \* rows whose request has called Wake
  effects,     \* history: how often the side effect happened
  late,        \* history: rows whose deadline passed while their claimer had them
  overran,     \* history: rows whose lease ran out during a delivery
  unrecorded,  \* history: rows whose effect happened and was not recorded
  faults

tableVars == <<stored, erased, processed, dead, attempts, wait, holder>>
pollVars == <<pc, batch, seen, full, cur, result>>
nudgeVars == <<wake, origin, told>>
histVars == <<effects, late, overran, unrecorded>>
vars == <<tableVars, pollVars, nudgeVars, histVars, faults>>

PCs == {"idle", "claiming", "working", "delivering", "recording"}
Results == {"none", "ok", "retry", "permanent"}

TypeOK ==
  /\ stored \in SUBSET Rows
  /\ erased \in SUBSET Rows
  /\ processed \in SUBSET Rows
  /\ dead \in SUBSET Rows
  /\ attempts \in [Rows -> Nat]
  /\ wait \in [Rows -> Nat]
  /\ holder \in [Rows -> Pollers \cup {NoPoller}]
  /\ pc \in [Pollers -> PCs]
  /\ batch \in [Pollers -> SUBSET Rows]
  /\ seen \in [Pollers -> [Rows -> Nat]]
  /\ full \in [Pollers -> BOOLEAN]
  /\ cur \in [Pollers -> Rows \cup {NoRow}]
  /\ result \in [Pollers -> Results]
  /\ wake \in [Pollers -> BOOLEAN]
  /\ origin \in [Rows -> Pollers \cup {NoPoller}]
  /\ told \in SUBSET Rows
  /\ effects \in [Rows -> Nat]
  /\ late \in SUBSET Rows
  /\ overran \in SUBSET Rows
  /\ unrecorded \in SUBSET Rows
  /\ faults \in Nat

Init ==
  /\ stored = {} /\ erased = {} /\ processed = {} /\ dead = {}
  /\ attempts = [r \in Rows |-> 0]
  /\ wait = [r \in Rows |-> 0]
  /\ holder = [r \in Rows |-> NoPoller]
  /\ pc = [p \in Pollers |-> "idle"]
  /\ batch = [p \in Pollers |-> {}]
  /\ seen = [p \in Pollers |-> [r \in Rows |-> 0]]
  /\ full = [p \in Pollers |-> FALSE]
  /\ cur = [p \in Pollers |-> NoRow]
  /\ result = [p \in Pollers |-> "none"]
  /\ wake = [p \in Pollers |-> FALSE]
  /\ origin = [r \in Rows |-> NoPoller]
  /\ told = {}
  /\ effects = [r \in Rows |-> 0]
  /\ late = {} /\ overran = {} /\ unrecorded = {}
  /\ faults = 0

Fault == faults < MaxFaults /\ faults' = faults + 1

-----------------------------------------------------------------------------
(* The table *)

Pending(r) == r \in stored /\ r \notin processed \cup dead

ClaimableNoTimeout(r) == Pending(r)
ClaimableUnlessClaimed(r) == Pending(r) /\ wait[r] = 0 /\ holder[r] = NoPoller
Claimable(r) == Pending(r) /\ wait[r] = 0

\* EnqueueNotification and its siblings: the insert commits with the
\* business write, on instance p.
Enqueue(p, r) ==
  /\ r \notin stored \cup erased
  /\ stored' = stored \cup {r}
  /\ origin' = [origin EXCEPT ![r] = p]
  /\ UNCHANGED <<erased, processed, dead, attempts, wait, holder, pollVars,
                 wake, told, histVars, faults>>

\* The request calls Wake after its commit: a non-blocking send.
Wake(r) ==
  /\ origin[r] # NoPoller
  /\ r \notin told
  /\ wake' = [wake EXCEPT ![origin[r]] = TRUE]
  /\ told' = told \cup {r}
  /\ UNCHANGED <<tableVars, pollVars, origin, histVars, faults>>

Erased(r) ==
  /\ stored' = stored \ {r}
  /\ erased' = erased \cup {r}
  /\ processed' = processed \ {r}
  /\ dead' = dead \ {r}
  /\ UNCHANGED <<attempts, wait, holder, pollVars, nudgeVars, histVars, faults>>

\* DeleteProcessed... and DeleteDeadLettered...: the retention job.
DeleteOld(r) == r \in processed \cup dead /\ Erased(r)

\* Account deletion takes the rows addressed to the account, pending or not.
DeleteUserRow(r) == r \in stored /\ Erased(r)

-----------------------------------------------------------------------------
(* One poller *)

\* Run: the select loop.  A wake empties the slot, a tick does not.
StartDrain(p) ==
  /\ pc[p] = "idle"
  /\ pc' = [pc EXCEPT ![p] = "claiming"]
  /\ wake' \in {wake, [wake EXCEPT ![p] = FALSE]}
  /\ UNCHANGED <<tableVars, batch, seen, full, cur, result, origin, told,
                 histVars, faults>>

\* ClaimBatch: one UPDATE takes up to BatchSize due rows, counts the attempt
\* and hides them for the visibility timeout.
ClaimBatch(p) ==
  LET due == {r \in Rows : Claimable(r)} IN
  /\ pc[p] = "claiming"
  /\ \E S \in SUBSET due :
       /\ IF Cardinality(due) <= BatchSize THEN S = due
                                           ELSE Cardinality(S) = BatchSize
       /\ attempts' = [r \in Rows |-> IF r \in S THEN attempts[r] + 1 ELSE attempts[r]]
       /\ wait' = [r \in Rows |-> IF r \in S THEN Visibility ELSE wait[r]]
       /\ holder' = [r \in Rows |-> IF r \in S THEN p ELSE holder[r]]
       /\ batch' = [batch EXCEPT ![p] = S]
       /\ seen' = [seen EXCEPT ![p] = [r \in Rows |-> IF r \in S THEN attempts[r] + 1 ELSE 0]]
       /\ full' = [full EXCEPT ![p] = Cardinality(S) = BatchSize]
       /\ pc' = [pc EXCEPT ![p] = IF S = {} THEN "idle" ELSE "working"]
  /\ UNCHANGED <<stored, erased, processed, dead, cur, result, nudgeVars,
                 histVars, faults>>

\* A claim that fails ends the drain; the next tick tries again.
ClaimError(p) ==
  /\ pc[p] = "claiming"
  /\ Fault
  /\ pc' = [pc EXCEPT ![p] = "idle"]
  /\ origin' = [r \in Rows |-> IF origin[r] = p THEN NoPoller ELSE origin[r]]
  /\ UNCHANGED <<tableVars, batch, seen, full, cur, result, wake, told, histVars>>

\* Renew: next_attempt_at is still the stamp this poller wrote, and the row
\* is neither processed nor dead-lettered.
HeldIgnoringTable(p, r) == TRUE
Held(p, r) == Leased => holder[r] = p /\ Pending(r)

\* deliver, its first half: a held row (any row, without a Leaser) goes to
\* process, with its lease extended.
Deliver(p, r) ==
  /\ pc[p] = "working" /\ r \in batch[p] /\ Held(p, r)
  /\ wait' = IF Leased THEN [wait EXCEPT ![r] = Visibility] ELSE wait
  /\ batch' = [batch EXCEPT ![p] = @ \ {r}]
  /\ cur' = [cur EXCEPT ![p] = r]
  /\ pc' = [pc EXCEPT ![p] = "delivering"]
  /\ UNCHANGED <<stored, erased, processed, dead, attempts, holder, seen, full,
                 result, nudgeVars, histVars, faults>>

DropRow(p, r) ==
  /\ pc[p] = "working" /\ r \in batch[p]
  /\ batch' = [batch EXCEPT ![p] = @ \ {r}]
  /\ UNCHANGED <<tableVars, pc, seen, full, cur, result, nudgeVars, histVars>>

\* Renew found the row with another claimer, or gone.
SkipLost(p, r) == ~Held(p, r) /\ DropRow(p, r) /\ UNCHANGED faults

\* Renew failed: the row is left for the next claim.
RenewError(p, r) == Leased /\ Fault /\ DropRow(p, r)

\* The side effect runs inside process; a failing process may have had it.
Process(p, out) ==
  /\ pc[p] = "delivering"
  /\ \E hit \in BOOLEAN :
       /\ out = "ok" => hit
       /\ out = "permanent" => ~hit
       /\ effects' = IF hit THEN [effects EXCEPT ![cur[p]] = @ + 1] ELSE effects
       /\ unrecorded' = IF hit /\ out # "ok" THEN unrecorded \cup {cur[p]} ELSE unrecorded
  /\ result' = [result EXCEPT ![p] = out]
  /\ pc' = [pc EXCEPT ![p] = "recording"]
  /\ UNCHANGED <<tableVars, batch, seen, full, cur, nudgeVars, late, overran, faults>>

NextRow(p) ==
  /\ pc[p] = "recording"
  /\ pc' = [pc EXCEPT ![p] = "working"]
  /\ cur' = [cur EXCEPT ![p] = NoRow]
  /\ result' = [result EXCEPT ![p] = "none"]
  /\ UNCHANGED <<stored, erased, attempts, batch, seen, full, nudgeVars, effects, late,
                 overran>>

\* MarkProcessed matches the row by id; MarkProcessedLeased by id and stamp.
Marks(p) == cur[p] \in stored /\ (Leased => holder[cur[p]] = p)

SucceededUnlessPermanent(p) == result[p] \in {"ok", "retry"}
Succeeded(p) == result[p] = "ok"

RecordOk(p) ==
  /\ Succeeded(p)
  /\ NextRow(p)
  /\ processed' = IF Marks(p) THEN processed \cup {cur[p]} ELSE processed
  /\ unrecorded' = IF Marks(p) THEN unrecorded ELSE unrecorded \cup {cur[p]}
  /\ UNCHANGED <<dead, wait, holder, faults>>

\* deliver counts the attempt once more than the claim did.
Attempt(p) == seen[p][cur[p]] + 1

GivesUp(p) == result[p] = "permanent" \/ Attempt(p) >= MaxAttempts

\* MarkDeadLettered, by id.
RecordDead(p) ==
  /\ result[p] \in {"retry", "permanent"} /\ GivesUp(p)
  /\ NextRow(p)
  /\ dead' = IF cur[p] \in stored THEN dead \cup {cur[p]} ELSE dead
  /\ UNCHANGED <<processed, wait, holder, unrecorded, faults>>

\* base * 2^(n-1), capped, and the cap where the product overflowed.
Backoff(n) ==
  LET d == BaseDelay * 2^(n - 1)
  IN IF n > 32 \/ d \notin 1..MaxDelay THEN MaxDelay ELSE d

\* MarkFailed, by id: it moves next_attempt_at whoever holds the row now.
RecordFailed(p) ==
  /\ result[p] = "retry" /\ ~GivesUp(p)
  /\ NextRow(p)
  /\ IF cur[p] \in stored
     THEN /\ wait' = [wait EXCEPT ![cur[p]] = Backoff(Attempt(p))]
          /\ holder' = [holder EXCEPT ![cur[p]] = NoPoller]
     ELSE UNCHANGED <<wait, holder>>
  /\ UNCHANGED <<processed, dead, unrecorded, faults>>

\* Any of the three writes may fail: logged, and the row comes back later.
RecordError(p) ==
  /\ Fault /\ NextRow(p)
  /\ unrecorded' = IF result[p] = "ok" THEN unrecorded \cup {cur[p]} ELSE unrecorded
  /\ UNCHANGED <<processed, dead, wait, holder>>

\* Drain loops while a claim came back full.
OneBatchPerDrain(p) == "idle"
AfterBatch(p) == IF full[p] THEN "claiming" ELSE "idle"

FinishBatch(p) ==
  /\ pc[p] = "working" /\ batch[p] = {}
  /\ pc' = [pc EXCEPT ![p] = AfterBatch(p)]
  /\ seen' = [seen EXCEPT ![p] = [r \in Rows |-> 0]]
  /\ UNCHANGED <<tableVars, batch, full, cur, result, nudgeVars, histVars, faults>>

-----------------------------------------------------------------------------
(* The environment *)

Has(p, r) == r \in batch[p] \/ cur[p] = r

\* Time passes.  When that ends a claim its holder has not finished with, the
\* row is late: a fault, so it happens finitely often.
Tick ==
  LET lapsing == {r \in Rows : wait[r] = 1 /\ \E p \in Pollers : Has(p, r)} IN
  /\ \E r \in Rows : wait[r] > 0
  /\ wait' = [r \in Rows |-> IF wait[r] > 0 THEN wait[r] - 1 ELSE 0]
  /\ late' = late \cup lapsing
  /\ overran' = overran \cup {r \in lapsing : Leased /\ \E p \in Pollers : cur[p] = r}
  /\ IF lapsing = {} THEN UNCHANGED faults ELSE Fault
  /\ UNCHANGED <<stored, erased, processed, dead, attempts, holder, pollVars,
                 nudgeVars, effects, unrecorded>>

\* The instance dies and comes back with empty memory: an unrecorded outcome,
\* the rest of the batch and every nudge of its requests are lost.
Crash(p) ==
  /\ Fault
  /\ \E hit \in BOOLEAN :
       /\ hit => pc[p] = "delivering"
       /\ effects' = IF hit THEN [effects EXCEPT ![cur[p]] = @ + 1] ELSE effects
       /\ unrecorded' = IF hit \/ result[p] = "ok" THEN unrecorded \cup {cur[p]} ELSE unrecorded
  /\ pc' = [pc EXCEPT ![p] = "idle"]
  /\ batch' = [batch EXCEPT ![p] = {}]
  /\ seen' = [seen EXCEPT ![p] = [r \in Rows |-> 0]]
  /\ full' = [full EXCEPT ![p] = FALSE]
  /\ cur' = [cur EXCEPT ![p] = NoRow]
  /\ result' = [result EXCEPT ![p] = "none"]
  /\ wake' = [wake EXCEPT ![p] = FALSE]
  /\ origin' = [r \in Rows |-> IF origin[r] = p THEN NoPoller ELSE origin[r]]
  /\ UNCHANGED <<tableVars, told, late, overran>>

-----------------------------------------------------------------------------
RowStep(r) ==
  Wake(r) \/ DeleteOld(r) \/ DeleteUserRow(r) \/ (\E p \in Pollers : Enqueue(p, r))

Record(p) == RecordOk(p) \/ RecordDead(p) \/ RecordFailed(p)

Take(p) == \E r \in Rows : Deliver(p, r) \/ SkipLost(p, r)

PollStep(p) ==
  \/ StartDrain(p) \/ ClaimBatch(p) \/ Take(p)
  \/ \E out \in {"ok", "retry", "permanent"} : Process(p, out)
  \/ Record(p) \/ FinishBatch(p)

FaultStep(p) ==
  ClaimError(p) \/ RecordError(p) \/ Crash(p) \/ \E r \in Rows : RenewError(p, r)

Next ==
  \/ \E r \in Rows : RowStep(r)
  \/ \E p \in Pollers : PollStep(p) \/ FaultStep(p)
  \/ Tick

Spec == Init /\ [][Next]_vars

\* The ticker starts a drain every TickInterval whatever happens, a drain runs
\* on, process returns (its own deadline), and time passes.
Fairness == WF_vars(Tick) /\ \A p \in Pollers : WF_vars(PollStep(p))

FairSpec == Spec /\ Fairness

-----------------------------------------------------------------------------
(* Properties *)

\* A row is marked processed only after its side effect happened: no path
\* through crashes, lost leases and failed writes settles an undelivered row.
ProcessedWasDelivered == \A r \in processed : effects[r] > 0

\* Two pollers have the same row only if a deadline passed while a claimer
\* still had it: the visibility timeout is the sole source of overlap.
OverlapOnlyWhenLate ==
  \A p, q \in Pollers : \A r \in Rows :
    p # q /\ Has(p, r) /\ Has(q, r) => r \in late

\* The side effect happens twice only for a row whose deadline was overrun or
\* whose first success could not be recorded.
RepeatedOnlyAfterTrouble ==
  \A r \in Rows : effects[r] > 1 => r \in late \cup unrecorded

\* Two claimers, and a second side effect, come of trouble alone.
TwiceOnlyInTrouble == OverlapOnlyWhenLate /\ RepeatedOnlyAfterTrouble

\* A nudge is never lost to a drain already under way: while the instance that
\* stored a row runs, a row it has called Wake for is either taken up by some
\* poller or its own poller is about to claim again.
NudgeNotLost ==
  \A r \in told : LET p == origin[r] IN
    p # NoPoller /\ Pending(r) /\ attempts[r] = 0 =>
      wake[p] \/ pc[p] = "claiming"
        \/ (pc[p] \in {"working", "delivering", "recording"} /\ full[p])

\* "A slow batch can outlast it, and then another instance claims the same rows
\* and both deliver": with a Leaser not so.  However late a batch's tail is, two
\* instances deliver one row, or its side effect repeats, only when a single
\* delivery outlasted a whole fresh lease (or its success was not recorded).
LeaseKeepsApart ==
  Leased => \A r \in Rows \ overran :
    /\ \A p, q \in Pollers : cur[p] = r /\ cur[q] = r => p = q
    /\ effects[r] > 1 => r \in unrecorded

\* Every stored row is settled or erased in the end.
EveryRowSettles ==
  \A r \in Rows : r \in stored ~> r \in processed \cup dead \cup erased

\* "MarkProcessed records a successful delivery. Terminal." and
\* "MarkDeadLettered abandons a row ... Terminal": a row ends in one way.
OneTerminalState == processed \cap dead = {}

\* The ceiling: a retryable failure is dead-lettered only at attempt number
\* MaxAttempts.
FullRetryBudget ==
  [][\A p \in Pollers : result[p] = "retry" /\ cur[p] \in dead' \ dead
       => seen[p][cur[p]] >= MaxAttempts]_vars

-----------------------------------------------------------------------------
(* What a caller sees *)

Status(r) ==
  CASE r \in erased -> "erased"
    [] r \in processed -> "done"
    [] r \in dead \ processed -> "abandoned"
    [] Pending(r) -> "pending"
    [] OTHER -> "none"

Promise == INSTANCE Delivery WITH
  status <- [r \in Rows |-> Status(r)],
  happened <- {r \in Rows : effects[r] > 0}

\* The poller and its table keep the outbox's promise.
KeepsPromise == Promise!Spec
=============================================================================
