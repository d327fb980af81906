---------------------------- MODULE OutboxProofs ----------------------------
(***************************************************************************)
(* Theorems of Outbox, for any number of rows and pollers and any batch    *)
(* size, timeout, backoff and ceiling.                                     *)
(***************************************************************************)
EXTENDS Outbox, FiniteSetTheorems, TLAPS

\* The poller's program counter says what it holds.
PollerShape ==
  \A p \in Pollers :
    /\ pc[p] \in {"idle", "claiming"} => batch[p] = {}
    /\ pc[p] \notin {"delivering", "recording"} => cur[p] = NoRow
    /\ pc[p] \in {"delivering", "recording"} => cur[p] \in Rows
    /\ cur[p] \notin batch[p]
    /\ result[p] = "none" <=> pc[p] # "recording"

\* Marks are on stored rows, and what a poller has was stored once.
TableShape ==
  /\ stored \cap erased = {}
  /\ processed \subseteq stored /\ dead \subseteq stored
  /\ \A p \in Pollers, r \in Rows : Has(p, r) => r \in stored \cup erased

\* A claimer that is not late holds the stamp, and the stamp is in the future.
ClaimLive ==
  \A p \in Pollers, r \in Rows :
    Has(p, r) /\ r \notin late => holder[r] = p /\ wait[r] > 0

\* A success that is waiting to be recorded did happen.
Delivered ==
  /\ ProcessedWasDelivered
  /\ \A p \in Pollers : result[p] = "ok" => effects[cur[p]] > 0

Recording(p, r) == cur[p] = r /\ result[p] = "ok"

\* Of an untroubled row: the one effect is processed, erased or being
\* recorded, and a poller that has it and is not recording had no effect yet.
EffectShape ==
  \A r \in Rows : r \notin late \cup unrecorded =>
    /\ effects[r] <= 1
    /\ effects[r] = 1 => r \in processed \cup erased \/ \E p \in Pollers : Recording(p, r)
    /\ \A p \in Pollers : Has(p, r) /\ ~Recording(p, r) => effects[r] = 0

IInv == TypeOK /\ PollerShape /\ TableShape /\ ClaimLive /\ Delivered /\ EffectShape
-----------------------------------------------------------------------------

LEMMA BackoffNat == \A n \in Nat : Backoff(n) \in Nat
BY OutboxAssumption DEF Backoff


LEMMA TypeStep ==
  ASSUME TypeOK, PollerShape, [Next]_vars
  PROVE  TypeOK'
<1>1. ASSUME NEW r \in Rows, Wake(r) PROVE TypeOK'
  BY <1>1, OutboxAssumption, BackoffNat DEF Wake, tableVars, pollVars, nudgeVars, histVars,
      TypeOK, PCs, Results, PollerShape
<1>2. ASSUME NEW r \in Rows, DeleteOld(r) PROVE TypeOK'
  BY <1>2, OutboxAssumption, BackoffNat DEF DeleteOld, Erased, tableVars, pollVars,
      nudgeVars, histVars, TypeOK, PCs, Results, PollerShape
<1>3. ASSUME NEW r \in Rows, DeleteUserRow(r) PROVE TypeOK'
  BY <1>3, OutboxAssumption, BackoffNat DEF DeleteUserRow, Erased, tableVars, pollVars,
      nudgeVars, histVars, TypeOK, PCs, Results, PollerShape
<1>4. ASSUME NEW r \in Rows, NEW p \in Pollers, Enqueue(p, r) PROVE TypeOK'
  BY <1>4, OutboxAssumption, BackoffNat DEF Enqueue, tableVars, pollVars, nudgeVars,
      histVars, TypeOK, PCs, Results, PollerShape
<1>5. ASSUME NEW p \in Pollers, StartDrain(p) PROVE TypeOK'
  BY <1>5, OutboxAssumption, BackoffNat DEF StartDrain, tableVars, pollVars, nudgeVars,
      histVars, TypeOK, PCs, Results, PollerShape
<1>6. ASSUME NEW p \in Pollers, ClaimBatch(p) PROVE TypeOK'
  BY <1>6, OutboxAssumption, BackoffNat DEF ClaimBatch, Claimable, Pending, tableVars,
      pollVars, nudgeVars, histVars, TypeOK, PCs, Results, PollerShape
<1>7. ASSUME NEW p \in Pollers, ClaimError(p) PROVE TypeOK'
  BY <1>7, OutboxAssumption, BackoffNat DEF ClaimError, Fault, tableVars, pollVars,
      nudgeVars, histVars, TypeOK, PCs, Results, PollerShape
<1>8. ASSUME NEW p \in Pollers, NEW r \in Rows, Deliver(p, r) PROVE TypeOK'
  BY <1>8, OutboxAssumption, BackoffNat DEF Deliver, Held, Pending, tableVars, pollVars,
      nudgeVars, histVars, TypeOK, PCs, Results, PollerShape
<1>9. ASSUME NEW p \in Pollers, NEW r \in Rows, SkipLost(p, r) PROVE TypeOK'
  BY <1>9, OutboxAssumption, BackoffNat DEF SkipLost, DropRow, tableVars, pollVars,
      nudgeVars, histVars, TypeOK, PCs, Results, PollerShape
<1>10. ASSUME NEW p \in Pollers, NEW r \in Rows, RenewError(p, r) PROVE TypeOK'
  BY <1>10, OutboxAssumption, BackoffNat DEF RenewError, DropRow, Fault, tableVars,
      pollVars, nudgeVars, histVars, TypeOK, PCs, Results, PollerShape
<1>11. ASSUME NEW p \in Pollers, NEW out \in {"ok", "retry", "permanent"}, Process(p, out) PROVE TypeOK'
  BY <1>11, OutboxAssumption, BackoffNat DEF Process, tableVars, pollVars, nudgeVars,
      histVars, TypeOK, PCs, Results, PollerShape
<1>12. ASSUME NEW p \in Pollers, RecordOk(p) PROVE TypeOK'
  BY <1>12, OutboxAssumption, BackoffNat DEF RecordOk, NextRow, Marks, Succeeded, tableVars,
      pollVars, nudgeVars, histVars, TypeOK, PCs, Results, PollerShape
<1>13. ASSUME NEW p \in Pollers, RecordDead(p) PROVE TypeOK'
  BY <1>13, OutboxAssumption, BackoffNat DEF RecordDead, NextRow, tableVars, pollVars,
      nudgeVars, histVars, TypeOK, PCs, Results, PollerShape
<1>14. ASSUME NEW p \in Pollers, RecordFailed(p) PROVE TypeOK'
  <2>1. cur[p] \in Rows /\ Attempt(p) \in Nat
    BY <1>14 DEF RecordFailed, NextRow, Attempt, TypeOK, PollerShape
  <2>2. Backoff(Attempt(p)) \in Nat
    BY <2>1, BackoffNat
  <2>3. wait' \in [Rows -> Nat] /\ holder' \in [Rows -> Pollers \cup {NoPoller}]
    BY <1>14, <2>1, <2>2 DEF RecordFailed, TypeOK
  <2> QED
    BY <1>14, <2>3 DEF RecordFailed, NextRow, nudgeVars, TypeOK, PCs, Results
<1>15. ASSUME NEW p \in Pollers, RecordError(p) PROVE TypeOK'
  BY <1>15, OutboxAssumption, BackoffNat DEF RecordError, NextRow, Fault, tableVars,
      pollVars, nudgeVars, histVars, TypeOK, PCs, Results, PollerShape
<1>16. ASSUME NEW p \in Pollers, FinishBatch(p) PROVE TypeOK'
  BY <1>16, OutboxAssumption, BackoffNat DEF FinishBatch, AfterBatch, tableVars, pollVars,
      nudgeVars, histVars, TypeOK, PCs, Results, PollerShape
<1>17. ASSUME NEW p \in Pollers, Crash(p) PROVE TypeOK'
  BY <1>17, OutboxAssumption, BackoffNat DEF Crash, Fault, tableVars, pollVars, nudgeVars,
      histVars, TypeOK, PCs, Results, PollerShape
<1>18. ASSUME Tick PROVE TypeOK'
  BY <1>18, OutboxAssumption, BackoffNat DEF Tick, Fault, tableVars, pollVars, nudgeVars,
      histVars, TypeOK, PCs, Results, PollerShape
<1>19. ASSUME UNCHANGED vars PROVE TypeOK'
  BY <1>19, OutboxAssumption, BackoffNat DEF vars, tableVars, pollVars, nudgeVars, histVars,
      TypeOK, PCs, Results, PollerShape
<1> QED BY <1>1, <1>2, <1>3, <1>4, <1>5, <1>6, <1>7, <1>8, <1>9, <1>10, <1>11, <1>12, <1>13,
      <1>14, <1>15, <1>16, <1>17, <1>18, <1>19 DEF Next, RowStep, PollStep, Take, Record, FaultStep

LEMMA PollerStep ==
  ASSUME TypeOK, PollerShape, [Next]_vars
  PROVE  PollerShape'
<1>1. ASSUME NEW r \in Rows, Wake(r) PROVE PollerShape'
  BY <1>1, OutboxAssumption DEF Wake, tableVars, pollVars, nudgeVars, histVars, TypeOK, PCs,
      Results, PollerShape
<1>2. ASSUME NEW r \in Rows, DeleteOld(r) PROVE PollerShape'
  BY <1>2, OutboxAssumption DEF DeleteOld, Erased, tableVars, pollVars, nudgeVars, histVars,
      TypeOK, PCs, Results, PollerShape
<1>3. ASSUME NEW r \in Rows, DeleteUserRow(r) PROVE PollerShape'
  BY <1>3, OutboxAssumption DEF DeleteUserRow, Erased, tableVars, pollVars, nudgeVars,
      histVars, TypeOK, PCs, Results, PollerShape
<1>4. ASSUME NEW r \in Rows, NEW p \in Pollers, Enqueue(p, r) PROVE PollerShape'
  BY <1>4, OutboxAssumption DEF Enqueue, tableVars, pollVars, nudgeVars, histVars, TypeOK,
      PCs, Results, PollerShape
<1>5. ASSUME NEW p \in Pollers, StartDrain(p) PROVE PollerShape'
  BY <1>5, OutboxAssumption DEF StartDrain, tableVars, pollVars, nudgeVars, histVars,
      TypeOK, PCs, Results, PollerShape
<1>6. ASSUME NEW p \in Pollers, ClaimBatch(p) PROVE PollerShape'
  BY <1>6, OutboxAssumption DEF ClaimBatch, Claimable, Pending, tableVars, pollVars,
      nudgeVars, histVars, TypeOK, PCs, Results, PollerShape
<1>7. ASSUME NEW p \in Pollers, ClaimError(p) PROVE PollerShape'
  BY <1>7, OutboxAssumption DEF ClaimError, Fault, tableVars, pollVars, nudgeVars, histVars,
      TypeOK, PCs, Results, PollerShape
<1>8. ASSUME NEW p \in Pollers, NEW r \in Rows, Deliver(p, r) PROVE PollerShape'
  BY <1>8, OutboxAssumption DEF Deliver, Held, Pending, tableVars, pollVars, nudgeVars,
      histVars, TypeOK, PCs, Results, PollerShape
<1>9. ASSUME NEW p \in Pollers, NEW r \in Rows, SkipLost(p, r) PROVE PollerShape'
  BY <1>9, OutboxAssumption DEF SkipLost, DropRow, tableVars, pollVars, nudgeVars, histVars,
      TypeOK, PCs, Results, PollerShape
<1>10. ASSUME NEW p \in Pollers, NEW r \in Rows, RenewError(p, r) PROVE PollerShape'
  BY <1>10, OutboxAssumption DEF RenewError, DropRow, Fault, tableVars, pollVars, nudgeVars,
      histVars, TypeOK, PCs, Results, PollerShape
<1>11. ASSUME NEW p \in Pollers, NEW out \in {"ok", "retry", "permanent"}, Process(p, out) PROVE PollerShape'
  BY <1>11, OutboxAssumption DEF Process, tableVars, pollVars, nudgeVars, histVars, TypeOK,
      PCs, Results, PollerShape
<1>12. ASSUME NEW p \in Pollers, RecordOk(p) PROVE PollerShape'
  BY <1>12, OutboxAssumption DEF RecordOk, NextRow, Marks, Succeeded, tableVars, pollVars,
      nudgeVars, histVars, TypeOK, PCs, Results, PollerShape
<1>13. ASSUME NEW p \in Pollers, RecordDead(p) PROVE PollerShape'
  BY <1>13, OutboxAssumption DEF RecordDead, NextRow, tableVars, pollVars, nudgeVars,
      histVars, TypeOK, PCs, Results, PollerShape
<1>14. ASSUME NEW p \in Pollers, RecordFailed(p) PROVE PollerShape'
  BY <1>14, OutboxAssumption DEF RecordFailed, NextRow, tableVars, pollVars, nudgeVars,
      histVars, TypeOK, PCs, Results, PollerShape
<1>15. ASSUME NEW p \in Pollers, RecordError(p) PROVE PollerShape'
  BY <1>15, OutboxAssumption DEF RecordError, NextRow, Fault, tableVars, pollVars,
      nudgeVars, histVars, TypeOK, PCs, Results, PollerShape
<1>16. ASSUME NEW p \in Pollers, FinishBatch(p) PROVE PollerShape'
  BY <1>16, OutboxAssumption DEF FinishBatch, AfterBatch, tableVars, pollVars, nudgeVars,
      histVars, TypeOK, PCs, Results, PollerShape
<1>17. ASSUME NEW p \in Pollers, Crash(p) PROVE PollerShape'
  BY <1>17, OutboxAssumption DEF Crash, Fault, tableVars, pollVars, nudgeVars, histVars,
      TypeOK, PCs, Results, PollerShape
<1>18. ASSUME Tick PROVE PollerShape'
  BY <1>18, OutboxAssumption DEF Tick, Fault, tableVars, pollVars, nudgeVars, histVars,
      TypeOK, PCs, Results, PollerShape
<1>19. ASSUME UNCHANGED vars PROVE PollerShape'
  BY <1>19, OutboxAssumption DEF vars, tableVars, pollVars, nudgeVars, histVars, TypeOK,
      PCs, Results, PollerShape
<1> QED BY <1>1, <1>2, <1>3, <1>4, <1>5, <1>6, <1>7, <1>8, <1>9, <1>10, <1>11, <1>12, <1>13,
      <1>14, <1>15, <1>16, <1>17, <1>18, <1>19 DEF Next, RowStep, PollStep, Take, Record, FaultStep

LEMMA TableStep ==
  ASSUME TypeOK, PollerShape, TableShape, [Next]_vars
  PROVE  TableShape'
<1>1. ASSUME NEW r \in Rows, Wake(r) PROVE TableShape'
  BY <1>1, OutboxAssumption DEF Wake, tableVars, pollVars, nudgeVars, histVars, TypeOK,
      PollerShape, TableShape, Has
<1>2. ASSUME NEW r \in Rows, DeleteOld(r) PROVE TableShape'
  BY <1>2, OutboxAssumption DEF DeleteOld, Erased, tableVars, pollVars, nudgeVars, histVars,
      TypeOK, PollerShape, TableShape, Has
<1>3. ASSUME NEW r \in Rows, DeleteUserRow(r) PROVE TableShape'
  BY <1>3, OutboxAssumption DEF DeleteUserRow, Erased, tableVars, pollVars, nudgeVars,
      histVars, TypeOK, PollerShape, TableShape, Has
<1>4. ASSUME NEW r \in Rows, NEW p \in Pollers, Enqueue(p, r) PROVE TableShape'
  BY <1>4, OutboxAssumption DEF Enqueue, tableVars, pollVars, nudgeVars, histVars, TypeOK,
      PollerShape, TableShape, Has
<1>5. ASSUME NEW p \in Pollers, StartDrain(p) PROVE TableShape'
  BY <1>5, OutboxAssumption DEF StartDrain, tableVars, pollVars, nudgeVars, histVars,
      TypeOK, PollerShape, TableShape, Has
<1>6. ASSUME NEW p \in Pollers, ClaimBatch(p) PROVE TableShape'
  BY <1>6, OutboxAssumption DEF ClaimBatch, Claimable, Pending, tableVars, pollVars,
      nudgeVars, histVars, TypeOK, PollerShape, TableShape, Has
<1>7. ASSUME NEW p \in Pollers, ClaimError(p) PROVE TableShape'
  BY <1>7, OutboxAssumption DEF ClaimError, Fault, tableVars, pollVars, nudgeVars, histVars,
      TypeOK, PollerShape, TableShape, Has
<1>8. ASSUME NEW p \in Pollers, NEW r \in Rows, Deliver(p, r) PROVE TableShape'
  BY <1>8, OutboxAssumption DEF Deliver, Held, Pending, tableVars, pollVars, nudgeVars,
      histVars, TypeOK, PollerShape, TableShape, Has
<1>9. ASSUME NEW p \in Pollers, NEW r \in Rows, SkipLost(p, r) PROVE TableShape'
  BY <1>9, OutboxAssumption DEF SkipLost, DropRow, tableVars, pollVars, nudgeVars, histVars,
      TypeOK, PollerShape, TableShape, Has
<1>10. ASSUME NEW p \in Pollers, NEW r \in Rows, RenewError(p, r) PROVE TableShape'
  BY <1>10, OutboxAssumption DEF RenewError, DropRow, Fault, tableVars, pollVars, nudgeVars,
      histVars, TypeOK, PollerShape, TableShape, Has
<1>11. ASSUME NEW p \in Pollers, NEW out \in {"ok", "retry", "permanent"}, Process(p, out) PROVE TableShape'
  BY <1>11, OutboxAssumption DEF Process, tableVars, pollVars, nudgeVars, histVars, TypeOK,
      PollerShape, TableShape, Has
<1>12. ASSUME NEW p \in Pollers, RecordOk(p) PROVE TableShape'
  BY <1>12, OutboxAssumption DEF RecordOk, NextRow, Marks, Succeeded, tableVars, pollVars,
      nudgeVars, histVars, TypeOK, PollerShape, TableShape, Has
<1>13. ASSUME NEW p \in Pollers, RecordDead(p) PROVE TableShape'
  BY <1>13, OutboxAssumption DEF RecordDead, NextRow, tableVars, pollVars, nudgeVars,
      histVars, TypeOK, PollerShape, TableShape, Has
<1>14. ASSUME NEW p \in Pollers, RecordFailed(p) PROVE TableShape'
  BY <1>14, OutboxAssumption DEF RecordFailed, NextRow, tableVars, pollVars, nudgeVars,
      histVars, TypeOK, PollerShape, TableShape, Has
<1>15. ASSUME NEW p \in Pollers, RecordError(p) PROVE TableShape'
  BY <1>15, OutboxAssumption DEF RecordError, NextRow, Fault, tableVars, pollVars,
      nudgeVars, histVars, TypeOK, PollerShape, TableShape, Has
<1>16. ASSUME NEW p \in Pollers, FinishBatch(p) PROVE TableShape'
  BY <1>16, OutboxAssumption DEF FinishBatch, AfterBatch, tableVars, pollVars, nudgeVars,
      histVars, TypeOK, PollerShape, TableShape, Has
<1>17. ASSUME NEW p \in Pollers, Crash(p) PROVE TableShape'
  BY <1>17, OutboxAssumption DEF Crash, Fault, tableVars, pollVars, nudgeVars, histVars,
      TypeOK, PollerShape, TableShape, Has
<1>18. ASSUME Tick PROVE TableShape'
  BY <1>18, OutboxAssumption DEF Tick, Fault, tableVars, pollVars, nudgeVars, histVars,
      TypeOK, PollerShape, TableShape, Has
<1>19. ASSUME UNCHANGED vars PROVE TableShape'
  BY <1>19, OutboxAssumption DEF vars, tableVars, pollVars, nudgeVars, histVars, TypeOK,
      PollerShape, TableShape, Has
<1> QED BY <1>1, <1>2, <1>3, <1>4, <1>5, <1>6, <1>7, <1>8, <1>9, <1>10, <1>11, <1>12, <1>13,
      <1>14, <1>15, <1>16, <1>17, <1>18, <1>19 DEF Next, RowStep, PollStep, Take, Record, FaultStep

LEMMA ClaimLiveStep ==
  ASSUME TypeOK, PollerShape, ClaimLive, [Next]_vars
  PROVE  ClaimLive'
<1>1. ASSUME NEW r \in Rows, Wake(r) PROVE ClaimLive'
  BY <1>1, OutboxAssumption DEF Wake, tableVars, pollVars, nudgeVars, histVars, TypeOK,
      PollerShape, ClaimLive, Has
<1>2. ASSUME NEW r \in Rows, DeleteOld(r) PROVE ClaimLive'
  BY <1>2, OutboxAssumption DEF DeleteOld, Erased, tableVars, pollVars, nudgeVars, histVars,
      TypeOK, PollerShape, ClaimLive, Has
<1>3. ASSUME NEW r \in Rows, DeleteUserRow(r) PROVE ClaimLive'
  BY <1>3, OutboxAssumption DEF DeleteUserRow, Erased, tableVars, pollVars, nudgeVars,
      histVars, TypeOK, PollerShape, ClaimLive, Has
<1>4. ASSUME NEW r \in Rows, NEW p \in Pollers, Enqueue(p, r) PROVE ClaimLive'
  BY <1>4, OutboxAssumption DEF Enqueue, tableVars, pollVars, nudgeVars, histVars, TypeOK,
      PollerShape, ClaimLive, Has
<1>5. ASSUME NEW p \in Pollers, StartDrain(p) PROVE ClaimLive'
  BY <1>5, OutboxAssumption DEF StartDrain, tableVars, pollVars, nudgeVars, histVars,
      TypeOK, PollerShape, ClaimLive, Has
<1>6. ASSUME NEW p \in Pollers, ClaimBatch(p) PROVE ClaimLive'
  BY <1>6, OutboxAssumption DEF ClaimBatch, Claimable, Pending, tableVars, pollVars,
      nudgeVars, histVars, TypeOK, PollerShape, ClaimLive, Has
<1>7. ASSUME NEW p \in Pollers, ClaimError(p) PROVE ClaimLive'
  BY <1>7, OutboxAssumption DEF ClaimError, Fault, tableVars, pollVars, nudgeVars, histVars,
      TypeOK, PollerShape, ClaimLive, Has
<1>8. ASSUME NEW p \in Pollers, NEW r \in Rows, Deliver(p, r) PROVE ClaimLive'
  BY <1>8, OutboxAssumption DEF Deliver, Held, Pending, tableVars, pollVars, nudgeVars,
      histVars, TypeOK, PollerShape, ClaimLive, Has
<1>9. ASSUME NEW p \in Pollers, NEW r \in Rows, SkipLost(p, r) PROVE ClaimLive'
  BY <1>9, OutboxAssumption DEF SkipLost, DropRow, tableVars, pollVars, nudgeVars, histVars,
      TypeOK, PollerShape, ClaimLive, Has
<1>10. ASSUME NEW p \in Pollers, NEW r \in Rows, RenewError(p, r) PROVE ClaimLive'
  BY <1>10, OutboxAssumption DEF RenewError, DropRow, Fault, tableVars, pollVars, nudgeVars,
      histVars, TypeOK, PollerShape, ClaimLive, Has
<1>11. ASSUME NEW p \in Pollers, NEW out \in {"ok", "retry", "permanent"}, Process(p, out) PROVE ClaimLive'
  BY <1>11, OutboxAssumption DEF Process, tableVars, pollVars, nudgeVars, histVars, TypeOK,
      PollerShape, ClaimLive, Has
<1>12. ASSUME NEW p \in Pollers, RecordOk(p) PROVE ClaimLive'
  BY <1>12, OutboxAssumption DEF RecordOk, NextRow, Marks, Succeeded, tableVars, pollVars,
      nudgeVars, histVars, TypeOK, PollerShape, ClaimLive, Has
<1>13. ASSUME NEW p \in Pollers, RecordDead(p) PROVE ClaimLive'
  BY <1>13, OutboxAssumption DEF RecordDead, NextRow, tableVars, pollVars, nudgeVars,
      histVars, TypeOK, PollerShape, ClaimLive, Has
<1>14. ASSUME NEW p \in Pollers, RecordFailed(p) PROVE ClaimLive'
  <2> SUFFICES ASSUME NEW q \in Pollers, NEW r \in Rows, Has(q, r)', r \notin late'
               PROVE  holder'[r] = q /\ wait'[r] > 0
    BY DEF ClaimLive
  <2>1. Has(q, r) /\ r \notin late /\ cur[p] \in Rows /\ Has(p, cur[p])
    BY <1>14, OutboxAssumption DEF RecordFailed, NextRow, TypeOK, PollerShape, Has
  <2>2. holder[r] = q /\ wait[r] > 0
    BY <2>1 DEF ClaimLive
  <2>3. r # cur[p]
    <3>1. CASE q = p
      BY <1>14, <3>1, OutboxAssumption DEF RecordFailed, NextRow, TypeOK, PollerShape, Has
    <3>2. CASE q # p
      BY <2>1, <2>2, <3>2 DEF ClaimLive
    <3> QED BY <3>1, <3>2
  <2> QED
    BY <1>14, <2>1, <2>2, <2>3 DEF RecordFailed, TypeOK
<1>15. ASSUME NEW p \in Pollers, RecordError(p) PROVE ClaimLive'
  BY <1>15, OutboxAssumption DEF RecordError, NextRow, Fault, tableVars, pollVars,
      nudgeVars, histVars, TypeOK, PollerShape, ClaimLive, Has
<1>16. ASSUME NEW p \in Pollers, FinishBatch(p) PROVE ClaimLive'
  BY <1>16, OutboxAssumption DEF FinishBatch, AfterBatch, tableVars, pollVars, nudgeVars,
      histVars, TypeOK, PollerShape, ClaimLive, Has
<1>17. ASSUME NEW p \in Pollers, Crash(p) PROVE ClaimLive'
  BY <1>17, OutboxAssumption DEF Crash, Fault, tableVars, pollVars, nudgeVars, histVars,
      TypeOK, PollerShape, ClaimLive, Has
<1>18. ASSUME Tick PROVE ClaimLive'
  BY <1>18, OutboxAssumption DEF Tick, Fault, tableVars, pollVars, nudgeVars, histVars,
      TypeOK, PollerShape, ClaimLive, Has
<1>19. ASSUME UNCHANGED vars PROVE ClaimLive'
  BY <1>19, OutboxAssumption DEF vars, tableVars, pollVars, nudgeVars, histVars, TypeOK,
      PollerShape, ClaimLive, Has
<1> QED BY <1>1, <1>2, <1>3, <1>4, <1>5, <1>6, <1>7, <1>8, <1>9, <1>10, <1>11, <1>12, <1>13,
      <1>14, <1>15, <1>16, <1>17, <1>18, <1>19 DEF Next, RowStep, PollStep, Take, Record, FaultStep

LEMMA DeliveredStep ==
  ASSUME TypeOK, PollerShape, TableShape, Delivered, [Next]_vars
  PROVE  Delivered'
<1>1. ASSUME NEW r \in Rows, Wake(r) PROVE Delivered'
  BY <1>1, OutboxAssumption DEF Wake, tableVars, pollVars, nudgeVars, histVars, TypeOK,
      PollerShape, TableShape, Delivered, ProcessedWasDelivered, Has
<1>2. ASSUME NEW r \in Rows, DeleteOld(r) PROVE Delivered'
  BY <1>2, OutboxAssumption DEF DeleteOld, Erased, tableVars, pollVars, nudgeVars, histVars,
      TypeOK, PollerShape, TableShape, Delivered, ProcessedWasDelivered, Has
<1>3. ASSUME NEW r \in Rows, DeleteUserRow(r) PROVE Delivered'
  BY <1>3, OutboxAssumption DEF DeleteUserRow, Erased, tableVars, pollVars, nudgeVars,
      histVars, TypeOK, PollerShape, TableShape, Delivered, ProcessedWasDelivered, Has
<1>4. ASSUME NEW r \in Rows, NEW p \in Pollers, Enqueue(p, r) PROVE Delivered'
  BY <1>4, OutboxAssumption DEF Enqueue, tableVars, pollVars, nudgeVars, histVars, TypeOK,
      PollerShape, TableShape, Delivered, ProcessedWasDelivered, Has
<1>5. ASSUME NEW p \in Pollers, StartDrain(p) PROVE Delivered'
  BY <1>5, OutboxAssumption DEF StartDrain, tableVars, pollVars, nudgeVars, histVars,
      TypeOK, PollerShape, TableShape, Delivered, ProcessedWasDelivered, Has
<1>6. ASSUME NEW p \in Pollers, ClaimBatch(p) PROVE Delivered'
  BY <1>6, OutboxAssumption DEF ClaimBatch, Claimable, Pending, tableVars, pollVars,
      nudgeVars, histVars, TypeOK, PollerShape, TableShape, Delivered,
      ProcessedWasDelivered, Has
<1>7. ASSUME NEW p \in Pollers, ClaimError(p) PROVE Delivered'
  BY <1>7, OutboxAssumption DEF ClaimError, Fault, tableVars, pollVars, nudgeVars, histVars,
      TypeOK, PollerShape, TableShape, Delivered, ProcessedWasDelivered, Has
<1>8. ASSUME NEW p \in Pollers, NEW r \in Rows, Deliver(p, r) PROVE Delivered'
  BY <1>8, OutboxAssumption DEF Deliver, Held, Pending, tableVars, pollVars, nudgeVars,
      histVars, TypeOK, PollerShape, TableShape, Delivered, ProcessedWasDelivered, Has
<1>9. ASSUME NEW p \in Pollers, NEW r \in Rows, SkipLost(p, r) PROVE Delivered'
  BY <1>9, OutboxAssumption DEF SkipLost, DropRow, tableVars, pollVars, nudgeVars, histVars,
      TypeOK, PollerShape, TableShape, Delivered, ProcessedWasDelivered, Has
<1>10. ASSUME NEW p \in Pollers, NEW r \in Rows, RenewError(p, r) PROVE Delivered'
  BY <1>10, OutboxAssumption DEF RenewError, DropRow, Fault, tableVars, pollVars, nudgeVars,
      histVars, TypeOK, PollerShape, TableShape, Delivered, ProcessedWasDelivered, Has
<1>11. ASSUME NEW p \in Pollers, NEW out \in {"ok", "retry", "permanent"}, Process(p, out) PROVE Delivered'
  BY <1>11, OutboxAssumption DEF Process, tableVars, pollVars, nudgeVars, histVars, TypeOK,
      PollerShape, TableShape, Delivered, ProcessedWasDelivered, Has
<1>12. ASSUME NEW p \in Pollers, RecordOk(p) PROVE Delivered'
  BY <1>12, OutboxAssumption DEF RecordOk, NextRow, Marks, Succeeded, tableVars, pollVars,
      nudgeVars, histVars, TypeOK, PollerShape, TableShape, Delivered,
      ProcessedWasDelivered, Has
<1>13. ASSUME NEW p \in Pollers, RecordDead(p) PROVE Delivered'
  BY <1>13, OutboxAssumption DEF RecordDead, NextRow, tableVars, pollVars, nudgeVars,
      histVars, TypeOK, PollerShape, TableShape, Delivered, ProcessedWasDelivered, Has
<1>14. ASSUME NEW p \in Pollers, RecordFailed(p) PROVE Delivered'
  BY <1>14, OutboxAssumption DEF RecordFailed, NextRow, tableVars, pollVars, nudgeVars,
      histVars, TypeOK, PollerShape, TableShape, Delivered, ProcessedWasDelivered, Has
<1>15. ASSUME NEW p \in Pollers, RecordError(p) PROVE Delivered'
  BY <1>15, OutboxAssumption DEF RecordError, NextRow, Fault, tableVars, pollVars,
      nudgeVars, histVars, TypeOK, PollerShape, TableShape, Delivered,
      ProcessedWasDelivered, Has
<1>16. ASSUME NEW p \in Pollers, FinishBatch(p) PROVE Delivered'
  BY <1>16, OutboxAssumption DEF FinishBatch, AfterBatch, tableVars, pollVars, nudgeVars,
      histVars, TypeOK, PollerShape, TableShape, Delivered, ProcessedWasDelivered, Has
<1>17. ASSUME NEW p \in Pollers, Crash(p) PROVE Delivered'
  BY <1>17, OutboxAssumption DEF Crash, Fault, tableVars, pollVars, nudgeVars, histVars,
      TypeOK, PollerShape, TableShape, Delivered, ProcessedWasDelivered, Has
<1>18. ASSUME Tick PROVE Delivered'
  BY <1>18, OutboxAssumption DEF Tick, Fault, tableVars, pollVars, nudgeVars, histVars,
      TypeOK, PollerShape, TableShape, Delivered, ProcessedWasDelivered, Has
<1>19. ASSUME UNCHANGED vars PROVE Delivered'
  BY <1>19, OutboxAssumption DEF vars, tableVars, pollVars, nudgeVars, histVars, TypeOK,
      PollerShape, TableShape, Delivered, ProcessedWasDelivered, Has
<1> QED BY <1>1, <1>2, <1>3, <1>4, <1>5, <1>6, <1>7, <1>8, <1>9, <1>10, <1>11, <1>12, <1>13,
      <1>14, <1>15, <1>16, <1>17, <1>18, <1>19 DEF Next, RowStep, PollStep, Take, Record, FaultStep

LEMMA EffectKept ==
  ASSUME EffectShape, effects' = effects, late' = late, unrecorded' = unrecorded,
         cur' = cur, batch' = batch, result' = result,
         processed \cup erased \subseteq processed' \cup erased'
  PROVE  EffectShape'
BY DEF EffectShape, Recording, Has

LEMMA EffectStep ==
  ASSUME IInv, [Next]_vars
  PROVE  EffectShape'
<1>1. ASSUME NEW r \in Rows, Wake(r) PROVE EffectShape'
  BY <1>1, OutboxAssumption DEF Wake, tableVars, pollVars, nudgeVars, histVars, IInv,
      TypeOK, PollerShape, TableShape, ClaimLive, EffectShape, Recording, Has
<1>2. ASSUME NEW r \in Rows, DeleteOld(r) PROVE EffectShape'
  BY <1>2, OutboxAssumption DEF DeleteOld, Erased, tableVars, pollVars, nudgeVars, histVars,
      IInv, TypeOK, PollerShape, TableShape, ClaimLive, EffectShape, Recording, Has
<1>3. ASSUME NEW r \in Rows, DeleteUserRow(r) PROVE EffectShape'
  <2>1. effects' = effects /\ late' = late /\ unrecorded' = unrecorded
    BY <1>3 DEF DeleteUserRow, Erased, pollVars, nudgeVars, histVars
  <2>2. cur' = cur /\ batch' = batch /\ result' = result
    BY <1>3 DEF DeleteUserRow, Erased, pollVars, nudgeVars, histVars
  <2>3. processed \cup erased \subseteq processed' \cup erased'
    BY <1>3 DEF DeleteUserRow, Erased, pollVars, nudgeVars, histVars
  <2> QED
    BY <2>1, <2>2, <2>3, EffectKept DEF IInv
<1>4. ASSUME NEW r \in Rows, NEW p \in Pollers, Enqueue(p, r) PROVE EffectShape'
  <2>1. effects' = effects /\ late' = late /\ unrecorded' = unrecorded
    BY <1>4 DEF Enqueue, pollVars, histVars
  <2>2. cur' = cur /\ batch' = batch /\ result' = result
    BY <1>4 DEF Enqueue, pollVars, histVars
  <2>3. processed \cup erased \subseteq processed' \cup erased'
    BY <1>4 DEF Enqueue, pollVars, histVars
  <2> QED
    BY <2>1, <2>2, <2>3, EffectKept DEF IInv
<1>5. ASSUME NEW p \in Pollers, StartDrain(p) PROVE EffectShape'
  BY <1>5, OutboxAssumption DEF StartDrain, tableVars, pollVars, nudgeVars, histVars, IInv,
      TypeOK, PollerShape, TableShape, ClaimLive, EffectShape, Recording, Has
<1>6. ASSUME NEW p \in Pollers, ClaimBatch(p) PROVE EffectShape'
  <2>1. PICK S \in SUBSET {r \in Rows : Claimable(r)} : batch' = [batch EXCEPT ![p] = S]
    BY <1>6 DEF ClaimBatch
  <2>2. UNCHANGED <<effects, late, unrecorded, cur, result, processed, erased>>
    BY <1>6 DEF ClaimBatch, nudgeVars, histVars
  <2>3. ASSUME NEW r \in S, r \notin late \cup unrecorded PROVE effects[r] = 0
    <3>1. r \in Rows /\ Pending(r) /\ wait[r] = 0
      BY <2>1, <2>3 DEF Claimable
    <3>2. r \notin processed \cup erased
      BY <3>1 DEF Pending, IInv, TableShape
    <3>3. ~ \E q \in Pollers : Recording(q, r)
      BY <2>3, <3>1 DEF IInv, ClaimLive, Recording, Has
    <3>4. effects[r] \in Nat
      BY <3>1 DEF IInv, TypeOK
    <3>5. effects[r] <= 1 /\ effects[r] # 1
      BY <2>3, <3>1, <3>2, <3>3 DEF IInv, EffectShape
    <3> QED
      BY <3>4, <3>5
  <2> SUFFICES ASSUME NEW r \in Rows, r \notin late \cup unrecorded
               PROVE  /\ effects[r] <= 1
                      /\ effects[r] = 1 =>
                           r \in processed \cup erased \/ \E q \in Pollers : Recording(q, r)
                      /\ \A q \in Pollers : Has(q, r)' /\ ~Recording(q, r) => effects[r] = 0
    BY <2>2 DEF EffectShape, Recording
  <2>4. ASSUME NEW q \in Pollers, Has(q, r)', ~Recording(q, r) PROVE effects[r] = 0
    <3>1. CASE Has(q, r)
      BY <2>4, <3>1 DEF IInv, EffectShape
    <3>2. CASE ~Has(q, r)
      <4>1. r \in S
        <5>1. batch \in [Pollers -> SUBSET Rows] /\ cur' = cur
          BY <2>2 DEF IInv, TypeOK
        <5>2. batch'[q] = IF q = p THEN S ELSE batch[q]
          BY <5>1, <2>1
        <5> QED BY <5>1, <5>2, <2>4, <3>2 DEF Has
      <4> QED BY <4>1, <2>3
    <3> QED BY <3>1, <3>2
  <2> QED
    BY <2>4 DEF IInv, EffectShape
<1>7. ASSUME NEW p \in Pollers, ClaimError(p) PROVE EffectShape'
  BY <1>7, OutboxAssumption DEF ClaimError, Fault, tableVars, pollVars, nudgeVars, histVars,
      IInv, TypeOK, PollerShape, TableShape, ClaimLive, EffectShape, Recording, Has
<1>8. ASSUME NEW p \in Pollers, NEW r \in Rows, Deliver(p, r) PROVE EffectShape'
  <2>1. UNCHANGED <<effects, late, unrecorded, result, processed, erased>>
    BY <1>8 DEF Deliver, nudgeVars, histVars
  <2>2. ASSUME NEW q \in Pollers, NEW s \in Rows
        PROVE  (Has(q, s)' <=> Has(q, s)) /\ (Recording(q, s)' <=> Recording(q, s))
    BY <1>8, OutboxAssumption
    DEF Deliver, IInv, TypeOK, PollerShape, Has, Recording
  <2> QED
    BY <2>1, <2>2 DEF IInv, EffectShape
<1>9. ASSUME NEW p \in Pollers, NEW r \in Rows, SkipLost(p, r) PROVE EffectShape'
  BY <1>9, OutboxAssumption DEF SkipLost, DropRow, tableVars, pollVars, nudgeVars, histVars,
      IInv, TypeOK, PollerShape, TableShape, ClaimLive, EffectShape, Recording, Has
<1>10. ASSUME NEW p \in Pollers, NEW r \in Rows, RenewError(p, r) PROVE EffectShape'
  BY <1>10, OutboxAssumption DEF RenewError, DropRow, Fault, tableVars, pollVars, nudgeVars,
      histVars, IInv, TypeOK, PollerShape, TableShape, ClaimLive, EffectShape, Recording,
      Has
<1>11. ASSUME NEW p \in Pollers, NEW out \in {"ok", "retry", "permanent"}, Process(p, out) PROVE EffectShape'
  BY <1>11, OutboxAssumption DEF Process, tableVars, pollVars, nudgeVars, histVars, IInv,
      TypeOK, PollerShape, TableShape, ClaimLive, EffectShape, Recording, Has
<1>12. ASSUME NEW p \in Pollers, RecordOk(p) PROVE EffectShape'
  BY <1>12, OutboxAssumption DEF RecordOk, NextRow, Marks, Succeeded, tableVars, pollVars,
      nudgeVars, histVars, IInv, TypeOK, PollerShape, TableShape, ClaimLive, EffectShape,
      Recording, Has
<1>13. ASSUME NEW p \in Pollers, RecordDead(p) PROVE EffectShape'
  BY <1>13, OutboxAssumption DEF RecordDead, NextRow, tableVars, pollVars, nudgeVars,
      histVars, IInv, TypeOK, PollerShape, TableShape, ClaimLive, EffectShape, Recording,
      Has
<1>14. ASSUME NEW p \in Pollers, RecordFailed(p) PROVE EffectShape'
  BY <1>14, OutboxAssumption DEF RecordFailed, NextRow, tableVars, pollVars, nudgeVars,
      histVars, IInv, TypeOK, PollerShape, TableShape, ClaimLive, EffectShape, Recording,
      Has
<1>15. ASSUME NEW p \in Pollers, RecordError(p) PROVE EffectShape'
  BY <1>15, OutboxAssumption DEF RecordError, NextRow, Fault, tableVars, pollVars,
      nudgeVars, histVars, IInv, TypeOK, PollerShape, TableShape, ClaimLive, EffectShape,
      Recording, Has
<1>16. ASSUME NEW p \in Pollers, FinishBatch(p) PROVE EffectShape'
  BY <1>16, OutboxAssumption DEF FinishBatch, AfterBatch, tableVars, pollVars, nudgeVars,
      histVars, IInv, TypeOK, PollerShape, TableShape, ClaimLive, EffectShape, Recording,
      Has
<1>17. ASSUME NEW p \in Pollers, Crash(p) PROVE EffectShape'
  BY <1>17, OutboxAssumption DEF Crash, Fault, tableVars, pollVars, nudgeVars, histVars,
      IInv, TypeOK, PollerShape, TableShape, ClaimLive, EffectShape, Recording, Has
<1>18. ASSUME Tick PROVE EffectShape'
  BY <1>18, OutboxAssumption DEF Tick, Fault, tableVars, pollVars, nudgeVars, histVars,
      IInv, TypeOK, PollerShape, TableShape, ClaimLive, EffectShape, Recording, Has
<1>19. ASSUME UNCHANGED vars PROVE EffectShape'
  BY <1>19, OutboxAssumption DEF vars, tableVars, pollVars, nudgeVars, histVars, IInv,
      TypeOK, PollerShape, TableShape, ClaimLive, EffectShape, Recording, Has
<1> QED BY <1>1, <1>2, <1>3, <1>4, <1>5, <1>6, <1>7, <1>8, <1>9, <1>10, <1>11, <1>12, <1>13,
      <1>14, <1>15, <1>16, <1>17, <1>18, <1>19 DEF Next, RowStep, PollStep, Take, Record, FaultStep

THEOREM TypeCorrect == Spec => [](TypeOK /\ PollerShape)
<1>1. Init => TypeOK /\ PollerShape
  BY OutboxAssumption DEF Init, TypeOK, PCs, Results, PollerShape
<1>2. TypeOK /\ PollerShape /\ [Next]_vars => (TypeOK /\ PollerShape)'
  BY TypeStep, PollerStep
<1> QED
  BY <1>1, <1>2, PTL DEF Spec

LEMMA InductiveInvariant == Spec => []IInv
<1>1. Init => IInv
  BY OutboxAssumption
  DEF Init, IInv, TypeOK, PCs, Results, PollerShape, TableShape, ClaimLive, Delivered,
      ProcessedWasDelivered, EffectShape, Recording, Has
<1>2. IInv /\ [Next]_vars => IInv'
  BY TypeStep, PollerStep, TableStep, ClaimLiveStep, DeliveredStep, EffectStep DEF IInv
<1> QED
  BY <1>1, <1>2, PTL DEF Spec

\* MarkProcessed is reached only behind a side effect that happened.
THEOREM ProcessedIsDelivered == Spec => []ProcessedWasDelivered
<1>1. IInv => ProcessedWasDelivered
  BY DEF IInv, Delivered
<1> QED
  BY InductiveInvariant, <1>1, PTL

\* Two pollers have one row only if the visibility timeout ran out on one.
THEOREM OverlapIsLateness == Spec => []OverlapOnlyWhenLate
<1>1. IInv => OverlapOnlyWhenLate
  BY DEF IInv, ClaimLive, OverlapOnlyWhenLate
<1> QED
  BY InductiveInvariant, <1>1, PTL

\* Duplicates need an overrun deadline or a success that was not recorded.
THEOREM RepetitionIsTrouble == Spec => []RepeatedOnlyAfterTrouble
<1>1. IInv => RepeatedOnlyAfterTrouble
  BY DEF IInv, TypeOK, EffectShape, RepeatedOnlyAfterTrouble
<1> QED
  BY InductiveInvariant, <1>1, PTL

\* Both, as the runs check them.
THEOREM TroubleAlone == Spec => []TwiceOnlyInTrouble
<1>1. OverlapOnlyWhenLate /\ RepeatedOnlyAfterTrouble => TwiceOnlyInTrouble
  BY DEF TwiceOnlyInTrouble
<1> QED
  BY OverlapIsLateness, RepetitionIsTrouble, <1>1, PTL

-----------------------------------------------------------------------------
(* Nudges *)

\* A row no poller ever claimed is due at once and in nobody's hands, and only
\* a row that was stored has a request that could nudge.
Unclaimed ==
  /\ \A r \in Rows : attempts[r] = 0 => wait[r] = 0
  /\ \A p \in Pollers, r \in Rows : Has(p, r) => attempts[r] > 0
  /\ \A r \in Rows : origin[r] # NoPoller \/ r \in told => r \in stored \cup erased

\* The poller of p is going to claim again without waiting for its ticker.
Roused(p) ==
  \/ wake[p] \/ pc[p] = "claiming"
  \/ pc[p] \in {"working", "delivering", "recording"} /\ full[p]

NudgeInv == Unclaimed /\ NudgeNotLost

LEMMA UnclaimedStep ==
  ASSUME TypeOK, PollerShape, Unclaimed, [Next]_vars
  PROVE  Unclaimed'
<1> USE DEF Has
<1>1. ASSUME NEW r \in Rows, RowStep(r) PROVE Unclaimed'
  <2>1. /\ UNCHANGED <<attempts, wait, pollVars>>
        /\ stored \cup erased \subseteq stored' \cup erased'
        /\ \A s \in Rows : origin'[s] # NoPoller \/ s \in told'
                             => origin[s] # NoPoller \/ s \in told \/ s \in stored'
    <3>1. CASE Wake(r)
      BY <3>1 DEF Wake, tableVars, pollVars, TypeOK
    <3>2. CASE DeleteOld(r) \/ DeleteUserRow(r)
      BY <3>2 DEF DeleteOld, DeleteUserRow, Erased, nudgeVars
    <3>3. CASE \E p \in Pollers : Enqueue(p, r)
      BY <3>3 DEF Enqueue, TypeOK
    <3> QED
      BY <1>1, <3>1, <3>2, <3>3 DEF RowStep
  <2> QED
    BY <2>1 DEF Unclaimed, pollVars
<1>2. ASSUME NEW p \in Pollers, StartDrain(p) \/ ClaimError(p) \/ FinishBatch(p) PROVE Unclaimed'
  <2>1. UNCHANGED <<tableVars, batch, cur, told>>
    BY <1>2 DEF StartDrain, ClaimError, FinishBatch, nudgeVars
  <2>2. \A r \in Rows : origin'[r] \in {origin[r], NoPoller}
    BY <1>2 DEF StartDrain, ClaimError, FinishBatch, nudgeVars, TypeOK
  <2> QED
    BY <2>1, <2>2 DEF Unclaimed, tableVars
<1>3. ASSUME NEW p \in Pollers, ClaimBatch(p) PROVE Unclaimed'
  <2>1. PICK S \in SUBSET {r \in Rows : Claimable(r)} :
          /\ attempts' = [r \in Rows |-> IF r \in S THEN attempts[r] + 1 ELSE attempts[r]]
          /\ wait' = [r \in Rows |-> IF r \in S THEN Visibility ELSE wait[r]]
          /\ batch' = [batch EXCEPT ![p] = S]
    BY <1>3 DEF ClaimBatch
  <2>2. UNCHANGED <<stored, erased, cur, origin, told>>
    BY <1>3 DEF ClaimBatch, nudgeVars
  <2>3. \A r \in Rows : /\ attempts[r] \in Nat
                        /\ attempts'[r] = IF r \in S THEN attempts[r] + 1 ELSE attempts[r]
                        /\ wait'[r] = IF r \in S THEN Visibility ELSE wait[r]
    BY <2>1 DEF TypeOK
  <2>4. \A q \in Pollers : batch'[q] = IF q = p THEN S ELSE batch[q]
    BY <2>1 DEF TypeOK
  <2> QED
    BY <2>2, <2>3, <2>4 DEF Unclaimed
<1>4. ASSUME NEW p \in Pollers, NEW r \in Rows, Deliver(p, r) PROVE Unclaimed'
  <2>1. /\ UNCHANGED <<attempts, stored, erased, origin, told>>
        /\ batch' = [batch EXCEPT ![p] = @ \ {r}] /\ cur' = [cur EXCEPT ![p] = r]
        /\ wait' \in {wait, [wait EXCEPT ![r] = Visibility]}
        /\ r \in batch[p]
    BY <1>4 DEF Deliver, nudgeVars
  <2>2. attempts[r] > 0
    BY <2>1 DEF Unclaimed
  <2>3. \A q \in Pollers, s \in Rows : Has(q, s)' => Has(q, s) \/ s = r
    BY <2>1 DEF TypeOK
  <2>4. \A s \in Rows : s # r => wait'[s] = wait[s]
    BY <2>1 DEF TypeOK
  <2>5. attempts[r] # 0
    BY <2>2
  <2> QED
    BY <2>1, <2>2, <2>3, <2>4, <2>5 DEF Unclaimed
<1>5. ASSUME NEW p \in Pollers, NEW r \in Rows, SkipLost(p, r) \/ RenewError(p, r) PROVE Unclaimed'
  <2>1. UNCHANGED <<attempts, wait, stored, erased, cur, origin, told>> /\ batch' = [batch EXCEPT ![p] = @ \ {r}]
    BY <1>5 DEF SkipLost, RenewError, DropRow, tableVars, nudgeVars
  <2>2. \A q \in Pollers, s \in Rows : Has(q, s)' => Has(q, s)
    BY <2>1 DEF TypeOK
  <2> QED
    BY <2>1, <2>2 DEF Unclaimed
<1>6. ASSUME NEW p \in Pollers, NEW out \in {"ok", "retry", "permanent"}, Process(p, out)
      PROVE  Unclaimed'
  BY <1>6 DEF Process, tableVars, nudgeVars, Unclaimed
<1>7. ASSUME NEW p \in Pollers, Record(p) \/ RecordError(p) PROVE Unclaimed'
  <2>1. NextRow(p) /\ UNCHANGED <<attempts, stored, erased, origin, told, batch>>
    BY <1>7 DEF Record, RecordOk, RecordDead, RecordFailed, RecordError, NextRow, nudgeVars
  <2>2. cur[p] \in Rows /\ attempts[cur[p]] > 0
    BY <2>1 DEF NextRow, PollerShape, Unclaimed
  <2>3. \A s \in Rows : s # cur[p] => wait'[s] = wait[s]
    BY <1>7, <2>2 DEF Record, RecordOk, RecordDead, RecordFailed, RecordError, TypeOK
  <2>4. \A q \in Pollers, s \in Rows : Has(q, s)' => Has(q, s)
    <3>1. cur' = [cur EXCEPT ![p] = NoRow]
      BY <2>1 DEF NextRow
    <3> QED
      BY <2>1, <3>1, OutboxAssumption DEF TypeOK
  <2>5. attempts[cur[p]] # 0
    BY <2>2
  <2> QED
    BY <2>1, <2>3, <2>4, <2>5 DEF Unclaimed
<1>8. ASSUME Tick PROVE Unclaimed'
  <2>1. UNCHANGED <<attempts, stored, erased, cur, batch, origin, told>>
    BY <1>8 DEF Tick, pollVars, nudgeVars
  <2>2. \A r \in Rows : wait[r] = 0 => wait'[r] = 0
    BY <1>8 DEF Tick, TypeOK
  <2> QED
    BY <2>1, <2>2 DEF Unclaimed
<1>9. ASSUME NEW p \in Pollers, Crash(p) PROVE Unclaimed'
  <2>1. /\ UNCHANGED <<attempts, wait, stored, erased, told>>
        /\ batch' = [batch EXCEPT ![p] = {}] /\ cur' = [cur EXCEPT ![p] = NoRow]
        /\ origin' = [r \in Rows |-> IF origin[r] = p THEN NoPoller ELSE origin[r]]
    BY <1>9 DEF Crash, tableVars
  <2>2. \A q \in Pollers, s \in Rows : Has(q, s)' => Has(q, s)
    BY <2>1, OutboxAssumption DEF TypeOK
  <2>3. \A r \in Rows : origin'[r] \in {origin[r], NoPoller}
    BY <2>1
  <2> QED
    BY <2>1, <2>2, <2>3 DEF Unclaimed
<1>10. ASSUME UNCHANGED vars PROVE Unclaimed'
  BY <1>10 DEF vars, tableVars, pollVars, nudgeVars, Unclaimed
<1> QED
  BY <1>1, <1>2, <1>3, <1>4, <1>5, <1>6, <1>7, <1>8, <1>9, <1>10
  DEF Next, PollStep, Take, FaultStep

\* A claim that leaves a due row behind came back full.
LEMMA ClaimTakesAllOrFills ==
  ASSUME NEW p \in Pollers, ClaimBatch(p), TypeOK
  PROVE  \/ \A r \in Rows : Claimable(r) => attempts'[r] = attempts[r] + 1
         \/ pc'[p] = "working" /\ full'[p]
<1>1. PICK S \in SUBSET {r \in Rows : Claimable(r)} :
        /\ S = {r \in Rows : Claimable(r)} \/ Cardinality(S) = BatchSize
        /\ attempts' = [r \in Rows |-> IF r \in S THEN attempts[r] + 1 ELSE attempts[r]]
        /\ full' = [full EXCEPT ![p] = Cardinality(S) = BatchSize]
        /\ pc' = [pc EXCEPT ![p] = IF S = {} THEN "idle" ELSE "working"]
  BY DEF ClaimBatch
<1>2. CASE S = {r \in Rows : Claimable(r)}
  BY <1>1, <1>2
<1>3. CASE Cardinality(S) = BatchSize
  <2>1. S # {}
    BY <1>3, FS_EmptySet, OutboxAssumption
  <2> QED
    BY <1>1, <1>3, <2>1 DEF TypeOK
<1> QED
  BY <1>1, <1>2, <1>3

LEMMA NudgeStep ==
  ASSUME TypeOK, PollerShape, Unclaimed, NudgeNotLost, [Next]_vars
  PROVE  NudgeNotLost'
<1> SUFFICES ASSUME NEW r \in told', NEW p, p = origin'[r], p # NoPoller,
                    Pending(r)', attempts'[r] = 0
             PROVE  Roused(p)'
  BY DEF NudgeNotLost, Roused
<1> USE DEF Roused
<1>0. r \in Rows /\ p \in Pollers
  BY TypeStep DEF TypeOK
<1> DEFINE Was == r \in told /\ origin[r] = p /\ Pending(r) /\ attempts[r] = 0
<1>1. Was => Roused(p) /\ Claimable(r)
  BY <1>0 DEF NudgeNotLost, Unclaimed, Claimable
<1>2. ASSUME NEW s \in Rows, Wake(s) PROVE Roused(p)'
  <2>1. CASE s = r
    BY <1>0, <1>2, <2>1 DEF Wake, TypeOK
  <2>2. CASE s # r
    <3>1. Was
      BY <1>2, <2>2 DEF Wake, tableVars, Pending
    <3> QED
      BY <3>1, <1>0, <1>1, <1>2 DEF Wake, pollVars, TypeOK
  <2> QED
    BY <2>1, <2>2
<1>3. ASSUME NEW s \in Rows, DeleteOld(s) \/ DeleteUserRow(s) PROVE Roused(p)'
  <2>1. /\ UNCHANGED <<attempts, pollVars, nudgeVars>> /\ r # s
        /\ stored' = stored \ {s} /\ processed' = processed \ {s} /\ dead' = dead \ {s}
    BY <1>3 DEF DeleteOld, DeleteUserRow, Erased, Pending
  <2>2. Was
    BY <2>1 DEF Pending, nudgeVars
  <2> QED
    BY <1>1, <2>1, <2>2 DEF pollVars, nudgeVars
<1>4. ASSUME NEW s \in Rows, NEW q \in Pollers, Enqueue(q, s) PROVE Roused(p)'
  <2>1. /\ UNCHANGED <<attempts, pollVars, wake, told, processed, dead>>
        /\ s \notin told
        /\ stored' = stored \cup {s} /\ origin' = [origin EXCEPT ![s] = q]
    BY <1>4 DEF Enqueue, Unclaimed
  <2>2. Was
    BY <2>1, <1>0 DEF Pending, TypeOK
  <2> QED
    BY <1>1, <2>1, <2>2 DEF pollVars
<1>5. ASSUME NEW q \in Pollers, StartDrain(q) PROVE Roused(p)'
  <2>1. UNCHANGED <<tableVars, told, origin, full>>
    BY <1>5 DEF StartDrain
  <2>2. Was
    BY <2>1 DEF tableVars, Pending
  <2> QED
    BY <1>0, <1>1, <1>5, <2>1, <2>2 DEF StartDrain, TypeOK
<1>6. ASSUME NEW q \in Pollers, ClaimBatch(q) PROVE Roused(p)'
  <2>1. /\ UNCHANGED <<stored, processed, dead, wake, told, origin>>
        /\ \E v : pc' = [pc EXCEPT ![q] = v]
        /\ \E v : full' = [full EXCEPT ![q] = v]
    BY <1>6 DEF ClaimBatch, nudgeVars
  <2>2. attempts[r] = 0
    <3>1. attempts'[r] \in {attempts[r], attempts[r] + 1} /\ attempts[r] \in Nat
      BY <1>0, <1>6 DEF ClaimBatch, TypeOK
    <3> QED
      BY <3>1
  <2>3. Was
    BY <2>1, <2>2 DEF Pending
  <2>4. CASE q = p
    <3>1. attempts'[r] # attempts[r] + 1
      BY <2>2
    <3> QED
      BY <1>0, <1>1, <1>6, <2>3, <2>4, <3>1, ClaimTakesAllOrFills
  <2>5. CASE q # p
    <3>1. pc'[p] = pc[p] /\ full'[p] = full[p] /\ wake'[p] = wake[p]
      BY <2>1, <2>5
    <3> QED
      BY <1>1, <2>3, <3>1
  <2> QED
    BY <2>4, <2>5
<1>7. ASSUME NEW q \in Pollers, ClaimError(q) PROVE Roused(p)'
  <2>1. /\ UNCHANGED <<tableVars, told, wake, full>> /\ pc' = [pc EXCEPT ![q] = "idle"]
        /\ origin' = [s \in Rows |-> IF origin[s] = q THEN NoPoller ELSE origin[s]]
    BY <1>7 DEF ClaimError
  <2>2. Was /\ p # q
    BY <1>0, <2>1 DEF tableVars, Pending
  <2> QED
    BY <1>1, <2>1, <2>2
<1>8. ASSUME NEW q \in Pollers,
             \/ \E s \in Rows : Deliver(q, s) \/ SkipLost(q, s) \/ RenewError(q, s)
             \/ \E out \in {"ok", "retry", "permanent"} : Process(q, out)
             \/ Record(q) \/ RecordError(q)
      PROVE  Roused(p)'
  <2>1. /\ UNCHANGED <<stored, attempts, nudgeVars, full>>
        /\ processed \subseteq processed' /\ dead \subseteq dead'
    BY <1>8 DEF Deliver, SkipLost, RenewError, DropRow, Process, Record, RecordOk, RecordDead,
      RecordFailed, RecordError, NextRow, tableVars
  <2>2. /\ pc[q] \in {"working", "delivering", "recording"}
        /\ \E v \in {"working", "delivering", "recording"} : pc' = [pc EXCEPT ![q] = v]
    <3>1. CASE \E s \in Rows : SkipLost(q, s) \/ RenewError(q, s)
      BY <3>1 DEF SkipLost, RenewError, DropRow, TypeOK
    <3>2. CASE \E s \in Rows : Deliver(q, s)
      BY <3>2 DEF Deliver
    <3>3. CASE \E out \in {"ok", "retry", "permanent"} : Process(q, out)
      BY <3>3 DEF Process
    <3>4. CASE Record(q) \/ RecordError(q)
      BY <3>4 DEF Record, RecordOk, RecordDead, RecordFailed, RecordError, NextRow
    <3> QED
      BY <1>8, <3>1, <3>2, <3>3, <3>4
  <2>3. Was
    BY <2>1 DEF nudgeVars, Pending
  <2>4. wake' = wake /\ full' = full
    BY <2>1 DEF nudgeVars
  <2>5. CASE p = q
    <3>1. pc'[p] \in {"working", "delivering", "recording"} /\ pc[p] # "claiming"
      BY <1>0, <2>2, <2>5 DEF TypeOK
    <3> QED
      BY <1>1, <2>3, <2>4, <3>1
  <2>6. CASE p # q
    <3>1. pc'[p] = pc[p]
      BY <2>2, <2>6
    <3> QED
      BY <1>1, <2>3, <2>4, <3>1
  <2> QED
    BY <2>5, <2>6
<1>9. ASSUME NEW q \in Pollers, FinishBatch(q) PROVE Roused(p)'
  <2>1. /\ UNCHANGED <<tableVars, nudgeVars, full>> /\ pc[q] = "working"
        /\ pc' = [pc EXCEPT ![q] = IF full[q] THEN "claiming" ELSE "idle"]
    BY <1>9 DEF FinishBatch, AfterBatch
  <2>2. Was
    BY <2>1 DEF tableVars, nudgeVars, Pending
  <2> QED
    BY <1>0, <1>1, <2>1, <2>2 DEF nudgeVars, TypeOK
<1>10. ASSUME Tick PROVE Roused(p)'
  <2>1. UNCHANGED <<stored, processed, dead, attempts, pollVars, nudgeVars>>
    BY <1>10 DEF Tick
  <2>2. Was
    BY <2>1 DEF nudgeVars, Pending
  <2> QED
    BY <1>1, <2>1, <2>2 DEF pollVars, nudgeVars
<1>11. ASSUME NEW q \in Pollers, Crash(q) PROVE Roused(p)'
  <2>1. /\ UNCHANGED <<tableVars, told>> /\ pc' = [pc EXCEPT ![q] = "idle"]
        /\ full' = [full EXCEPT ![q] = FALSE] /\ wake' = [wake EXCEPT ![q] = FALSE]
        /\ origin' = [s \in Rows |-> IF origin[s] = q THEN NoPoller ELSE origin[s]]
    BY <1>11 DEF Crash
  <2>2. Was /\ p # q
    BY <1>0, <2>1 DEF tableVars, Pending
  <2> QED
    BY <1>1, <2>1, <2>2
<1>12. ASSUME UNCHANGED vars PROVE Roused(p)'
  <2>1. Was
    BY <1>12 DEF vars, tableVars, nudgeVars, Pending
  <2> QED
    BY <1>1, <1>12, <2>1 DEF vars, pollVars, nudgeVars
<1> QED
  BY <1>2, <1>3, <1>4, <1>5, <1>6, <1>7, <1>8, <1>9, <1>10, <1>11, <1>12
  DEF Next, RowStep, PollStep, Take, FaultStep

\* A request's nudge cannot fall between two drains: whatever the pollers of
\* the other instances take meanwhile, its row is claimed or its own poller is
\* going to claim (poller.go, Wake, Run and Drain).
THEOREM NudgesAreNotLost == Spec => []NudgeNotLost
<1>1. Init => NudgeInv
  BY OutboxAssumption DEF Init, NudgeInv, Unclaimed, NudgeNotLost, Has
<1>2. TypeOK /\ PollerShape /\ NudgeInv /\ [Next]_vars => NudgeInv'
  BY UnclaimedStep, NudgeStep DEF NudgeInv
<1>3. NudgeInv => NudgeNotLost
  BY DEF NudgeInv
<1> QED
  BY <1>1, <1>2, <1>3, TypeCorrect, PTL DEF Spec

-----------------------------------------------------------------------------
(* Leases *)

\* A poller that delivers a row no delivery of which outlasted a lease holds the
\* stamp, and the stamp is in the future: so it is the only one.
LeaseHeld ==
  \A p \in Pollers, r \in Rows :
    cur[p] = r /\ r \notin overran => holder[r] = p /\ wait[r] > 0

\* Of such a row, unless an outcome was lost: the one effect is processed, erased
\* or being recorded, and one that delivers it and is not recording had none yet.
\* Who merely has it in a batch does not matter, unlike in EffectShape.
LeaseEffect ==
  \A r \in Rows \ (overran \cup unrecorded) :
    /\ effects[r] <= 1
    /\ effects[r] = 1 => r \in processed \cup erased \/ \E p \in Pollers : Recording(p, r)
    /\ \A p \in Pollers : cur[p] = r /\ ~Recording(p, r) => effects[r] = 0

LeaseInv == Leased => LeaseHeld /\ LeaseEffect

LEMMA LeaseKept ==
  ASSUME LeaseHeld, LeaseEffect,
         UNCHANGED <<cur, result, effects, overran, unrecorded, wait, holder>>,
         processed \cup erased \subseteq processed' \cup erased'
  PROVE  LeaseHeld' /\ LeaseEffect'
BY DEF LeaseHeld, LeaseEffect, Recording

\* A poller leaves its row: what the others have is as it was, and the row's
\* success, if it had one, is processed or known as unrecorded.
LEMMA LeaseLeft ==
  ASSUME IInv, LeaseHeld, LeaseEffect, NEW p \in Pollers,
         pc[p] \in {"delivering", "recording"}, cur' = [cur EXCEPT ![p] = NoRow],
         result' = [result EXCEPT ![p] = "none"],
         \A r \in Rows \ (overran \cup {cur[p]}) : wait'[r] = wait[r] /\ holder'[r] = holder[r],
         overran' = overran, effects' = effects, erased' = erased,
         unrecorded \subseteq unrecorded', processed \subseteq processed',
         result[p] = "ok" => cur[p] \in processed' \cup unrecorded'
  PROVE  LeaseHeld' /\ LeaseEffect'
<1>1. \A q \in Pollers : /\ q # p => cur'[q] = cur[q] /\ result'[q] = result[q]
                         /\ cur'[p] = NoRow /\ result'[p] = "none"
  BY DEF IInv, TypeOK
<1>2. \A q \in Pollers : q # p /\ cur[q] = cur[p] => cur[p] \in overran
  BY DEF LeaseHeld, IInv, PollerShape
<1>3. LeaseHeld'
  <2> SUFFICES ASSUME NEW q \in Pollers, NEW r \in Rows, cur'[q] = r, r \notin overran
               PROVE  holder'[r] = q /\ wait'[r] > 0
    BY DEF LeaseHeld
  <2>1. q # p /\ cur[q] = r
    BY <1>1, OutboxAssumption
  <2>2. r # cur[p]
    BY <1>2, <2>1
  <2> QED
    BY <2>1, <2>2 DEF LeaseHeld
<1>4. LeaseEffect'
  <2> SUFFICES ASSUME NEW r \in Rows, r \notin overran \cup unrecorded'
               PROVE  /\ effects[r] <= 1
                      /\ effects[r] = 1 => \/ r \in processed' \cup erased
                                           \/ \E q \in Pollers : Recording(q, r)'
                      /\ \A q \in Pollers : cur'[q] = r /\ ~Recording(q, r)' => effects[r] = 0
    BY DEF LeaseEffect
  <2>1. \A q \in Pollers : q # p => (Recording(q, r)' <=> Recording(q, r))
    BY <1>1 DEF Recording
  <2>2. Recording(p, r) => r \in processed'
    BY DEF Recording
  <2>3. \A q \in Pollers : cur'[q] = r => q # p /\ cur[q] = r
    BY <1>1, OutboxAssumption
  <2> QED
    BY <2>1, <2>2, <2>3 DEF LeaseEffect
<1> QED
  BY <1>3, <1>4

LEMMA LeaseStep ==
  ASSUME IInv, Leased, LeaseHeld, LeaseEffect, [Next]_vars
  PROVE  LeaseHeld' /\ LeaseEffect'
<1>1. ASSUME NEW r \in Rows, RowStep(r) PROVE LeaseHeld' /\ LeaseEffect'
  <2>1. UNCHANGED <<cur, result, effects, overran, unrecorded, wait, holder>>
    BY <1>1 DEF RowStep, Wake, DeleteOld, DeleteUserRow, Erased, Enqueue, tableVars, pollVars,
      histVars
  <2>2. processed \cup erased \subseteq processed' \cup erased'
    BY <1>1 DEF RowStep, Wake, DeleteOld, DeleteUserRow, Erased, Enqueue, tableVars
  <2> QED
    BY <2>1, <2>2, LeaseKept
<1>2. ASSUME NEW p \in Pollers,
             \/ StartDrain(p) \/ ClaimError(p) \/ FinishBatch(p)
             \/ \E r \in Rows : SkipLost(p, r) \/ RenewError(p, r)
      PROVE  LeaseHeld' /\ LeaseEffect'
  <2>1. UNCHANGED <<cur, result, effects, overran, unrecorded, tableVars>>
    BY <1>2 DEF StartDrain, ClaimError, FinishBatch, SkipLost, RenewError, DropRow, histVars
  <2> QED
    BY <2>1, LeaseKept DEF tableVars
<1>3. ASSUME NEW p \in Pollers, ClaimBatch(p) PROVE LeaseHeld' /\ LeaseEffect'
  <2>1. PICK S \in SUBSET {r \in Rows : Claimable(r)} :
          /\ wait' = [r \in Rows |-> IF r \in S THEN Visibility ELSE wait[r]]
          /\ holder' = [r \in Rows |-> IF r \in S THEN p ELSE holder[r]]
    BY <1>3 DEF ClaimBatch
  <2>2. UNCHANGED <<cur, result, effects, overran, unrecorded, processed, erased>>
    BY <1>3 DEF ClaimBatch, histVars
  <2>3. \A q \in Pollers, r \in Rows : cur[q] = r /\ r \notin overran => r \notin S
    BY <2>1 DEF LeaseHeld, Claimable
  <2>4. LeaseHeld'
    BY <2>1, <2>2, <2>3 DEF LeaseHeld
  <2>5. LeaseEffect'
    BY <2>2 DEF LeaseEffect, Recording
  <2> QED
    BY <2>4, <2>5
<1>4. ASSUME NEW p \in Pollers, NEW r \in Rows, Deliver(p, r) PROVE LeaseHeld' /\ LeaseEffect'
  <2>1. /\ UNCHANGED <<result, effects, overran, unrecorded, processed, erased, holder>>
        /\ cur' = [cur EXCEPT ![p] = r] /\ wait' = [wait EXCEPT ![r] = Visibility]
        /\ pc[p] = "working" /\ holder[r] = p /\ Pending(r)
    BY <1>4 DEF Deliver, Held, histVars
  <2>2. /\ cur'[p] = r /\ cur[p] = NoRow
        /\ \A q \in Pollers : q # p => cur'[q] = cur[q]
        /\ wait'[r] = Visibility
        /\ \A s \in Rows : s # r => wait'[s] = wait[s]
    BY <2>1 DEF IInv, TypeOK, PollerShape
  <2>3. LeaseHeld'
    BY <2>1, <2>2, OutboxAssumption DEF LeaseHeld
  <2>4. \A q \in Pollers, s \in Rows : Recording(q, s)' <=> Recording(q, s)
    BY <2>1, <2>2, OutboxAssumption DEF Recording, IInv, PollerShape
  <2>5. ASSUME r \notin overran \cup unrecorded PROVE effects[r] = 0
    <3>1. \A q \in Pollers : cur[q] # r
      BY <2>1, <2>2, <2>5, OutboxAssumption DEF LeaseHeld
    <3>2. r \notin processed \cup erased
      BY <2>1 DEF Pending, IInv, TableShape
    <3>3. effects[r] <= 1 /\ effects[r] # 1 /\ effects[r] \in Nat
      BY <2>5, <3>1, <3>2 DEF LeaseEffect, Recording, IInv, TypeOK
    <3> QED
      BY <3>3
  <2>6. LeaseEffect'
    BY <2>1, <2>2, <2>4, <2>5 DEF LeaseEffect
  <2> QED
    BY <2>3, <2>6
<1>5. ASSUME NEW p \in Pollers, NEW out \in {"ok", "retry", "permanent"}, Process(p, out)
      PROVE  LeaseHeld' /\ LeaseEffect'
  <2>1. /\ UNCHANGED <<cur, overran, processed, erased, wait, holder>>
        /\ pc[p] = "delivering" /\ result' = [result EXCEPT ![p] = out]
    BY <1>5 DEF Process, tableVars
  <2>2. PICK hit \in BOOLEAN :
          /\ out = "ok" => hit
          /\ effects' = IF hit THEN [effects EXCEPT ![cur[p]] = @ + 1] ELSE effects
          /\ unrecorded' = IF hit /\ out # "ok" THEN unrecorded \cup {cur[p]} ELSE unrecorded
    BY <1>5 DEF Process
  <2>3. LeaseHeld'
    BY <2>1 DEF LeaseHeld
  <2>4. cur[p] \in Rows /\ result[p] = "none"
    BY <2>1 DEF IInv, PollerShape
  <2>5. /\ \A s \in Rows : s # cur[p] => effects'[s] = effects[s]
        /\ hit => effects'[cur[p]] = effects[cur[p]] + 1
        /\ ~hit => effects'[cur[p]] = effects[cur[p]]
    BY <2>2, <2>4 DEF IInv, TypeOK
  <2>6. /\ \A q \in Pollers : q # p => result'[q] = result[q]
        /\ result'[p] = out
    BY <2>1 DEF IInv, TypeOK
  <2> SUFFICES ASSUME NEW r \in Rows, r \notin overran \cup unrecorded'
               PROVE  /\ effects'[r] <= 1
                      /\ effects'[r] = 1 => \/ r \in processed \cup erased
                                            \/ \E q \in Pollers : Recording(q, r)'
                      /\ \A q \in Pollers : cur[q] = r /\ ~Recording(q, r)' => effects'[r] = 0
    BY <2>1, <2>3 DEF LeaseEffect
  <2>7. r \notin unrecorded
    BY <2>2
  <2>8. CASE r # cur[p]
    <3>1. \A q \in Pollers : Recording(q, r)' <=> Recording(q, r)
      BY <2>1, <2>6, <2>8 DEF Recording
    <3> QED
      BY <2>5, <2>7, <2>8, <3>1 DEF LeaseEffect
  <2>9. CASE r = cur[p]
    <3>1. effects[r] = 0
      BY <2>4, <2>7, <2>9 DEF LeaseEffect, Recording
    <3>2. \A q \in Pollers : cur[q] = r => q = p
      BY <2>9 DEF LeaseHeld
    <3>3. CASE hit
      <4>1. out = "ok"
        BY <2>2, <2>9, <3>3
      <4> QED
        BY <2>1, <2>5, <2>6, <2>9, <3>1, <3>2, <3>3, <4>1 DEF Recording
    <3>4. CASE ~hit
      BY <2>5, <2>9, <3>1, <3>4
    <3> QED
      BY <3>3, <3>4
  <2> QED
    BY <2>8, <2>9
<1>6. ASSUME NEW p \in Pollers, Record(p) \/ RecordError(p) PROVE LeaseHeld' /\ LeaseEffect'
  <2>1. /\ pc[p] = "recording" /\ cur' = [cur EXCEPT ![p] = NoRow]
        /\ result' = [result EXCEPT ![p] = "none"]
        /\ overran' = overran /\ effects' = effects /\ erased' = erased
    BY <1>6 DEF Record, RecordOk, RecordDead, RecordFailed, RecordError, NextRow
  <2>2. \A r \in Rows \ (overran \cup {cur[p]}) : wait'[r] = wait[r] /\ holder'[r] = holder[r]
    BY <1>6 DEF Record, RecordOk, RecordDead, RecordFailed, RecordError, IInv, TypeOK
  <2>3. /\ unrecorded \subseteq unrecorded' /\ processed \subseteq processed'
        /\ result[p] = "ok" => cur[p] \in processed' \cup unrecorded'
    BY <1>6 DEF Record, RecordOk, RecordDead, RecordFailed, RecordError
  <2> QED
    BY <2>1, <2>2, <2>3, LeaseLeft
<1>7. ASSUME Tick PROVE LeaseHeld' /\ LeaseEffect'
  <2>1. /\ UNCHANGED <<cur, result, effects, unrecorded, processed, erased, holder>>
        /\ wait' = [r \in Rows |-> IF wait[r] > 0 THEN wait[r] - 1 ELSE 0]
        /\ overran \subseteq overran'
        /\ \A r \in Rows : wait[r] = 1 /\ (\E p \in Pollers : cur[p] = r) => r \in overran'
    BY <1>7 DEF Tick, pollVars, Has
  <2>2. LeaseHeld'
    BY <2>1 DEF LeaseHeld, IInv, TypeOK
  <2>3. LeaseEffect'
    BY <2>1 DEF LeaseEffect, Recording
  <2> QED
    BY <2>2, <2>3
<1>8. ASSUME NEW p \in Pollers, Crash(p) PROVE LeaseHeld' /\ LeaseEffect'
  <2>1. /\ UNCHANGED <<tableVars, overran>>
        /\ cur' = [cur EXCEPT ![p] = NoRow] /\ result' = [result EXCEPT ![p] = "none"]
    BY <1>8 DEF Crash
  <2>2. PICK hit \in BOOLEAN :
          /\ hit => pc[p] = "delivering"
          /\ effects' = IF hit THEN [effects EXCEPT ![cur[p]] = @ + 1] ELSE effects
          /\ unrecorded' = IF hit \/ result[p] = "ok" THEN unrecorded \cup {cur[p]} ELSE unrecorded
    BY <1>8 DEF Crash
  <2>3. \A q \in Pollers : /\ q # p => cur'[q] = cur[q] /\ result'[q] = result[q]
                           /\ cur'[p] = NoRow /\ result'[p] = "none"
    BY <2>1 DEF IInv, TypeOK
  <2>4. LeaseHeld'
    BY <2>1, <2>3, OutboxAssumption DEF LeaseHeld, tableVars
  <2>5. \A r \in Rows : r \notin unrecorded' => effects'[r] = effects[r]
    BY <2>2 DEF IInv, TypeOK
  <2>6. \A r \in Rows : r \notin unrecorded' =>
          r \notin unrecorded /\ \A q \in Pollers : Recording(q, r)' <=> Recording(q, r)
    BY <2>2, <2>3 DEF Recording
  <2>7. \A q \in Pollers, r \in Rows : cur'[q] = r => cur[q] = r
    BY <2>3, OutboxAssumption
  <2>8. LeaseEffect'
    BY <2>1, <2>5, <2>6, <2>7 DEF LeaseEffect, tableVars
  <2> QED
    BY <2>4, <2>8
<1>9. ASSUME UNCHANGED vars PROVE LeaseHeld' /\ LeaseEffect'
  BY <1>9, LeaseKept DEF vars, tableVars, pollVars, histVars
<1> QED
  BY <1>1, <1>2, <1>3, <1>4, <1>5, <1>6, <1>7, <1>8, <1>9 DEF Next, PollStep, Take, FaultStep

\* With a Leaser, two instances deliver one row, or its effect repeats, only when
\* one delivery outlasted a lease renewed at its own start.
THEOREM LeasesKeepApart == Spec => []LeaseKeepsApart
<1>1. Init => LeaseInv
  BY OutboxAssumption DEF Init, LeaseInv, LeaseHeld, LeaseEffect
<1>2. IInv /\ LeaseInv /\ [Next]_vars => LeaseInv'
  BY LeaseStep DEF LeaseInv
<1>3. IInv /\ LeaseInv => LeaseKeepsApart
  BY DEF LeaseInv, LeaseHeld, LeaseEffect, LeaseKeepsApart, IInv, TypeOK
<1> QED
  BY <1>1, <1>2, <1>3, InductiveInvariant, PTL DEF Spec

-----------------------------------------------------------------------------
(* Refinement *)

LEMMA PromiseInit == Init => Promise!Init
BY DEF Init, Promise!Init, Status, Pending

\* Every step of the pollers and their table is a step of the promise: a row
\* is accepted, has its effect, is completed, abandoned or erased, or nothing
\* visible happens.
LEMMA PromiseStep ==
  ASSUME IInv, IInv', [Next]_vars
  PROVE  [Promise!Next]_(Promise!vars)
<1> DEFINE st == [r \in Rows |-> Status(r)]
           hp == {r \in Rows : effects[r] > 0}
<1> USE DEF Promise!Next, Promise!vars
<1>a. ASSUME UNCHANGED <<stored, erased, processed, dead, effects>>
      PROVE  UNCHANGED Promise!vars
  BY <1>a DEF Status, Pending
<1>b. ASSUME UNCHANGED <<stored, erased, processed, dead>>,
             NEW r \in Rows, r \in stored \cup erased,
             effects' \in {effects, [effects EXCEPT ![r] = @ + 1]}
      PROVE  [Promise!Next]_(Promise!vars)
  <2>1. UNCHANGED st
    BY <1>b DEF Status, Pending
  <2>2. st[r] # "none"
    BY <1>b DEF IInv, TableShape, Status, Pending
  <2>3. hp' \in {hp, hp \cup {r}}
    BY <1>b DEF IInv, TypeOK
  <2> QED
    BY <2>1, <2>2, <2>3 DEF Promise!Happen
<1>c. ASSUME NEW r \in Rows, NEW from, st[r] \in from, effects' = effects,
             NEW to, st' = [st EXCEPT ![r] = to]
      PROVE  Promise!Move(r, from, to)
  <2>1. hp' = hp
    BY <1>c
  <2> QED
    BY <1>c, <2>1 DEF Promise!Move
<1>1. ASSUME NEW r \in Rows, Wake(r) PROVE UNCHANGED Promise!vars
  BY <1>1, <1>a DEF Wake, tableVars, histVars
<1>2. ASSUME NEW r \in Rows, DeleteOld(r) \/ DeleteUserRow(r) PROVE Promise!Erase(r)
  <2>1. r \in stored /\ Erased(r)
    BY <1>2 DEF DeleteOld, DeleteUserRow, IInv, TableShape
  <2>2. st[r] \in {"pending", "done", "abandoned"}
    BY <2>1 DEF IInv, TableShape, Status, Pending
  <2>3. st' = [st EXCEPT ![r] = "erased"]
    <3>1. Status(r)' = "erased"
      BY <2>1 DEF Erased, Status, Pending
    <3>2. ASSUME NEW s \in Rows, s # r PROVE Status(s)' = Status(s)
      <4>1. /\ s \in erased' <=> s \in erased
            /\ s \in processed' <=> s \in processed
            /\ s \in dead' <=> s \in dead
            /\ s \in stored' <=> s \in stored
        BY <2>1, <3>2 DEF Erased
      <4> QED BY <4>1 DEF Status, Pending
    <3> QED BY <3>1, <3>2
  <2>4. effects' = effects
    BY <2>1 DEF Erased, histVars
  <2> QED
    BY <2>2, <2>3, <2>4, <1>c DEF Promise!Erase
<1>3. ASSUME NEW r \in Rows, NEW p \in Pollers, Enqueue(p, r) PROVE Promise!Store(r)
  <2>1. st[r] = "none"
    BY <1>3 DEF Enqueue, IInv, TableShape, Status, Pending
  <2>2. st' = [st EXCEPT ![r] = "pending"]
    BY <1>3 DEF Enqueue, IInv, TableShape, Status, Pending
  <2>3. effects' = effects
    BY <1>3 DEF Enqueue, histVars
  <2> QED
    BY <2>1, <2>2, <2>3, <1>c DEF Promise!Store
<1>4. ASSUME NEW p \in Pollers,
             \/ StartDrain(p) \/ ClaimBatch(p) \/ Take(p) \/ FinishBatch(p)
             \/ ClaimError(p) \/ \E r \in Rows : RenewError(p, r)
      PROVE  UNCHANGED Promise!vars
  BY <1>4, <1>a
  DEF StartDrain, ClaimBatch, Take, Deliver, SkipLost, DropRow, FinishBatch, ClaimError,
      RenewError, tableVars, histVars
<1>5. ASSUME NEW p \in Pollers, NEW out \in {"ok", "retry", "permanent"}, Process(p, out)
      PROVE  [Promise!Next]_(Promise!vars)
  <2>1. cur[p] \in Rows /\ cur[p] \in stored \cup erased
    BY <1>5 DEF Process, IInv, PollerShape, TableShape, Has
  <2>2. effects' \in {effects, [effects EXCEPT ![cur[p]] = @ + 1]}
    BY <1>5 DEF Process
  <2>3. UNCHANGED <<stored, erased, processed, dead>>
    BY <1>5 DEF Process, tableVars
  <2> QED
    BY <2>1, <2>2, <2>3, <1>b
<1>6. ASSUME NEW p \in Pollers, RecordOk(p) PROVE [Promise!Next]_(Promise!vars)
  <2>1. UNCHANGED <<stored, erased, dead, effects>>
    BY <1>6 DEF RecordOk, NextRow
  <2>2. cur[p] \in Rows /\ effects[cur[p]] > 0
    BY <1>6 DEF RecordOk, NextRow, Succeeded, IInv, PollerShape, Delivered
  <2>3. CASE Marks(p) /\ cur[p] \notin processed
    <3>1. st[cur[p]] \in {"pending", "abandoned"}
      BY <2>2, <2>3 DEF Marks, IInv, TableShape, Status, Pending
    <3>2. processed' = processed \cup {cur[p]}
      BY <1>6, <2>3 DEF RecordOk
    <3>3. st' = [st EXCEPT ![cur[p]] = "done"]
      BY <2>1, <2>2, <2>3, <3>2 DEF Marks, IInv, TableShape, Status, Pending
    <3> QED
      BY <2>1, <2>2, <3>1, <3>3, <1>c DEF Promise!Complete
  <2>4. CASE ~(Marks(p) /\ cur[p] \notin processed)
    <3>1. processed' = processed
      BY <1>6, <2>4 DEF RecordOk
    <3> QED BY <2>1, <3>1, <1>a
  <2> QED BY <2>3, <2>4
<1>7. ASSUME NEW p \in Pollers, RecordDead(p) PROVE [Promise!Next]_(Promise!vars)
  <2>1. UNCHANGED <<stored, erased, processed, effects>>
    BY <1>7 DEF RecordDead, NextRow
  <2>2. cur[p] \in Rows
    BY <1>7 DEF RecordDead, NextRow, IInv, PollerShape
  <2>3. CASE cur[p] \in stored \ (processed \cup dead)
    <3>1. st[cur[p]] = "pending"
      BY <2>2, <2>3 DEF IInv, TableShape, Status, Pending
    <3>2. dead' = dead \cup {cur[p]}
      BY <1>7, <2>3 DEF RecordDead
    <3>3. st' = [st EXCEPT ![cur[p]] = "abandoned"]
      BY <2>1, <2>2, <2>3, <3>2 DEF IInv, TableShape, Status, Pending
    <3> QED
      BY <2>1, <2>2, <3>1, <3>3, <1>c DEF Promise!Abandon
  <2>4. CASE cur[p] \notin stored \ (processed \cup dead)
    <3>1. dead' \in {dead, dead \cup {cur[p]}} /\ (cur[p] \in processed \/ dead' = dead)
      BY <1>7, <2>4 DEF RecordDead
    <3>2. st' = st
      BY <2>1, <2>2, <3>1 DEF Status, Pending
    <3> QED BY <2>1, <3>2
  <2> QED BY <2>3, <2>4
<1>8. ASSUME NEW p \in Pollers, RecordFailed(p) \/ RecordError(p)
      PROVE  UNCHANGED Promise!vars
  BY <1>8, <1>a DEF RecordFailed, RecordError, NextRow
<1>9. ASSUME Tick PROVE UNCHANGED Promise!vars
  BY <1>9, <1>a DEF Tick
<1>10. ASSUME NEW p \in Pollers, Crash(p) PROVE [Promise!Next]_(Promise!vars)
  <2>1. UNCHANGED <<stored, erased, processed, dead>>
    BY <1>10 DEF Crash, tableVars
  <2>2. CASE effects' = effects
    BY <2>1, <2>2, <1>a
  <2>3. CASE effects' # effects
    <3>1. pc[p] = "delivering" /\ effects' = [effects EXCEPT ![cur[p]] = @ + 1]
      BY <1>10, <2>3 DEF Crash
    <3>2. cur[p] \in Rows /\ cur[p] \in stored \cup erased
      BY <3>1 DEF IInv, PollerShape, TableShape, Has
    <3> QED BY <2>1, <3>1, <3>2, <1>b
  <2> QED BY <2>2, <2>3
<1>11. ASSUME UNCHANGED vars PROVE UNCHANGED Promise!vars
  BY <1>11, <1>a DEF vars, tableVars, histVars
<1> QED
  BY <1>1, <1>2, <1>3, <1>4, <1>5, <1>6, <1>7, <1>8, <1>9, <1>10, <1>11
  DEF Next, RowStep, PollStep, Record, FaultStep

\* The detailed outbox implements the at-least-once promise.
THEOREM OutboxKeepsPromise == Spec => KeepsPromise
<1>1. Init => Promise!Init
  BY PromiseInit
<1>2. IInv /\ IInv' /\ [Next]_vars => [Promise!Next]_(Promise!vars)
  BY PromiseStep
<1> QED
  BY <1>1, <1>2, InductiveInvariant, PTL DEF Spec, KeepsPromise, Promise!Spec
=============================================================================
