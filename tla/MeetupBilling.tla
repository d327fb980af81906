--------------------------- MODULE MeetupBilling ---------------------------
(***************************************************************************)
(* What a meetup costs its host: the create call that reserves before it   *)
(* inserts (modules/meetup), the billing events that reach the billing     *)
(* module through an outbox (cmd/monolith), and the wallet they charge.    *)
(*                                                                         *)
(* Two modules share no transaction.  The outbox (see Outbox) delivers     *)
(* every event at least once and in any order, and between two steps of a  *)
(* call anything may happen: a retry with the same key, the sweep that     *)
(* frees a hold, a crash.                                                  *)
(***************************************************************************)
EXTENDS Wallet

CONSTANTS
  Calls,       \* create requests of one host
  Keyed,       \* those that carry an Idempotency-Key
  KeyOf,       \* the reservation key of each call
  Price,       \* what each call was quoted in credits
  MaxRefunds,  \* refunds in thirty days; the horizon is shorter
  MaxFaults    \* bound on the rare: crashes, lost answers, repeated
               \* deliveries, an operator's removal, a store's refund, a closure

ASSUME BillingAssumption ==
  /\ Keyed \subseteq Calls
  /\ Price \in [Calls -> Nat \ {0}]
  /\ MaxRefunds \in Nat /\ MaxFaults \in Nat
  /\ \A c \in Calls \ Keyed, d \in Calls : KeyOf[c] = KeyOf[d] => c = d
  /\ \A c \in Calls : KeyOf[c] # "superseded"

VARIABLES pc, kind, reserved, meetup, pending, refundLog, faults

calls == <<pc, kind, reserved>>
vars  == <<now, wallet, pc, kind, reserved, meetup, pending, refundLog, faults>>

Unmade == [state |-> "none", hold |-> 0]
Amount(c) == IF kind[c] = "plan_quota" THEN 1 ELSE Price[c]
Go(c, to) == pc' = [pc EXCEPT ![c] = to]
Fault == faults < MaxFaults /\ faults' = faults + 1

-----------------------------------------------------------------------------
(* CreateMeetup.  A meetup goes by the call that made it. *)

FoundOpen(c) == c \in Keyed /\ \E m \in Calls : meetup[m].state = "open" /\ KeyOf[m] = KeyOf[c]

\* A meetup was made under this call's key (GetMeetupByCreationKey).
Found(c) == c \in Keyed /\ \E m \in Calls : meetup[m].state # "none" /\ KeyOf[m] = KeyOf[c]

\* The original meetup answers a retry before anything is priced or held.
Replay(c) ==
  /\ pc[c] = "idle" /\ Found(c)
  /\ Go(c, "done")
  /\ UNCHANGED <<now, wallet, kind, reserved, meetup, pending, refundLog, faults>>

\* The plan covers it while a unit is left.  The host's limits, or a price
\* the app did not show, end the call here.
Quote(c) ==
  /\ pc[c] = "idle" /\ ~Found(c)
  /\ wallet' = Due(wallet)
  /\ kind' = [kind EXCEPT ![c] = IF wallet.quotaUsed + wallet.quotaHeld < Included
                                 THEN "plan_quota" ELSE "credits"]
  /\ (Go(c, "reserve") \/ Go(c, "done"))
  /\ UNCHANGED <<now, reserved, meetup, pending, refundLog, faults>>

Reserve(c) ==
  LET due      == Due(wallet)
      reusable == Reusable(due, KeyOf[c], kind[c], Amount(c))
      conflict == Conflicting(due, KeyOf[c], kind[c], Amount(c))
      Reuse  == \E h \in reusable : wallet' = due /\ reserved' = [reserved EXCEPT ![c] = h]
      Hold   == /\ reusable = {} /\ conflict = {} /\ Affordable(due, kind[c], Amount(c))
                /\ wallet' = PutHold(due, NewHold(KeyOf[c], kind[c], Amount(c)))
                /\ reserved' = [reserved EXCEPT ![c] = Len(due.holds) + 1]
      Refuse == /\ reusable = {}
                /\ conflict = {} => ~Affordable(due, kind[c], Amount(c))
                /\ UNCHANGED <<wallet, reserved>>
  IN /\ pc[c] = "reserve"
     /\ \/ (Reuse \/ Hold) /\ Go(c, "create")
        \/ Refuse /\ Go(c, "done")
     /\ UNCHANGED <<now, kind, meetup, pending, refundLog, faults>>

\* Under the host's schedule lock: a retry that got there first answers.
CreateExists(c) ==
  /\ pc[c] = "create" /\ Found(c)
  /\ Go(c, "done")
  /\ UNCHANGED <<now, wallet, kind, reserved, meetup, pending, refundLog, faults>>

\* The meetup and its billing event commit together; the answer to the
\* commit may be lost, and the call then takes it for a failure.
Create(c) ==
  /\ pc[c] = "create" /\ ~Found(c)
  /\ meetup' = [meetup EXCEPT ![c] = [state |-> "open", hold |-> reserved[c]]]
  /\ pending' = pending \cup {[meetup |-> c, topic |-> "created", percent |-> 0]}
  /\ \/ Go(c, "done") /\ UNCHANGED faults
     \/ Go(c, "failed") /\ Fault
  /\ UNCHANGED <<now, wallet, kind, reserved, refundLog>>

\* The schedule guard or the database refused.
CreateFails(c) ==
  /\ pc[c] = "create"
  /\ Go(c, "failed")
  /\ UNCHANGED <<now, wallet, kind, reserved, meetup, pending, refundLog, faults>>

\* releaseAfterFailedCreate: a meetup made under the key keeps the hold.  A
\* lookup that fails is taken for none found.
CheckFailed(c) ==
  /\ pc[c] = "failed"
  /\ \/ Go(c, IF Found(c) THEN "done" ELSE "release") /\ UNCHANGED faults
     \/ Found(c) /\ Go(c, "release") /\ Fault
  /\ UNCHANGED <<now, wallet, kind, reserved, meetup, pending, refundLog>>

ReleaseHold(c) ==
  /\ pc[c] = "release"
  /\ wallet' = Release(Due(wallet), reserved[c], "released")
  /\ Go(c, "done")
  /\ UNCHANGED <<now, kind, reserved, meetup, pending, refundLog, faults>>

\* The process, the connection or the request ends here.
Abandon(c) ==
  /\ pc[c] \notin {"idle", "done"}
  /\ Go(c, "done") /\ Fault
  /\ UNCHANGED <<now, wallet, kind, reserved, meetup, pending, refundLog>>

-----------------------------------------------------------------------------
(* The meetup's end, and what billing makes of it. *)

\* refundPercent: favourable is a cancellation a day ahead, or a close with
\* nobody accepted.
RefundPercent(topic, favourable) ==
  CASE topic = "cancelled" /\ favourable -> 100
    [] topic = "closed" /\ favourable -> 50
    [] OTHER -> 0

End(m) ==
  /\ meetup[m].state = "open"
  /\ \E topic \in {"cancelled", "closed"}, favourable \in BOOLEAN :
       /\ meetup' = [meetup EXCEPT ![m].state = topic]
       /\ pending' = pending \cup {[meetup |-> m, topic |-> topic,
                                    percent |-> RefundPercent(topic, favourable)]}
  /\ UNCHANGED <<now, wallet, pc, kind, reserved, refundLog, faults>>

LoggedRelease(h) == \E r \in refundLog : r.hold = h /\ r.outcome = "released"

Logged(h) == \E r \in refundLog : r.hold = h

CaptureCreated(h) == wallet' = Capture(Due(wallet), h) /\ UNCHANGED refundLog

\* HandleMeetupEnded on a hold that has no entry in the refund log.
SettleEnded(h, percent) ==
  LET due      == Due(wallet)
      refunds  == {r \in refundLog : r.outcome \in {"refunded", "released"}}
      capped   == percent > 0 /\ Cardinality(refunds) >= MaxRefunds
      letGo    == due.holds[h].state # "captured" /\ percent = 100 /\ ~capped
      charged  == Capture(due, h)
      outcome  == CASE letGo -> "released"
                    [] percent = 0 -> "no_refund"
                    [] capped -> "skipped_cap"
                    [] OTHER -> "refunded"
  IN /\ wallet' = CASE outcome = "released" -> Release(due, h, "refunded_before_capture")
                    [] outcome = "refunded" -> Refund(charged, h, percent)
                    [] OTHER -> charged
     /\ refundLog' = refundLog \cup {[hold |-> h, outcome |-> outcome, percent |-> percent]}

\* An event is handled; it stays in the outbox if recording that fails.
Deliver(e) ==
  LET h == meetup[e.meetup].hold
  IN /\ \/ e.topic = "created" /\ CaptureCreated(h)
        \/ e.topic # "created" /\ ~Logged(h) /\ SettleEnded(h, e.percent)
        \/ e.topic # "created" /\ Logged(h) /\ wallet' = Due(wallet) /\ UNCHANGED refundLog
     /\ \/ pending' = pending \ {e} /\ UNCHANGED faults
        \/ UNCHANGED pending /\ Fault
     /\ UNCHANGED <<now, pc, kind, reserved, meetup>>

-----------------------------------------------------------------------------
Init ==
  /\ WalletInit
  /\ pc = [c \in Calls |-> "idle"]
  /\ kind = [c \in Calls |-> "credits"]
  /\ reserved = [c \in Calls |-> 0]
  /\ meetup = [c \in Calls |-> Unmade]
  /\ pending = {} /\ refundLog = {} /\ faults = 0

Call(c) ==
  \/ Replay(c) \/ Quote(c) \/ Reserve(c) \/ CreateExists(c) \/ Create(c) \/ CreateFails(c)
  \/ CheckFailed(c) \/ ReleaseHold(c) \/ Abandon(c)

Books ==
  /\ \/ /\ \/ Grant \/ SweepDecayAndExpiry \/ Tick
           \/ \E h \in DOMAIN wallet.holds : SweepExpiredHold(h)
        /\ UNCHANGED faults
     \/ (RemoveCredits \/ StoreRefund \/ CloseWallet) /\ Fault
  /\ UNCHANGED <<pc, kind, reserved, meetup, pending, refundLog>>

Next ==
  \/ \E c \in Calls : Call(c) \/ End(c)
  \/ \E e \in pending : Deliver(e)
  \/ Books

Spec == Init /\ [][Next]_vars

\* Time passes, the sweep ticks, and the outbox delivers in the end what it
\* holds; nobody has to finish a call.
Fairness ==
  /\ WF_vars(Tick /\ UNCHANGED <<pc, kind, reserved, meetup, pending, refundLog, faults>>)
  /\ WF_vars(/\ \E h \in DOMAIN wallet.holds : SweepExpiredHold(h)
             /\ UNCHANGED <<pc, kind, reserved, meetup, pending, refundLog, faults>>)
  /\ WF_pending(\E e \in pending : pending' = pending \ {e})

FairSpec == Spec /\ Fairness
-----------------------------------------------------------------------------
(* Properties. *)

TypeOK ==
  /\ now \in 0 .. Horizon
  /\ wallet.balance \in Nat /\ wallet.held \in Nat /\ wallet.debt \in Nat
  /\ wallet.quotaUsed \in Nat /\ wallet.quotaHeld \in Nat /\ wallet.closed \in BOOLEAN
  /\ pc \in [Calls -> {"idle", "reserve", "create", "failed", "release", "done"}]
  /\ kind \in [Calls -> {"credits", "plan_quota"}]
  /\ reserved \in [Calls -> 0 .. Len(wallet.holds)]
  /\ \A m \in Calls : /\ meetup[m].state \in {"none", "open", "cancelled", "closed"}
                      /\ meetup[m].state # "none" => meetup[m].hold \in DOMAIN wallet.holds
  /\ faults \in 0 .. MaxFaults

Net(hold) == Total([l \in LotIds |-> hold.taken[l] - hold.back[l]])
Paid(hold) ==
  \/ hold.state = "captured"
  \/ hold.state = "released" /\ hold.reason = "refunded_before_capture"

\* The daily reconciliation finds nothing: the wallet's balance is what its
\* lots have left, its held figure what its open holds promise, whatever
\* order grants, decay, captures, refunds and revocations come in.
BooksAgree == wallet.balance = Credits(wallet) /\ wallet.held = HeldCredits(wallet)

\* Credits are never made by a refund: what a lot has left and what captures
\* still have of it fit what was granted, and decay caps what came back.
NothingMinted ==
  \A l \in DOMAIN wallet.lots :
    LET lot == wallet.lots[l]
        out == Total([h \in DOMAIN wallet.holds |->
                        wallet.holds[h].taken[l] - wallet.holds[h].back[l]])
    IN /\ lot.remaining >= 0 /\ lot.remaining + out <= lot.initial
       /\ lot.remaining = Capped(lot, lot.periods)

\* After every transaction the wallet's figures agree with its lots and its
\* holds, and no debt is written off that was never owed.
Reconciled == BooksAgree /\ NothingMinted /\ wallet.debt \in Nat

\* A hold pays for one meetup, and a meetup's key for one meetup: retries,
\* crashes and lost answers never charge one creation twice.
ChargedOnce ==
  \A m, n \in {c \in Calls : meetup[c].state # "none"} :
    /\ meetup[m].hold = meetup[n].hold => m = n
    /\ KeyOf[m] = KeyOf[n] => m = n

\* Once its created event is gone from the outbox a meetup is paid for, even
\* if its hold ran out or was released under it: no meetup is free because
\* of a race.
NoFreeMeetup ==
  \A m \in Calls :
    /\ meetup[m].state # "none"
    /\ ~\E e \in pending : e.meetup = m /\ e.topic = "created"
    => Paid(wallet.holds[meetup[m].hold])

\* A meetup is charged, and charged once.
PaidOnce == ChargedOnce /\ NoFreeMeetup

SameCharge(hold, c) == hold.kind = kind[c] /\ hold.amount = Amount(c)

\* A meetup is paid for with a hold of the kind and amount its own request
\* was quoted: a used key never carries another meetup at an earlier price.
PaysItsPrice ==
  \A m \in {c \in Calls : meetup[c].state # "none"} :
    SameCharge(wallet.holds[meetup[m].hold], m)

\* A partial refund is given once, however often its event is delivered:
\* what a hold keeps is what the policy leaves it.
RefundedOnce ==
  \A r \in refundLog :
    LET hold == wallet.holds[r.hold]
    IN r.outcome = "refunded" /\ hold.kind = "credits" =>
         Net(hold) = Total(hold.taken) - (Total(hold.taken) * r.percent) \div 100

\* What is reserved is there to be spent: holds outgrow the balance, and a
\* charge becomes debt, only after decay, an expiry, a purchase the store took
\* back, or the charge of a hold that had been let go.
Eroded ==
  \/ \E l \in DOMAIN wallet.lots : wallet.lots[l].periods > 0 \/ Lapsed(wallet.lots[l])
  \/ \E h \in DOMAIN wallet.holds : wallet.holds[h].late
HoldsAreCovered == (wallet.held > wallet.balance \/ wallet.debt > 0) => Eroded

\* The plan covers no more meetups than it includes, unless the charge of a
\* hold that had been let go went past it.
QuotaIsKept ==
  wallet.quotaUsed + wallet.quotaHeld > Included =>
    \E h \in DOMAIN wallet.holds : wallet.holds[h].late /\ wallet.holds[h].kind = "plan_quota"

\* Nothing undoes a charge but a refund, and a hold let go for a full refund
\* is never charged, in whatever order the events arrive.
ChargesStay ==
  [][\A h \in DOMAIN wallet.holds :
       Paid(wallet.holds[h]) =>
         /\ wallet'.holds[h].state = wallet.holds[h].state
         /\ wallet'.holds[h].taken = wallet.holds[h].taken]_vars

Running(h) == /\ h \in DOMAIN wallet.holds
              /\ wallet.holds[h].state = "held" /\ wallet.holds[h].expires <= Horizon
Over(h) == h \in DOMAIN wallet.holds /\ wallet.holds[h].state # "held"
PaidFor(m) == meetup[m].state # "none" /\ Paid(wallet.holds[meetup[m].hold])

\* A hold comes to an end: charged, or let go by its call, by a full refund,
\* or by the sweep when the call never came back.
EveryHoldEnds ==
  \A h \in 1 .. Cardinality(Calls) : Running(h) ~> Over(h)

\* Every meetup is paid for, or settled free by a full refund, in the end.
EveryMeetupIsPaid ==
  \A m \in Calls : meetup[m].state # "none" ~> PaidFor(m)

\* What its hold and the refund log make of the fee for the meetup of call c.
Status(hold) == IF hold.state = "captured" THEN "charged"
                ELSE IF Settled(hold) THEN "waived" ELSE "due"
FeeOf(hold, settled) ==
  [state |-> Status(hold), kind |-> hold.kind, price |-> hold.amount,
   taken |-> Total(hold.taken), owed |-> hold.owed, back |-> Total(hold.back),
   forgiven |-> hold.forgiven, settled |-> settled]
NoFee == [state |-> "none", kind |-> "credits", price |-> 0, taken |-> 0, owed |-> 0,
          back |-> 0, forgiven |-> 0, settled |-> FALSE]
feeOf == [c \in Calls |->
            IF meetup[c].state = "none" THEN NoFee
            ELSE FeeOf(wallet.holds[meetup[c].hold], Logged(meetup[c].hold))]
Bill == INSTANCE Fees WITH fee <- feeOf

\* Whatever calls, sweeps, deliveries and the wallet's own transactions do in
\* between, each meetup costs what Fees says: its price once and in full, and
\* one settlement when it ends.
CostsItsFee == Bill!Spec

-----------------------------------------------------------------------------
(* What comments of the code say and the code does not keep *)

\* A cancellation a full day ahead that let the hold go costs nothing
\* ("never charged, and nothing would be kept").
LetGoIsFree ==
  \A r \in refundLog : r.outcome = "released" => wallet.holds[r.hold].state # "captured"

\* A meetup that was refunded in full costs its host nothing: all it took is
\* back, and the debt its own capture recorded is written off.
FullRefundIsFree ==
  \A r \in refundLog :
    r.outcome = "refunded" /\ r.percent = 100 /\ wallet.holds[r.hold].kind = "credits" =>
      Net(wallet.holds[r.hold]) = 0 /\ wallet.holds[r.hold].forgiven = wallet.holds[r.hold].owed
=============================================================================
