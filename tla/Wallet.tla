------------------------------- MODULE Wallet -------------------------------
(***************************************************************************)
(* The books of one user's credits: lots that decay and expire, holds,     *)
(* debt and plan quota (modules/billing/wallet).                           *)
(*                                                                         *)
(* Every write happens in Ledger.Do: one transaction that locks the        *)
(* wallet's row, loads it into a Tx, materialises what is due, runs the    *)
(* operation and writes the figures back.  The row lock serialises them,   *)
(* so a transaction is one step here; the operations are operators from    *)
(* the loaded wallet v to the one written back, which lets a transaction   *)
(* run several of them in turn as the code does.  A transaction that fails *)
(* rolls back and is no step.                                              *)
(***************************************************************************)
EXTENDS FiniteSetsExt, Sequences

CONSTANTS
  Offers,    \* the lots that may be granted
  Amounts,   \* what an operator may remove
  Included,  \* meetups the user's plan covers; 0 is no plan
  TTL,       \* how long a hold is kept
  MaxLots,   \* bound on the lots granted
  Horizon    \* bound on time

ASSUME WalletAssumption ==
  /\ Included \in Nat /\ TTL \in Nat \ {0} /\ MaxLots \in Nat /\ Horizon \in Nat
  /\ Amounts \subseteq Nat \ {0}
  /\ \A o \in Offers : /\ o.kind \in {"welcome", "purchase", "admin"}
                       /\ o.amount \in Nat \ {0} /\ o.life \in 0 .. Horizon
                       /\ o.percent \in 0 .. 100 /\ o.every \in Nat \ {0}
                       /\ o.kind = "purchase" => o.life = 0 /\ o.percent = 0

VARIABLES now, wallet

Never == 2 * Horizon + 1     \* an expires_at that is NULL sorts last
LotIds == 1 .. MaxLots       \* in the order of granted_at

Total(f) == MapThenSumSet(LAMBDA l : f[l], DOMAIN f)
Credits(v) == Total([l \in DOMAIN v.lots |-> v.lots[l].remaining])
Open(v) == {h \in DOMAIN v.holds : v.holds[h].state = "held" /\ v.holds[h].kind = "credits"}
HeldCredits(v) == Total([h \in Open(v) |-> v.holds[h].amount])

BalanceOnly(v) == v.balance

Available(v) == Max({v.balance - v.held, 0})

-----------------------------------------------------------------------------
(* Decay and expiry. *)

MaxPeriods(percent) == (100 + percent - 1) \div percent

AllowedAfter(initial, percent, k) == Max({0, initial - (initial * percent * k) \div 100})

Capped(lot, k) ==
  IF lot.percent = 0 THEN lot.remaining
  ELSE Min({lot.remaining, AllowedAfter(lot.initial, lot.percent, k)})

Lapsed(lot) == lot.expires <= now

\* Periods of decay come due up to this instant.
PeriodsDue(lot) ==
  IF lot.percent = 0 THEN 0
  ELSE Min({(now - lot.granted) \div lot.every, MaxPeriods(lot.percent)})

\* Takes cut[l] out of every lot l, with its ledger entry.
Draw(v, cut) ==
  [v EXCEPT !.balance = @ - Total(cut),
            !.lots = [l \in DOMAIN v.lots |->
                          [v.lots[l] EXCEPT !.remaining = @ - cut[l]]]]

\* applyDue: a lot whose next period has come is cut to what decay allows,
\* a lot past its end to nothing.
Due(v) ==
  LET Left(lot) == IF Lapsed(lot) THEN 0
                   ELSE IF PeriodsDue(lot) > lot.periods THEN Capped(lot, PeriodsDue(lot))
                   ELSE lot.remaining
      cut == [l \in DOMAIN v.lots |-> v.lots[l].remaining - Left(v.lots[l])]
      left == Draw(v, cut).lots
  IN [Draw(v, cut) EXCEPT !.lots = [l \in DOMAIN left |->
                                      [left[l] EXCEPT !.periods = PeriodsDue(left[l])]]]

\* reapplyLots: the same rules for lots that credits just went back to.
Trim(v, ids) ==
  LET Left(lot) == IF Lapsed(lot) THEN 0 ELSE Capped(lot, lot.periods)
  IN Draw(v, [l \in DOMAIN v.lots |->
                IF l \in ids THEN v.lots[l].remaining - Left(v.lots[l]) ELSE 0])

-----------------------------------------------------------------------------
(* Spending and granting. *)

Spendable(v) == {l \in DOMAIN v.lots : v.lots[l].remaining > 0 /\ ~Lapsed(v.lots[l])}

\* The spend order: earliest expiry first, then the older lot.
Sooner(v, a, b) ==
  \/ v.lots[a].expires < v.lots[b].expires
  \/ v.lots[a].expires = v.lots[b].expires /\ a < b

\* What one in a row can give towards amount once those before it gave.
Share(has, before, amount) == Min({has, Max({0, amount - before})})

\* spendFrom: what each lot gives towards amount.
Spend(v, amount) ==
  LET Before(l) == Total([k \in {j \in Spendable(v) : Sooner(v, j, l)} |-> v.lots[k].remaining])
  IN [l \in LotIds |-> IF l \in Spendable(v)
                       THEN Share(v.lots[l].remaining, Before(l), amount) ELSE 0]

SettleDebt(v) ==
  LET paid == Spend(v, v.debt)
  IN [Draw(v, paid) EXCEPT !.debt = @ - Total(paid)]

NewLot(o) ==
  [kind |-> o.kind, initial |-> o.amount, remaining |-> o.amount, granted |-> now,
   expires |-> IF o.life = 0 THEN Never ELSE now + o.life,
   percent |-> o.percent, every |-> o.every, periods |-> 0, revoked |-> FALSE]

GrantLot(v, o) ==
  SettleDebt([v EXCEPT !.balance = @ + o.amount, !.lots = Append(@, NewLot(o))])

\* The store took a purchase back: what is left goes, what was spent is owed,
\* and the lot ends so that a later refund does not revive it.
RevokeLot(v, l) ==
  LET lot == v.lots[l]
  IN [v EXCEPT !.balance = @ - lot.remaining,
               !.debt = @ + lot.initial - lot.remaining,
               !.lots[l] = [lot EXCEPT !.remaining = 0, !.expires = now, !.revoked = TRUE]]

-----------------------------------------------------------------------------
(* Holds. *)

AdjustQuota(v, used, held) ==
  [v EXCEPT !.quotaUsed = Max({@ + used, 0}), !.quotaHeld = Max({@ + held, 0})]

NewHold(key, kind, amount) ==
  [key |-> key, kind |-> kind, amount |-> amount, expires |-> now + TTL,
   state |-> "held", reason |-> "none", late |-> FALSE,
   taken |-> [l \in LotIds |-> 0], back |-> [l \in LotIds |-> 0],
   owed |-> 0, forgiven |-> 0]

AnyReleased(hold) == hold.state = "released"

Settled(hold) == hold.state = "released" /\ hold.reason = "refunded_before_capture"

\* What a hold under the same key means (reuseHold): the same hold while it
\* is held or captured, nothing once it was let go, a conflict otherwise.
AnyRequest(hold, kind, amount) == TRUE

SameRequest(hold, kind, amount) == hold.kind = kind /\ hold.amount = amount
Reusable(v, key, kind, amount) ==
  {h \in DOMAIN v.holds : /\ v.holds[h].key = key /\ v.holds[h].state # "released"
                          /\ SameRequest(v.holds[h], kind, amount)}
Conflicting(v, key, kind, amount) ==
  {h \in DOMAIN v.holds : /\ v.holds[h].key = key
                          /\ SameRequest(v.holds[h], kind, amount) => Settled(v.holds[h])}

QuotaUnused(v) == v.quotaUsed < Included

QuotaLeft(v) == v.quotaUsed + v.quotaHeld < Included

Affordable(v, kind, amount) ==
  /\ ~v.closed /\ v.debt = 0
  /\ kind = "credits" => Available(v) >= amount
  /\ kind = "plan_quota" => QuotaLeft(v)

\* The key moves from a released hold to the new one (SupersedeHoldKey).
PutHold(v, hold) ==
  LET moved == [h \in DOMAIN v.holds |->
                  IF v.holds[h].key = hold.key THEN [v.holds[h] EXCEPT !.key = "superseded"]
                  ELSE v.holds[h]]
      kept  == [v EXCEPT !.holds = Append(moved, hold)]
  IN IF hold.kind = "credits" THEN [kept EXCEPT !.held = @ + hold.amount]
     ELSE AdjustQuota(kept, 0, 1)

NotReleased(hold) == hold.state # "released"

Releasable(hold) == hold.state = "held"

Release(v, h, reason) ==
  LET hold  == v.holds[h]
      freed == IF hold.kind = "credits" THEN [v EXCEPT !.held = @ - hold.amount]
               ELSE AdjustQuota(v, 0, -1)
  IN IF ~Releasable(hold) THEN v
     ELSE [freed EXCEPT !.holds[h].state = "released", !.holds[h].reason = reason]

\* Capture also charges a hold that was let go: the meetup exists and must be
\* paid for.  What the lots do not cover is debt.
Capture(v, h) ==
  LET hold    == v.holds[h]
      wasHeld == hold.state = "held"
      spent   == Spend(v, hold.amount)
      short   == hold.amount - Total(spent)
      charged == IF hold.kind = "credits"
                 THEN [Draw(v, spent) EXCEPT !.held = IF wasHeld THEN @ - hold.amount ELSE @,
                                             !.debt = @ + short,
                                             !.holds[h].taken = spent, !.holds[h].owed = short]
                 ELSE AdjustQuota(v, 1, IF wasHeld THEN -1 ELSE 0)
  IN IF hold.state = "captured" \/ Settled(hold) THEN v
     ELSE [charged EXCEPT !.holds[h].state = "captured", !.holds[h].late = ~wasHeld]

WrittenOffAlways(v, hold, percent) == Min({hold.owed, v.debt})

\* A full refund writes off the debt its own capture recorded.
WrittenOff(v, hold, percent) == IF percent = 100 THEN Min({hold.owed, v.debt}) ELSE 0

\* left goes to the lots in used, each up to its net, the longest-lived first.
GiveBack(v, net, used, left) ==
  LET Ahead(l) == Total([k \in {j \in used : Sooner(v, l, j)} |-> net[k]])
  IN [l \in LotIds |-> IF l \in used THEN Share(net[l], Ahead(l), left) ELSE 0]

\* percent of what a captured hold still has goes back to its lots.
Refund(v, h, percent) ==
  LET hold == v.holds[h]
      off  == WrittenOff(v, hold, percent)
      net  == [l \in LotIds |-> hold.taken[l] - hold.back[l]]
      used == {l \in LotIds : hold.taken[l] > 0}
      give == GiveBack(v, net, used, (Total(net) * percent) \div 100)
      returned == [v EXCEPT !.balance = @ + Total(give), !.debt = @ - off,
                            !.lots = [l \in DOMAIN v.lots |->
                                        [v.lots[l] EXCEPT !.remaining = @ + give[l]]],
                            !.holds[h].back = [l \in LotIds |-> @[l] + give[l]],
                            !.holds[h].forgiven = off]
  IN IF hold.kind = "credits" THEN SettleDebt(Trim(returned, used))
     ELSE IF percent = 100 THEN AdjustQuota(v, -1, 0) ELSE v

-----------------------------------------------------------------------------
(* Transactions that no meetup takes part in. *)

WalletInit ==
  /\ now = 0
  /\ wallet = [balance |-> 0, held |-> 0, debt |-> 0, closed |-> FALSE,
               quotaUsed |-> 0, quotaHeld |-> 0, lots |-> <<>>, holds |-> <<>>]

\* A purchase, an operator's grant, or the welcome credits, once.
Grant ==
  /\ Len(wallet.lots) < MaxLots
  /\ \E o \in Offers :
       /\ o.kind = "welcome" => \A l \in DOMAIN wallet.lots : wallet.lots[l].kind # "welcome"
       /\ wallet' = GrantLot(Due(wallet), o)
  /\ UNCHANGED now

\* AdminAdjust with a negative amount.
RemoveCredits ==
  /\ \E n \in Amounts :
       /\ n <= Available(Due(wallet))
       /\ wallet' = Draw(Due(wallet), Spend(Due(wallet), n))
  /\ UNCHANGED now

\* refundPack: applied once, whatever is notified again.
StoreRefund ==
  /\ \E l \in DOMAIN wallet.lots :
       /\ wallet.lots[l].kind = "purchase" /\ ~wallet.lots[l].revoked
       /\ wallet' = RevokeLot(Due(wallet), l)
  /\ UNCHANGED now

\* The account was deleted.
CloseWallet == ~wallet.closed /\ wallet' = [wallet EXCEPT !.closed = TRUE] /\ UNCHANGED now

SweepDecayAndExpiry == Due(wallet) # wallet /\ wallet' = Due(wallet) /\ UNCHANGED now

ExpiredBefore(hold) == hold.state = "held" /\ hold.expires < now

ExpiredHold(hold) == hold.state = "held" /\ hold.expires <= now

\* One hold of SweepExpiredHolds' list.
SweepExpiredHold(h) ==
  /\ ExpiredHold(wallet.holds[h])
  /\ wallet' = Release(Due(wallet), h, "expired")
  /\ UNCHANGED now

Tick == now < Horizon /\ now' = now + 1 /\ UNCHANGED wallet
=============================================================================
