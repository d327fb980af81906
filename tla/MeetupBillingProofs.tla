------------------------ MODULE MeetupBillingProofs ------------------------
(* Proofs about MeetupBilling for any calls, keys, prices, lots and faults.    *)
(* The first part is the state machine of the holds, whatever figures the lots *)
(* give (IInv).  The second is the figures: sums over finite sets are taken    *)
(* from the well-foundedness of their subsets, a smallest set that breaks a    *)
(* claim being impossible, and from them the spend order, the books every      *)
(* transaction keeps (Accounted) and what a refund gives (CInv).  The third    *)
(* carries what each charge and refund gives over to the fee of its meetup     *)
(* (FInv), and every step to one of Fees or to none.                           *)
EXTENDS MeetupBilling, FiniteSetTheorems, SequenceTheorems, WellFoundedInduction, TLAPS

WalletFields == {"balance", "held", "debt", "closed", "quotaUsed", "quotaHeld", "lots", "holds"}
HoldFields == {"key", "kind", "amount", "expires", "state", "reason", "late", "taken", "back",
               "owed", "forgiven"}

(* The holds of a plan's units that are still held, which quotaHeld counts.    *)
PlanHeld(v) == {h \in DOMAIN v.holds : v.holds[h].state = "held" /\ v.holds[h].kind = "plan_quota"}

HoldShape(hold) ==
  /\ DOMAIN hold = HoldFields
  /\ hold.kind \in {"credits", "plan_quota"}
  /\ hold.state \in {"held", "released", "captured"}
  /\ hold.late = TRUE => hold.state = "captured"

Listed(v) == \E n \in Nat : v.holds \in [1 .. n -> {v.holds[h] : h \in DOMAIN v.holds}]

(* The plan went past what it includes only for a hold charged late.           *)
QuotaShape(v) ==
  /\ v.quotaUsed \in Nat /\ v.quotaHeld = Cardinality(PlanHeld(v))
  /\ v.quotaUsed + v.quotaHeld > Included =>
       \E h \in DOMAIN v.holds : v.holds[h].late = TRUE /\ v.holds[h].kind = "plan_quota"

(* What every transaction on a wallet preserves.                               *)
Sound(v) ==
  /\ DOMAIN v = WalletFields
  /\ Listed(v)
  /\ \A h \in DOMAIN v.holds : HoldShape(v.holds[h])
  /\ QuotaShape(v)

(* What no transaction does to a hold: lose it, change what it is for, or      *)
(* undo its payment.                                                           *)
Keeps(v, w) ==
  \A h \in DOMAIN v.holds :
    /\ h \in DOMAIN w.holds
    /\ w.holds[h].key \in {v.holds[h].key, "superseded"}
    /\ w.holds[h].kind = v.holds[h].kind /\ w.holds[h].amount = v.holds[h].amount
    /\ Paid(v.holds[h]) => /\ w.holds[h].state = v.holds[h].state
                           /\ w.holds[h].reason = v.holds[h].reason
                           /\ w.holds[h].taken = v.holds[h].taken

Fine(v, w) == Sound(w) /\ Keeps(v, w)

(* A transaction that touches neither holds nor quota.                         *)
Same(v, w) ==
  /\ DOMAIN w = DOMAIN v /\ w.holds = v.holds
  /\ w.quotaUsed = v.quotaUsed /\ w.quotaHeld = v.quotaHeld

-----------------------------------------------------------------------------
(* What the operators of Wallet do to a wallet's holds.                        *)

LEMMA KeepsChain ==
  ASSUME NEW u, NEW v, NEW w, Keeps(u, v), Keeps(v, w)
  PROVE  Keeps(u, w)
BY DEF Keeps, Paid

LEMMA SameIsFine ==
  ASSUME NEW v, NEW w, Sound(v), Same(v, w)
  PROVE  Fine(v, w)
<1>1. PlanHeld(w) = PlanHeld(v)
  BY DEF Same, PlanHeld
<1>2. Sound(w)
  BY <1>1 DEF Sound, Same, Listed, QuotaShape
<1>3. Keeps(v, w)
  BY DEF Keeps, Same
<1> QED
  BY <1>2, <1>3 DEF Fine

LEMMA SameChain ==
  ASSUME NEW u, NEW v, NEW w, Same(u, v), Same(v, w)
  PROVE  Same(u, w)
BY DEF Same

LEMMA DrawSame ==
  ASSUME NEW v, NEW cut, DOMAIN v = WalletFields
  PROVE  Same(v, Draw(v, cut))
BY DEF Draw, Same, WalletFields

LEMMA DueSame ==
  ASSUME NEW v, DOMAIN v = WalletFields
  PROVE  Same(v, Due(v))
BY DrawSame DEF Due, Same, WalletFields

LEMMA TrimSame ==
  ASSUME NEW v, NEW ids, DOMAIN v = WalletFields
  PROVE  Same(v, Trim(v, ids))
BY DrawSame DEF Trim

LEMMA SettleSame ==
  ASSUME NEW v, DOMAIN v = WalletFields
  PROVE  Same(v, SettleDebt(v))
BY DrawSame DEF SettleDebt, Same, WalletFields

LEMMA GrantSame ==
  ASSUME NEW v, NEW o, DOMAIN v = WalletFields
  PROVE  Same(v, GrantLot(v, o))
BY SettleSame DEF GrantLot, Same, WalletFields

LEMMA RevokeSame ==
  ASSUME NEW v, NEW l, DOMAIN v = WalletFields
  PROVE  Same(v, RevokeLot(v, l))
BY DEF RevokeLot, Same, WalletFields
-----------------------------------------------------------------------------
(* Letting a hold go. *)

LEMMA HoldsExcept ==
  ASSUME NEW v, NEW w, NEW h \in DOMAIN v.holds, NEW x,
         Sound(v), w.holds = [v.holds EXCEPT ![h] = x]
  PROVE  /\ DOMAIN w.holds = DOMAIN v.holds
         /\ w.holds[h] = x
         /\ \A i \in DOMAIN v.holds : i # h => w.holds[i] = v.holds[i]
         /\ Listed(w)
<1>1. PICK n \in Nat : v.holds \in [1 .. n -> {v.holds[i] : i \in DOMAIN v.holds}]
  BY DEF Sound, Listed
<1>2. DOMAIN w.holds = 1 .. n /\ w.holds = [i \in 1 .. n |-> w.holds[i]]
  BY <1>1
<1>3. w.holds \in [1 .. n -> {w.holds[i] : i \in DOMAIN w.holds}]
  BY <1>2
<1> QED
  BY <1>1, <1>3 DEF Listed

LEMMA AtMostZero ==
  ASSUME NEW n \in Int
  PROVE  Max({n, 0}) = IF n >= 0 THEN n ELSE 0
BY DEF Max

LEMMA HoldsAreFinite ==
  ASSUME NEW v, Sound(v)
  PROVE  /\ IsFiniteSet(DOMAIN v.holds) /\ IsFiniteSet(PlanHeld(v))
         /\ Cardinality(PlanHeld(v)) \in Nat
<1>1. PICK n \in Nat : v.holds \in [1 .. n -> {v.holds[i] : i \in DOMAIN v.holds}]
  BY DEF Sound, Listed
<1>2. DOMAIN v.holds = 1 .. n
  BY <1>1
<1>3. IsFiniteSet(1 .. n)
  BY <1>1, FS_Interval
<1>4. PlanHeld(v) \in SUBSET DOMAIN v.holds
  BY DEF PlanHeld
<1> QED
  BY <1>2, <1>3, <1>4, FS_Subset, FS_CardinalityType

(* Letting go of a held hold takes a plan's unit back from quotaHeld.          *)
LEMMA ReleaseIsFine ==
  ASSUME NEW v, NEW h \in DOMAIN v.holds, NEW reason, Sound(v)
  PROVE  Fine(v, Release(v, h, reason))
<1> DEFINE w == Release(v, h, reason)
           x == [v.holds[h] EXCEPT !.state = "released", !.reason = reason]
<1>1. CASE v.holds[h].state # "held"
  <2>1. w = v
    BY <1>1 DEF Release, Releasable
  <2> QED
    BY <2>1, SameIsFine DEF Same
<1>2. CASE v.holds[h].state = "held"
  <2>0. /\ DOMAIN v = WalletFields /\ HoldShape(v.holds[h])
        /\ DOMAIN v.holds[h] = HoldFields
    BY DEF Sound, HoldShape
  <2>1. /\ x.state = "released" /\ x.reason = reason
        /\ x.key = v.holds[h].key /\ x.kind = v.holds[h].kind /\ x.amount = v.holds[h].amount
        /\ x.late = v.holds[h].late /\ x.taken = v.holds[h].taken
        /\ DOMAIN x = HoldFields
    BY <2>0 DEF HoldFields
  <2>2. /\ w.holds = [v.holds EXCEPT ![h] = x] /\ DOMAIN w = WalletFields
        /\ w.quotaUsed = IF v.holds[h].kind = "credits" THEN v.quotaUsed
                         ELSE Max({v.quotaUsed + 0, 0})
        /\ w.quotaHeld = IF v.holds[h].kind = "credits" THEN v.quotaHeld
                         ELSE Max({v.quotaHeld + (-1), 0})
    BY <1>2, <2>0 DEF Release, Releasable, AdjustQuota, WalletFields, HoldFields
  <2> HIDE DEF w, x
  <2>3. /\ DOMAIN w.holds = DOMAIN v.holds /\ w.holds[h] = x /\ Listed(w)
        /\ \A i \in DOMAIN v.holds : i # h => w.holds[i] = v.holds[i]
    BY <2>2, HoldsExcept
  <2>4. Keeps(v, w)
    BY <2>1, <2>3, <1>2 DEF Keeps, Paid
  <2>5. \A i \in DOMAIN w.holds : HoldShape(w.holds[i])
    BY <2>0, <2>1, <2>3, <1>2 DEF HoldShape, Sound
  <2>6. QuotaShape(w)
    <3>1. PlanHeld(w) = PlanHeld(v) \ {h}
      BY <2>1, <2>3 DEF PlanHeld
    <3>2. /\ v.quotaUsed \in Nat /\ v.quotaHeld = Cardinality(PlanHeld(v))
          /\ Cardinality(PlanHeld(v)) \in Nat /\ IsFiniteSet(PlanHeld(v))
      BY HoldsAreFinite DEF Sound, QuotaShape
    <3>3. Cardinality(PlanHeld(w)) = IF h \in PlanHeld(v) THEN Cardinality(PlanHeld(v)) - 1
                                     ELSE Cardinality(PlanHeld(v))
      BY <3>1, <3>2, FS_RemoveElement
    <3>4. h \in PlanHeld(v) <=> v.holds[h].kind = "plan_quota"
      BY <1>2 DEF PlanHeld
    <3>5. h \in PlanHeld(v) => Cardinality(PlanHeld(v)) >= 1
      BY <3>2, FS_EmptySet
    <3>6. v.holds[h].kind = "credits" => v.holds[h].kind # "plan_quota"
      OBVIOUS
    <3>7. v.holds[h].kind \in {"credits", "plan_quota"}
      BY <2>0 DEF HoldShape
    <3>8. w.quotaUsed = v.quotaUsed /\ w.quotaHeld = Cardinality(PlanHeld(w))
      BY <2>2, <3>2, <3>3, <3>4, <3>5, <3>6, <3>7, AtMostZero
    <3>9. w.quotaHeld <= v.quotaHeld
      BY <3>8, <3>2, <3>3
    <3>10. ASSUME w.quotaUsed + w.quotaHeld > Included
           PROVE  \E i \in DOMAIN w.holds : w.holds[i].late = TRUE /\ w.holds[i].kind = "plan_quota"
      <4>1. Included \in Nat /\ w.quotaHeld \in Nat
        BY <3>8, <3>2, <3>3, <3>5, WalletAssumption
      <4>2. v.quotaUsed + v.quotaHeld > Included
        BY <3>10, <3>8, <3>9, <3>2, <4>1
      <4>3. PICK i \in DOMAIN v.holds : v.holds[i].late = TRUE /\ v.holds[i].kind = "plan_quota"
        BY <4>2 DEF Sound, QuotaShape
      <4>4. i # h
        BY <4>3, <2>0, <1>2 DEF HoldShape
      <4> QED
        BY <4>3, <4>4, <2>3
    <3> QED
      BY <3>2, <3>8, <3>10 DEF QuotaShape
  <2> QED
    BY <2>2, <2>3, <2>4, <2>5, <2>6 DEF Fine, Sound, w
<1> QED
  BY <1>1, <1>2

-----------------------------------------------------------------------------
(* Charging a hold. *)

(* Afterwards the hold is paid, whatever it was before; a plan's unit that was *)
(* not held any more is counted, and the hold remembers that it was late.      *)
LEMMA CaptureIsFine ==
  ASSUME NEW v, NEW h \in DOMAIN v.holds, Sound(v)
  PROVE  Fine(v, Capture(v, h)) /\ Paid(Capture(v, h).holds[h])
<1> DEFINE w == Capture(v, h)
           was == v.holds[h].state = "held"
           x == w.holds[h]
<1>1. CASE v.holds[h].state = "captured" \/ Settled(v.holds[h])
  <2>1. w = v
    BY <1>1 DEF Capture
  <2>2. Paid(v.holds[h])
    BY <1>1 DEF Paid, Settled
  <2> QED
    BY <2>1, <2>2, SameIsFine DEF Same
<1>2. CASE ~(v.holds[h].state = "captured" \/ Settled(v.holds[h]))
  <2>0. /\ DOMAIN v = WalletFields /\ HoldShape(v.holds[h])
        /\ DOMAIN v.holds[h] = HoldFields
        /\ v.holds[h].kind \in {"credits", "plan_quota"}
    BY DEF Sound, HoldShape
  <2>1. \E y : /\ w.holds = [v.holds EXCEPT ![h] = y] /\ DOMAIN y = HoldFields
               /\ y.state = "captured" /\ y.late = ~was
               /\ y.key = v.holds[h].key /\ y.kind = v.holds[h].kind
               /\ y.amount = v.holds[h].amount
    <3>1. CASE v.holds[h].kind = "credits"
      <4> DEFINE spent == Spend(v, v.holds[h].amount)
                 short == v.holds[h].amount - Total(spent)
                 d == Draw(v, spent)
                 y == [v.holds[h] EXCEPT !.taken = spent, !.owed = short,
                                         !.state = "captured", !.late = ~was]
                 e == [d EXCEPT !.held = IF was THEN @ - v.holds[h].amount ELSE @,
                                !.debt = @ + short,
                                !.holds[h].taken = spent, !.holds[h].owed = short]
      <4>1. w = [e EXCEPT !.holds[h].state = "captured", !.holds[h].late = ~was]
        BY <1>2, <3>1 DEF Capture
      <4>2. d.holds = v.holds /\ DOMAIN d = WalletFields
        BY <2>0, DrawSame DEF Same
      <4> HIDE DEF d, spent, short
      <4>5. /\ DOMAIN e = WalletFields
            /\ e.holds = [v.holds EXCEPT ![h] = [v.holds[h] EXCEPT !.taken = spent, !.owed = short]]
        BY <4>2, <2>0 DEF WalletFields, HoldFields
      <4> HIDE DEF e
      <4>3. w.holds = [v.holds EXCEPT ![h] = y]
        BY <4>1, <4>5, <2>0 DEF WalletFields, HoldFields
      <4>4. /\ DOMAIN y = HoldFields /\ y.state = "captured" /\ y.late = ~was
            /\ y.key = v.holds[h].key /\ y.kind = v.holds[h].kind
            /\ y.amount = v.holds[h].amount
        BY <2>0 DEF HoldFields
      <4> QED
        BY <4>3, <4>4
    <3>2. CASE v.holds[h].kind # "credits"
      <4> DEFINE y == [v.holds[h] EXCEPT !.state = "captured", !.late = ~was]
                 q == AdjustQuota(v, 1, IF was THEN -1 ELSE 0)
      <4>1. w = [q EXCEPT !.holds[h].state = "captured", !.holds[h].late = ~was]
        BY <1>2, <3>2 DEF Capture
      <4>2. q.holds = v.holds /\ DOMAIN q = WalletFields
        BY <2>0 DEF AdjustQuota, WalletFields
      <4> HIDE DEF q
      <4>3. w.holds = [v.holds EXCEPT ![h] = y]
        BY <4>1, <4>2, <2>0 DEF WalletFields, HoldFields
      <4>4. /\ DOMAIN y = HoldFields /\ y.state = "captured" /\ y.late = ~was
            /\ y.key = v.holds[h].key /\ y.kind = v.holds[h].kind
            /\ y.amount = v.holds[h].amount
        BY <2>0 DEF HoldFields
      <4> QED
        BY <4>3, <4>4
    <3> QED
      BY <3>1, <3>2
  <2>2. /\ x.state = "captured" /\ x.late = ~was
        /\ x.key = v.holds[h].key /\ x.kind = v.holds[h].kind /\ x.amount = v.holds[h].amount
        /\ DOMAIN x = HoldFields
    <3> HIDE DEF w
    <3> QED
      BY <2>1, HoldsExcept
  <2>3. /\ DOMAIN w = WalletFields
        /\ w.quotaUsed = IF v.holds[h].kind = "credits" THEN v.quotaUsed
                         ELSE Max({v.quotaUsed + 1, 0})
        /\ w.quotaHeld = IF v.holds[h].kind = "credits" THEN v.quotaHeld
                         ELSE Max({v.quotaHeld + (IF was THEN -1 ELSE 0), 0})
    <3>1. CASE v.holds[h].kind = "credits"
      <4> DEFINE d == Draw(v, Spend(v, v.holds[h].amount))
      <4>1. w = [d EXCEPT !.held = IF was THEN @ - v.holds[h].amount ELSE @,
                          !.debt = @ + (v.holds[h].amount - Total(Spend(v, v.holds[h].amount))),
                          !.holds[h].taken = Spend(v, v.holds[h].amount),
                          !.holds[h].owed = v.holds[h].amount - Total(Spend(v, v.holds[h].amount)),
                          !.holds[h].state = "captured", !.holds[h].late = ~was]
        BY <1>2, <3>1 DEF Capture
      <4>2. /\ DOMAIN d = WalletFields
            /\ d.quotaUsed = v.quotaUsed /\ d.quotaHeld = v.quotaHeld
        BY <2>0, DrawSame DEF Same
      <4> HIDE DEF d
      <4> QED
        BY <3>1, <4>1, <4>2 DEF WalletFields
    <3>2. CASE v.holds[h].kind # "credits"
      BY <1>2, <2>0, <3>2 DEF Capture, AdjustQuota, WalletFields
    <3> QED
      BY <3>1, <3>2
  <2> HIDE DEF w
  <2>4. /\ DOMAIN w.holds = DOMAIN v.holds /\ Listed(w)
        /\ \A i \in DOMAIN v.holds : i # h => w.holds[i] = v.holds[i]
    BY <2>1, HoldsExcept
  <2>5. Keeps(v, w)
    BY <2>2, <2>4, <1>2 DEF Keeps, Paid, Settled
  <2>6. \A i \in DOMAIN w.holds : HoldShape(w.holds[i])
    BY <2>0, <2>2, <2>4 DEF HoldShape, Sound
  <2>7. QuotaShape(w)
    <3>1. PlanHeld(w) = PlanHeld(v) \ {h}
      BY <2>2, <2>4 DEF PlanHeld
    <3>2. /\ v.quotaUsed \in Nat /\ v.quotaHeld = Cardinality(PlanHeld(v))
          /\ Cardinality(PlanHeld(v)) \in Nat /\ IsFiniteSet(PlanHeld(v))
      BY HoldsAreFinite DEF Sound, QuotaShape
    <3>3. Cardinality(PlanHeld(w)) = IF h \in PlanHeld(v) THEN Cardinality(PlanHeld(v)) - 1
                                     ELSE Cardinality(PlanHeld(v))
      BY <3>1, <3>2, FS_RemoveElement
    <3>4. h \in PlanHeld(v) <=> was /\ v.holds[h].kind = "plan_quota"
      BY DEF PlanHeld
    <3>5. h \in PlanHeld(v) => Cardinality(PlanHeld(v)) >= 1
      BY <3>2, FS_EmptySet
    <3>6. CASE v.holds[h].kind = "credits"
      <4>1. w.quotaUsed = v.quotaUsed /\ w.quotaHeld = v.quotaHeld
            /\ w.quotaHeld = Cardinality(PlanHeld(w))
        BY <3>6, <2>3, <3>2, <3>3, <3>4
      <4>2. ASSUME w.quotaUsed + w.quotaHeld > Included
            PROVE  \E i \in DOMAIN w.holds : w.holds[i].late = TRUE /\ w.holds[i].kind = "plan_quota"
        <5>1. PICK i \in DOMAIN v.holds : v.holds[i].late = TRUE /\ v.holds[i].kind = "plan_quota"
          BY <4>1, <4>2 DEF Sound, QuotaShape
        <5> QED
          BY <5>1, <3>6, <2>4
      <4> QED
        BY <4>1, <4>2, <3>2 DEF QuotaShape
    <3>7. CASE v.holds[h].kind = "plan_quota" /\ was
      <4>1. /\ w.quotaUsed = v.quotaUsed + 1 /\ w.quotaHeld = v.quotaHeld - 1
            /\ w.quotaHeld = Cardinality(PlanHeld(w))
        <5>1. /\ v.quotaUsed + 1 \in Nat /\ v.quotaHeld - 1 \in Nat
              /\ v.quotaHeld + (-1) = v.quotaHeld - 1
          BY <3>2, <3>4, <3>5, <3>7
        <5>2. Max({v.quotaUsed + 1, 0}) = v.quotaUsed + 1 /\ Max({v.quotaHeld - 1, 0}) = v.quotaHeld - 1
          BY <5>1, AtMostZero
        <5> QED
          BY <5>1, <5>2, <2>3, <3>2, <3>3, <3>4, <3>7
      <4>2. ASSUME w.quotaUsed + w.quotaHeld > Included
            PROVE  \E i \in DOMAIN w.holds : w.holds[i].late = TRUE /\ w.holds[i].kind = "plan_quota"
        <5>1. v.quotaUsed + v.quotaHeld = w.quotaUsed + w.quotaHeld
          BY <4>1, <3>2
        <5>2. PICK i \in DOMAIN v.holds : v.holds[i].late = TRUE /\ v.holds[i].kind = "plan_quota"
          BY <5>1, <4>2 DEF Sound, QuotaShape
        <5>3. i # h
          BY <5>2, <2>0, <3>7 DEF HoldShape
        <5> QED
          BY <5>2, <5>3, <2>4
      <4>3. w.quotaUsed \in Nat
        BY <4>1, <3>2
      <4> QED
        BY <4>1, <4>2, <4>3 DEF QuotaShape
    <3>8. CASE v.holds[h].kind = "plan_quota" /\ ~was
      <4>1. w.quotaUsed = v.quotaUsed + 1 /\ w.quotaHeld = Cardinality(PlanHeld(w))
        BY <2>3, <3>2, <3>3, <3>4, <3>8, AtMostZero
      <4>2. h \in DOMAIN w.holds /\ w.holds[h].late = TRUE /\ w.holds[h].kind = "plan_quota"
        BY <2>2, <2>4, <3>8
      <4>3. w.quotaUsed \in Nat
        BY <4>1, <3>2
      <4>4. \E i \in DOMAIN w.holds : w.holds[i].late = TRUE /\ w.holds[i].kind = "plan_quota"
        BY <4>2, Zenon
      <4> QED
        BY <4>1, <4>3, <4>4, Zenon DEF QuotaShape
    <3> QED
      BY <3>6, <3>7, <3>8, <2>0
  <2>8. Fine(v, w)
    BY <2>3, <2>4, <2>5, <2>6, <2>7 DEF Fine, Sound
  <2>9. Paid(w.holds[h])
    BY <2>2 DEF Paid
  <2> QED
    BY <2>8, <2>9 DEF w
<1> QED
  BY <1>1, <1>2

-----------------------------------------------------------------------------
(* Giving a charge back. *)

(* What a hold's charge still has of each lot, and the lots it took from.      *)
Nets(hold) == [l \in LotIds |-> hold.taken[l] - hold.back[l]]
Used(hold) == {l \in LotIds : hold.taken[l] > 0}
Gives(v, hold, percent) ==
  GiveBack(v, Nets(hold), Used(hold), (Total(Nets(hold)) * percent) \div 100)

(* The wallet r that a refund has once the credits are back in their lots.     *)
Returned(v, r, h, percent) ==
  LET old  == v.holds[h]
      x    == r.holds[h]
      give == Gives(v, old, percent)
  IN /\ DOMAIN r = WalletFields /\ r.quotaUsed = v.quotaUsed /\ r.quotaHeld = v.quotaHeld
     /\ r.holds = [v.holds EXCEPT ![h] = x] /\ DOMAIN x = HoldFields
     /\ \A f \in HoldFields \ {"back", "forgiven"} : x[f] = old[f]
     /\ x.back = [l \in LotIds |-> old.back[l] + give[l]]
     /\ x.forgiven = WrittenOff(v, old, percent)
     /\ r.balance = v.balance + Total(give) /\ r.held = v.held
     /\ r.debt = v.debt - WrittenOff(v, old, percent)
     /\ r.lots = [l \in DOMAIN v.lots |-> [v.lots[l] EXCEPT !.remaining = @ + give[l]]]

LEMMA RefundReturns ==
  ASSUME NEW v, NEW h \in DOMAIN v.holds, NEW percent, Sound(v), v.holds[h].kind = "credits"
  PROVE  \E r : /\ Returned(v, r, h, percent)
                /\ Refund(v, h, percent) = SettleDebt(Trim(r, Used(v.holds[h])))
<1> DEFINE hold == v.holds[h]
           off  == WrittenOff(v, hold, percent)
           give == Gives(v, hold, percent)
           y == [hold EXCEPT !.back = [l \in LotIds |-> hold.back[l] + give[l]], !.forgiven = off]
           r == [v EXCEPT !.balance = @ + Total(give), !.debt = @ - off,
                          !.lots = [l \in DOMAIN v.lots |->
                                      [v.lots[l] EXCEPT !.remaining = @ + give[l]]],
                          !.holds[h].back = [l \in LotIds |-> @[l] + give[l]],
                          !.holds[h].forgiven = off]
<1>1. DOMAIN v = WalletFields /\ DOMAIN v.holds[h] = HoldFields
  BY DEF Sound, HoldShape
<1>2. Refund(v, h, percent) = SettleDebt(Trim(r, Used(hold)))
  BY DEF Refund, Gives, Nets, Used
<1> HIDE DEF off, give
<1>3. /\ DOMAIN r = WalletFields /\ r.quotaUsed = v.quotaUsed /\ r.quotaHeld = v.quotaHeld
      /\ r.balance = v.balance + Total(give) /\ r.held = v.held /\ r.debt = v.debt - off
      /\ r.lots = [l \in DOMAIN v.lots |-> [v.lots[l] EXCEPT !.remaining = @ + give[l]]]
  BY <1>1 DEF WalletFields
<1>4. r.holds = [v.holds EXCEPT ![h] = y]
  BY <1>1 DEF WalletFields, HoldFields
<1>5. /\ DOMAIN y = HoldFields /\ \A f \in HoldFields \ {"back", "forgiven"} : y[f] = hold[f]
      /\ y.back = [l \in LotIds |-> hold.back[l] + give[l]] /\ y.forgiven = off
  BY <1>1 DEF HoldFields
<1> HIDE DEF r, y
<1>6. r.holds[h] = y
  BY <1>4
<1>7. Returned(v, r, h, percent)
  BY <1>3, <1>4, <1>5, <1>6 DEF Returned, off, give
<1> QED
  BY <1>2, <1>7

LEMMA ReturnedIsFine ==
  ASSUME NEW v, NEW r, NEW h \in DOMAIN v.holds, NEW percent, Sound(v), Returned(v, r, h, percent)
  PROVE  Fine(v, r)
<1> DEFINE y == r.holds[h]
<1>1. /\ DOMAIN r = WalletFields /\ r.quotaUsed = v.quotaUsed /\ r.quotaHeld = v.quotaHeld
      /\ r.holds = [v.holds EXCEPT ![h] = y] /\ DOMAIN y = HoldFields
  BY DEF Returned
<1>2. /\ y.key = v.holds[h].key /\ y.kind = v.holds[h].kind /\ y.amount = v.holds[h].amount
      /\ y.state = v.holds[h].state /\ y.reason = v.holds[h].reason
      /\ y.late = v.holds[h].late /\ y.taken = v.holds[h].taken
  BY DEF Returned, HoldFields
<1> HIDE DEF y
<1>3. /\ DOMAIN r.holds = DOMAIN v.holds /\ r.holds[h] = y /\ Listed(r)
      /\ \A i \in DOMAIN v.holds : i # h => r.holds[i] = v.holds[i]
  BY <1>1, HoldsExcept
<1>4. Keeps(v, r)
  BY <1>2, <1>3 DEF Keeps
<1>5. \A i \in DOMAIN r.holds : HoldShape(r.holds[i])
  BY <1>1, <1>2, <1>3 DEF HoldShape, Sound
<1>6. PlanHeld(r) = PlanHeld(v)
  BY <1>2, <1>3 DEF PlanHeld
<1>7. QuotaShape(r)
  BY <1>1, <1>2, <1>3, <1>6 DEF QuotaShape, Sound
<1> QED
  BY <1>1, <1>3, <1>4, <1>5, <1>7 DEF Fine, Sound

LEMMA RefundIsFine ==
  ASSUME NEW v, NEW h \in DOMAIN v.holds, NEW percent, Sound(v)
  PROVE  Fine(v, Refund(v, h, percent))
<1>0. /\ DOMAIN v = WalletFields /\ HoldShape(v.holds[h])
      /\ v.holds[h].kind \in {"credits", "plan_quota"}
  BY DEF Sound, HoldShape
<1>1. CASE v.holds[h].kind = "credits"
  <2>1. PICK r : /\ Returned(v, r, h, percent)
                 /\ Refund(v, h, percent) = SettleDebt(Trim(r, Used(v.holds[h])))
    BY <1>1, RefundReturns
  <2>2. Fine(v, r) /\ Sound(r)
    BY <2>1, ReturnedIsFine DEF Fine
  <2>3. Same(r, Refund(v, h, percent))
    BY <2>1, <2>2, TrimSame, SettleSame, SameChain DEF Same, Sound
  <2>4. Fine(r, Refund(v, h, percent))
    BY <2>2, <2>3, SameIsFine
  <2> QED
    BY <2>2, <2>4, KeepsChain DEF Fine
<1>2. CASE v.holds[h].kind # "credits"
  <2> DEFINE w == Refund(v, h, percent)
  <2>1. /\ DOMAIN w = WalletFields /\ w.holds = v.holds
        /\ w = v \/ /\ w.quotaUsed = Max({v.quotaUsed + (-1), 0})
                    /\ w.quotaHeld = Max({v.quotaHeld + 0, 0})
    BY <1>0, <1>2 DEF Refund, AdjustQuota, WalletFields
  <2> HIDE DEF w
  <2>2. PlanHeld(w) = PlanHeld(v) /\ Keeps(v, w)
    BY <2>1 DEF PlanHeld, Keeps
  <2>3. /\ v.quotaUsed \in Nat /\ v.quotaHeld = Cardinality(PlanHeld(v))
        /\ Cardinality(PlanHeld(v)) \in Nat
    BY HoldsAreFinite DEF Sound, QuotaShape
  <2>4. w.quotaUsed \in Nat /\ w.quotaUsed <= v.quotaUsed /\ w.quotaHeld = v.quotaHeld
    BY <2>1, <2>3, AtMostZero
  <2>5. w.quotaUsed + w.quotaHeld > Included => v.quotaUsed + v.quotaHeld > Included
    BY <2>3, <2>4, WalletAssumption
  <2>6. QuotaShape(w)
    BY <2>1, <2>2, <2>3, <2>4, <2>5 DEF QuotaShape, Sound
  <2> QED
    BY <2>1, <2>2, <2>6 DEF Fine, Sound, Listed, w
<1> QED
  BY <1>1, <1>2

-----------------------------------------------------------------------------
(* Promising a new hold. *)

(* The new hold comes last; older ones under its key give the key up.          *)
LEMMA PutHoldIsFine ==
  ASSUME NEW v, NEW hold, Sound(v), HoldShape(hold), hold.state = "held",
         hold.kind = "plan_quota" => QuotaLeft(v)
  PROVE  LET w == PutHold(v, hold)
             n == Len(v.holds) + 1
         IN /\ Fine(v, w)
            /\ n \in Nat \ {0} /\ n \notin DOMAIN v.holds /\ n \in DOMAIN w.holds
            /\ w.holds[n] = hold
<1> DEFINE w == PutHold(v, hold)
           n == Len(v.holds) + 1
           moved == [h \in DOMAIN v.holds |->
                       IF v.holds[h].key = hold.key THEN [v.holds[h] EXCEPT !.key = "superseded"]
                       ELSE v.holds[h]]
           S == {moved[h] : h \in DOMAIN v.holds} \cup {hold}
           T == {v.holds[h] : h \in DOMAIN v.holds}
<1>0. DOMAIN v = WalletFields /\ hold.kind \in {"credits", "plan_quota"}
  BY DEF Sound, HoldShape
<1>1. PICK k \in Nat : v.holds \in [1 .. k -> T]
  BY DEF Sound, Listed
<1>2. v.holds \in Seq(T)
  BY <1>1, SeqDef
<1>3. DOMAIN v.holds = 1 .. Len(v.holds) /\ Len(v.holds) \in Nat
  BY <1>2, LenProperties
<1>4. moved \in [1 .. Len(v.holds) -> S]
  BY <1>3
<1>5. moved \in Seq(S)
  <2> HIDE DEF moved, S
  <2> QED
    BY <1>3, <1>4, SeqDef
<1>6. Len(moved) = Len(v.holds)
  <2>1. DOMAIN moved = 1 .. Len(moved) /\ Len(moved) \in Nat
    BY <1>5, LenProperties
  <2>2. DOMAIN moved = 1 .. Len(v.holds)
    BY <1>3
  <2> HIDE DEF moved
  <2> QED
    BY <2>1, <2>2, <1>3
<1>7. \A h \in DOMAIN v.holds :
        /\ moved[h].key \in {v.holds[h].key, "superseded"}
        /\ moved[h].kind = v.holds[h].kind /\ moved[h].amount = v.holds[h].amount
        /\ moved[h].state = v.holds[h].state /\ moved[h].reason = v.holds[h].reason
        /\ moved[h].taken = v.holds[h].taken /\ moved[h].late = v.holds[h].late
        /\ DOMAIN moved[h] = HoldFields
  BY DEF Sound, HoldShape, HoldFields
<1>8. /\ w.holds = Append(moved, hold) /\ DOMAIN w = WalletFields
      /\ w.quotaUsed = IF hold.kind = "credits" THEN v.quotaUsed ELSE Max({v.quotaUsed + 0, 0})
      /\ w.quotaHeld = IF hold.kind = "credits" THEN v.quotaHeld ELSE Max({v.quotaHeld + 1, 0})
  <2> HIDE DEF moved
  <2> DEFINE kept == [v EXCEPT !.holds = Append(moved, hold)]
  <2>1. w = IF hold.kind = "credits" THEN [kept EXCEPT !.held = @ + hold.amount]
            ELSE AdjustQuota(kept, 0, 1)
    BY DEF PutHold, moved
  <2>2. /\ DOMAIN kept = WalletFields /\ kept.holds = Append(moved, hold)
        /\ kept.quotaUsed = v.quotaUsed /\ kept.quotaHeld = v.quotaHeld
    BY <1>0 DEF WalletFields
  <2> HIDE DEF kept, w
  <2> QED
    BY <2>1, <2>2 DEF AdjustQuota, WalletFields
<1>9. hold \in S
  OBVIOUS
<1> HIDE DEF moved, S, T
<1>10. /\ Append(moved, hold) \in Seq(S) /\ Len(Append(moved, hold)) = n
       /\ \A h \in 1 .. Len(v.holds) : Append(moved, hold)[h] = moved[h]
       /\ Append(moved, hold)[n] = hold
  BY <1>5, <1>6, <1>9, AppendProperties
<1> HIDE DEF w
<1>11. DOMAIN w.holds = 1 .. n /\ w.holds \in [1 .. n -> S]
  BY <1>8, <1>10, LenProperties
<1>12. /\ \A h \in DOMAIN v.holds : h \in DOMAIN w.holds /\ w.holds[h] = moved[h]
       /\ n \in Nat \ {0} /\ n \notin DOMAIN v.holds /\ n \in DOMAIN w.holds
       /\ w.holds[n] = hold
       /\ DOMAIN w.holds = DOMAIN v.holds \cup {n}
  BY <1>3, <1>8, <1>10, <1>11
<1>13. Listed(w)
  <2>1. w.holds \in [1 .. n -> {w.holds[h] : h \in DOMAIN w.holds}]
    BY <1>11
  <2> QED
    BY <2>1, <1>12 DEF Listed
<1>14. Keeps(v, w)
  BY <1>7, <1>12 DEF Keeps
<1>15. \A h \in DOMAIN w.holds : HoldShape(w.holds[h])
  BY <1>7, <1>12 DEF Sound, HoldShape
<1>16. QuotaShape(w)
  <2>1. PlanHeld(w) = IF hold.kind = "plan_quota" THEN PlanHeld(v) \cup {n} ELSE PlanHeld(v)
    BY <1>7, <1>12 DEF PlanHeld
  <2>2. /\ v.quotaUsed \in Nat /\ v.quotaHeld = Cardinality(PlanHeld(v))
        /\ Cardinality(PlanHeld(v)) \in Nat /\ IsFiniteSet(PlanHeld(v))
    BY HoldsAreFinite DEF Sound, QuotaShape
  <2>3. n \notin PlanHeld(v)
    BY <1>12 DEF PlanHeld
  <2>4. Cardinality(PlanHeld(v) \cup {n}) = Cardinality(PlanHeld(v)) + 1
    BY <2>2, <2>3, FS_AddElement
  <2>5. CASE hold.kind = "credits"
    <3>1. w.quotaUsed = v.quotaUsed /\ w.quotaHeld = v.quotaHeld /\ PlanHeld(w) = PlanHeld(v)
      BY <2>1, <2>5, <1>8
    <3>2. \A h \in DOMAIN v.holds : h \in DOMAIN w.holds /\ w.holds[h].late = v.holds[h].late
                                    /\ w.holds[h].kind = v.holds[h].kind
      BY <1>7, <1>12
    <3> QED
      BY <3>1, <3>2 DEF Sound, QuotaShape
  <2>6. CASE hold.kind = "plan_quota"
    <3>1. w.quotaUsed = v.quotaUsed /\ w.quotaHeld = v.quotaHeld + 1
      BY <1>8, <2>2, <2>6, AtMostZero
    <3>2. v.quotaUsed + v.quotaHeld < Included
      BY <2>6 DEF QuotaLeft
    <3>3. ~(w.quotaUsed + w.quotaHeld > Included)
      BY <3>1, <3>2, <2>2, WalletAssumption
    <3>4. w.quotaHeld = Cardinality(PlanHeld(w))
      BY <3>1, <2>1, <2>2, <2>4, <2>6
    <3> QED
      BY <3>1, <3>3, <3>4, <2>2 DEF QuotaShape
  <2> QED
    BY <2>5, <2>6, <1>0
<1> QED
  BY <1>8, <1>12, <1>13, <1>14, <1>15, <1>16 DEF Fine, Sound, w

-----------------------------------------------------------------------------
(* The inductive invariant. *)

Places == {"idle", "reserve", "create", "failed", "release", "done"}

CallTypes ==
  /\ pc \in [Calls -> Places]
  /\ kind \in [Calls -> {"credits", "plan_quota"}]
  /\ reserved \in [Calls -> Nat]
  /\ meetup \in [Calls -> [state : {"none", "open", "cancelled", "closed"}, hold : Nat]]

(* A call that may still create has a hold; one that created is past it.       *)
Progress(c) ==
  /\ pc[c] \in {"idle", "reserve"} => reserved[c] = 0
  /\ pc[c] \in {"create", "failed", "release"} => reserved[c] # 0
  /\ meetup[c].state # "none" => /\ pc[c] \in {"failed", "release", "done"}
                                 /\ reserved[c] # 0 /\ meetup[c].hold = reserved[c]

(* A call's hold is for what it was quoted, under its key until a later hold   *)
(* takes that over.                                                            *)
Promised(c) ==
  reserved[c] # 0 =>
    /\ reserved[c] \in DOMAIN wallet.holds
    /\ wallet.holds[reserved[c]].key \in {KeyOf[c], "superseded"}
    /\ SameCharge(wallet.holds[reserved[c]], c)

OneKey ==
  \A c, d \in Calls : reserved[c] # 0 /\ reserved[c] = reserved[d] => KeyOf[c] = KeyOf[d]

EventShape == \A e \in pending : e.meetup \in Calls /\ meetup[e.meetup].state # "none"

IInv ==
  /\ Sound(wallet)
  /\ CallTypes
  /\ \A c \in Calls : Progress(c)
  /\ \A c \in Calls : Promised(c)
  /\ OneKey
  /\ EventShape
  /\ PaidOnce

(* Calls go on while the wallet changes only as transactions may change it.    *)
LEMMA CallsGoOn ==
  ASSUME IInv, Fine(wallet, wallet'),
         UNCHANGED <<reserved, meetup>>, pending' \subseteq pending,
         pc' \in [Calls -> Places],
         kind' \in [Calls -> {"credits", "plan_quota"}],
         \A c \in Calls : reserved[c] # 0 => kind'[c] = kind[c],
         \A c \in Calls : pc'[c] # pc[c] =>
           \/ pc[c] = "idle" /\ pc'[c] = "reserve"
           \/ pc[c] \in {"create", "failed"} /\ pc'[c] \in {"failed", "release"}
           \/ pc'[c] = "done",
         \A m \in Calls : \A e \in pending \ pending' :
           e.topic = "created" /\ e.meetup = m => Paid(wallet'.holds[meetup[m].hold])
  PROVE  IInv'
<1>1. Sound(wallet')
  BY DEF Fine
<1>2. CallTypes'
  BY DEF IInv, CallTypes
<1>3. \A c \in Calls : Progress(c)'
  BY DEF IInv, Progress, CallTypes, Places
<1>4. \A c \in Calls : Promised(c)'
  BY DEF IInv, Promised, Fine, Keeps, SameCharge, Amount
<1>5. OneKey'
  BY DEF IInv, OneKey
<1>6. EventShape'
  BY DEF IInv, EventShape
<1>7. ChargedOnce'
  BY DEF IInv, PaidOnce, ChargedOnce
<1>8. NoFreeMeetup'
  <2> SUFFICES ASSUME NEW m \in Calls, meetup[m].state # "none",
                      ~\E e \in pending' : e.meetup = m /\ e.topic = "created"
               PROVE  Paid(wallet'.holds[meetup[m].hold])
    BY DEF NoFreeMeetup
  <2>1. CASE \E e \in pending : e.meetup = m /\ e.topic = "created"
    BY <2>1
  <2>2. CASE ~\E e \in pending : e.meetup = m /\ e.topic = "created"
    <3>1. Paid(wallet.holds[meetup[m].hold])
      BY <2>2 DEF IInv, PaidOnce, NoFreeMeetup
    <3>2. meetup[m].hold \in DOMAIN wallet.holds
      BY DEF IInv, Progress, Promised
    <3> QED
      BY <3>1, <3>2 DEF Fine, Keeps, Paid
  <2> QED
    BY <2>1, <2>2
<1> QED
  BY <1>1, <1>2, <1>3, <1>4, <1>5, <1>6, <1>7, <1>8 DEF IInv, PaidOnce

LEMMA NothingMoves ==
  ASSUME IInv
  PROVE  Fine(wallet, wallet)
BY SameIsFine DEF IInv, Same

LEMMA DueIsFine ==
  ASSUME IInv
  PROVE  Fine(wallet, Due(wallet)) /\ Due(wallet).holds = wallet.holds
BY DueSame, SameIsFine DEF IInv, Sound, Same

LEMMA FineChain ==
  ASSUME NEW u, NEW v, NEW w, Fine(u, v), Fine(v, w)
  PROVE  Fine(u, w)
BY KeepsChain DEF Fine

-----------------------------------------------------------------------------
(* The steps of a call. *)

LEMMA MovesKeep ==
  ASSUME IInv, NEW c \in Calls,
         Replay(c) \/ CreateExists(c) \/ CreateFails(c) \/ CheckFailed(c) \/ Abandon(c)
  PROVE  IInv' /\ Keeps(wallet, wallet')
<1>1. UNCHANGED <<wallet, kind, reserved, meetup, pending>>
  BY DEF Replay, CreateExists, CreateFails, CheckFailed, Abandon
<1>2. Fine(wallet, wallet')
  BY <1>1, NothingMoves
<1>3. /\ pc' \in [Calls -> Places]
      /\ \A d \in Calls : pc'[d] # pc[d] =>
           \/ pc[d] \in {"create", "failed"} /\ pc'[d] \in {"failed", "release"}
           \/ pc'[d] = "done"
  BY DEF Replay, CreateExists, CreateFails, CheckFailed, Abandon, Go, IInv, CallTypes, Places
<1>4. kind' \in [Calls -> {"credits", "plan_quota"}]
  BY <1>1 DEF IInv, CallTypes
<1> QED
  BY <1>1, <1>2, <1>3, <1>4, CallsGoOn DEF Fine

LEMMA QuoteKeeps ==
  ASSUME IInv, NEW c \in Calls, Quote(c)
  PROVE  IInv' /\ Keeps(wallet, wallet')
<1>1. Fine(wallet, wallet')
  BY DueIsFine DEF Quote
<1>2. /\ pc' \in [Calls -> Places]
      /\ \A d \in Calls : pc'[d] # pc[d] =>
           (pc[d] = "idle" /\ pc'[d] = "reserve") \/ pc'[d] = "done"
  BY DEF Quote, Go, IInv, CallTypes, Places
<1>3. kind' \in [Calls -> {"credits", "plan_quota"}]
  BY DEF Quote, IInv, CallTypes
<1>4. \A d \in Calls : reserved[d] # 0 => kind'[d] = kind[d]
  BY DEF Quote, IInv, CallTypes, Progress
<1>5. UNCHANGED <<reserved, meetup, pending>>
  BY DEF Quote
<1> QED
  BY <1>1, <1>2, <1>3, <1>4, <1>5, CallsGoOn DEF Fine

LEMMA ReleaseHoldKeeps ==
  ASSUME IInv, NEW c \in Calls, ReleaseHold(c)
  PROVE  IInv' /\ Keeps(wallet, wallet')
<1>1. /\ UNCHANGED <<kind, reserved, meetup, pending>> /\ pc[c] = "release"
      /\ wallet' = Release(Due(wallet), reserved[c], "released")
  BY DEF ReleaseHold
<1>2. reserved[c] \in DOMAIN Due(wallet).holds
  BY <1>1, DueIsFine DEF IInv, Progress, Promised
<1>3. Fine(Due(wallet), wallet')
  BY <1>1, <1>2, DueIsFine, ReleaseIsFine DEF Fine
<1>4. Fine(wallet, wallet')
  BY <1>3, DueIsFine, FineChain
<1>5. /\ pc' \in [Calls -> Places]
      /\ \A d \in Calls : pc'[d] # pc[d] => pc'[d] = "done"
  BY DEF ReleaseHold, Go, IInv, CallTypes, Places
<1>6. kind' \in [Calls -> {"credits", "plan_quota"}]
  BY <1>1 DEF IInv, CallTypes
<1> QED
  BY <1>1, <1>4, <1>5, <1>6, CallsGoOn DEF Fine

LEMMA CreateKeeps ==
  ASSUME IInv, NEW c \in Calls, Create(c)
  PROVE  IInv' /\ Keeps(wallet, wallet')
<1>0. /\ pc[c] = "create" /\ ~Found(c) /\ UNCHANGED <<wallet, kind, reserved>>
      /\ meetup' = [meetup EXCEPT ![c] = [state |-> "open", hold |-> reserved[c]]]
      /\ pending' = pending \cup {[meetup |-> c, topic |-> "created", percent |-> 0]}
      /\ pc' \in [Calls -> Places]
      /\ pc'[c] \in {"done", "failed"} /\ \A d \in Calls : d # c => pc'[d] = pc[d]
  BY DEF Create, Go, IInv, CallTypes, Places
<1>1. Fine(wallet, wallet')
  BY <1>0, NothingMoves
<1>2. reserved[c] # 0 /\ reserved[c] \in Nat /\ meetup[c].state = "none"
  BY <1>0 DEF IInv, Progress, CallTypes
<1>3. /\ meetup'[c].state = "open" /\ meetup'[c].hold = reserved[c]
      /\ \A m \in Calls : m # c => meetup'[m] = meetup[m]
      /\ meetup' \in [Calls -> [state : {"none", "open", "cancelled", "closed"}, hold : Nat]]
  BY <1>0, <1>2 DEF IInv, CallTypes
<1>4. Sound(wallet') /\ CallTypes'
  BY <1>0, <1>1, <1>3 DEF IInv, CallTypes, Fine
<1>5. \A d \in Calls : Progress(d)'
  BY <1>0, <1>2, <1>3 DEF IInv, Progress
<1>6. (\A d \in Calls : Promised(d)') /\ OneKey'
  BY <1>0 DEF IInv, Promised, SameCharge, Amount, OneKey
<1>7. EventShape'
  BY <1>0, <1>3 DEF IInv, EventShape
<1>8. \A m \in Calls : m # c /\ meetup[m].state # "none" =>
        KeyOf[m] # KeyOf[c] /\ meetup[m].hold # reserved[c]
  <2> SUFFICES ASSUME NEW m \in Calls, m # c, meetup[m].state # "none",
                      KeyOf[m] = KeyOf[c] \/ meetup[m].hold = reserved[c]
               PROVE  FALSE
    OBVIOUS
  <2>1. KeyOf[m] = KeyOf[c]
    BY <1>2 DEF IInv, Progress, OneKey
  <2>2. c \in Keyed
    BY <2>1, BillingAssumption
  <2> QED
    BY <2>1, <2>2, <1>0 DEF Found
<1>9. ChargedOnce'
  BY <1>3, <1>8 DEF IInv, PaidOnce, ChargedOnce
<1>10. NoFreeMeetup'
  <2> SUFFICES ASSUME NEW m \in Calls, meetup'[m].state # "none",
                      ~\E e \in pending' : e.meetup = m /\ e.topic = "created"
               PROVE  Paid(wallet'.holds[meetup'[m].hold])
    BY DEF NoFreeMeetup
  <2>1. m # c
    <3> DEFINE e == [meetup |-> c, topic |-> "created", percent |-> 0]
    <3>1. e.meetup = c /\ e.topic = "created" /\ e \in pending'
      BY <1>0
    <3> QED
      BY <3>1
  <2>2. meetup'[m] = meetup[m] /\ ~\E e \in pending : e.meetup = m /\ e.topic = "created"
    BY <2>1, <1>0, <1>3
  <2> QED
    BY <2>2, <1>0 DEF IInv, PaidOnce, NoFreeMeetup
<1> QED
  BY <1>1, <1>4, <1>5, <1>6, <1>7, <1>9, <1>10 DEF IInv, PaidOnce, Fine

LEMMA ReserveKeeps ==
  ASSUME IInv, NEW c \in Calls, Reserve(c)
  PROVE  IInv' /\ Keeps(wallet, wallet')
<1> DEFINE due == Due(wallet)
           hold == NewHold(KeyOf[c], kind[c], Amount(c))
<1>0. /\ pc[c] = "reserve" /\ reserved[c] = 0
      /\ UNCHANGED <<kind, meetup, pending>>
      /\ kind' \in [Calls -> {"credits", "plan_quota"}]
  BY DEF Reserve, IInv, Progress, CallTypes
<1>1. Fine(wallet, due) /\ Sound(due) /\ due.holds = wallet.holds
  BY DueIsFine DEF Fine
<1>2. CASE /\ wallet' = wallet /\ reserved' = reserved
           /\ Go(c, "done")
  <2>1. /\ pc' \in [Calls -> Places]
        /\ \A d \in Calls : pc'[d] # pc[d] => pc'[d] = "done"
    BY <1>2 DEF Go, IInv, CallTypes, Places
  <2>2. Fine(wallet, wallet')
    BY <1>2, NothingMoves
  <2> QED
    BY <1>0, <1>2, <2>1, <2>2, CallsGoOn DEF Fine
<1>3. ASSUME NEW h \in Nat \ {0}, Fine(wallet, wallet'), h \in DOMAIN wallet'.holds,
             reserved' = [reserved EXCEPT ![c] = h], Go(c, "create"),
             wallet'.holds[h].key = KeyOf[c], SameCharge(wallet'.holds[h], c),
             \A d \in Calls : reserved[d] = h => KeyOf[d] = KeyOf[c]
      PROVE  IInv' /\ Keeps(wallet, wallet')
  <2>1. /\ reserved' \in [Calls -> Nat] /\ reserved'[c] = h
        /\ \A d \in Calls : d # c => reserved'[d] = reserved[d]
        /\ pc' \in [Calls -> Places] /\ pc'[c] = "create"
        /\ \A d \in Calls : d # c => pc'[d] = pc[d]
    BY <1>3 DEF Go, IInv, CallTypes, Places
  <2>2. Sound(wallet') /\ CallTypes'
    BY <1>0, <1>3, <2>1 DEF IInv, CallTypes, Fine
  <2>3. \A d \in Calls : Progress(d)'
    BY <1>0, <2>1 DEF IInv, Progress
  <2>4. \A d \in Calls : Promised(d)'
    <3>1. Promised(c)'
      BY <1>0, <1>3, <2>1 DEF Promised, SameCharge, Amount
    <3>2. ASSUME NEW d \in Calls, d # c PROVE Promised(d)'
      BY <1>0, <1>3, <2>1, <3>2 DEF IInv, Promised, SameCharge, Amount, Fine, Keeps
    <3> QED
      BY <3>1, <3>2
  <2>5. OneKey'
    BY <1>3, <2>1 DEF IInv, OneKey
  <2>6. EventShape' /\ ChargedOnce'
    BY <1>0 DEF IInv, EventShape, PaidOnce, ChargedOnce
  <2>7. NoFreeMeetup'
    <3> SUFFICES ASSUME NEW m \in Calls, meetup[m].state # "none",
                        ~\E e \in pending : e.meetup = m /\ e.topic = "created"
                 PROVE  Paid(wallet'.holds[meetup[m].hold])
      BY <1>0 DEF NoFreeMeetup
    <3>1. Paid(wallet.holds[meetup[m].hold]) /\ meetup[m].hold \in DOMAIN wallet.holds
      BY DEF IInv, PaidOnce, NoFreeMeetup, Progress, Promised
    <3> QED
      BY <3>1, <1>3 DEF Fine, Keeps, Paid
  <2> QED
    BY <1>3, <2>2, <2>3, <2>4, <2>5, <2>6, <2>7 DEF IInv, PaidOnce, Fine
<1>4. ASSUME NEW h \in Reusable(due, KeyOf[c], kind[c], Amount(c)), wallet' = due,
             reserved' = [reserved EXCEPT ![c] = h], Go(c, "create")
      PROVE  IInv' /\ Keeps(wallet, wallet')
  <2>1. /\ h \in DOMAIN wallet.holds /\ wallet'.holds[h] = wallet.holds[h]
        /\ h \in DOMAIN wallet'.holds
        /\ wallet.holds[h].key = KeyOf[c] /\ SameCharge(wallet'.holds[h], c)
    BY <1>1, <1>4 DEF Reusable, SameRequest, SameCharge
  <2>2. h \in Nat \ {0}
    <3>1. PICK n \in Nat : wallet.holds \in [1 .. n -> {wallet.holds[i] : i \in DOMAIN wallet.holds}]
      BY DEF IInv, Sound, Listed
    <3> QED
      BY <2>1, <3>1
  <2>3. \A d \in Calls : reserved[d] = h => KeyOf[d] = KeyOf[c]
    BY <2>1, <2>2, BillingAssumption DEF IInv, Promised
  <2> QED
    BY <1>1, <1>3, <1>4, <2>1, <2>2, <2>3
<1>5. ASSUME Affordable(due, kind[c], Amount(c)), wallet' = PutHold(due, hold),
             reserved' = [reserved EXCEPT ![c] = Len(due.holds) + 1], Go(c, "create")
      PROVE  IInv' /\ Keeps(wallet, wallet')
  <2> DEFINE n == Len(due.holds) + 1
  <2>1. /\ HoldShape(hold) /\ hold.state = "held" /\ hold.key = KeyOf[c]
        /\ hold.kind = kind[c] /\ hold.amount = Amount(c)
    BY DEF NewHold, HoldShape, HoldFields, IInv, CallTypes
  <2>2. hold.kind = "plan_quota" => QuotaLeft(due)
    BY <1>5, <2>1 DEF Affordable
  <2> HIDE DEF hold, due
  <2>3. /\ Fine(due, wallet') /\ n \in Nat \ {0}
        /\ n \notin DOMAIN due.holds /\ n \in DOMAIN wallet'.holds /\ wallet'.holds[n] = hold
    BY <1>1, <1>5, <2>1, <2>2, PutHoldIsFine
  <2> HIDE DEF n
  <2>4. Fine(wallet, wallet')
    BY <1>1, <2>3, FineChain
  <2>5. \A d \in Calls : reserved[d] # n
    BY <1>1, <2>3 DEF IInv, Promised
  <2>6. SameCharge(wallet'.holds[n], c) /\ wallet'.holds[n].key = KeyOf[c]
    BY <2>1, <2>3 DEF SameCharge
  <2>7. reserved' = [reserved EXCEPT ![c] = n]
    BY <1>5 DEF n
  <2> QED
    BY <1>3, <1>5, <2>3, <2>4, <2>5, <2>6, <2>7
<1> QED
  BY <1>2, <1>4, <1>5 DEF Reserve

-----------------------------------------------------------------------------
(* The end of a meetup and its events. *)

LEMMA EndKeeps ==
  ASSUME IInv, NEW c \in Calls, End(c)
  PROVE  IInv' /\ Keeps(wallet, wallet')
<1>0. PICK topic \in {"cancelled", "closed"}, favourable \in BOOLEAN :
        /\ meetup[c].state = "open" /\ UNCHANGED <<wallet, pc, kind, reserved>>
        /\ meetup' = [meetup EXCEPT ![c].state = topic]
        /\ pending' = pending \cup {[meetup |-> c, topic |-> topic,
                                     percent |-> RefundPercent(topic, favourable)]}
  BY DEF End
<1>1. Fine(wallet, wallet')
  BY <1>0, NothingMoves
<1>2. /\ meetup' \in [Calls -> [state : {"none", "open", "cancelled", "closed"}, hold : Nat]]
      /\ \A m \in Calls : meetup'[m].hold = meetup[m].hold
      /\ \A m \in Calls : meetup'[m].state # "none" <=> meetup[m].state # "none"
  BY <1>0 DEF IInv, CallTypes
<1>3. Sound(wallet') /\ CallTypes'
  BY <1>0, <1>1, <1>2 DEF IInv, CallTypes, Fine
<1>4. (\A d \in Calls : Progress(d)') /\ (\A d \in Calls : Promised(d)') /\ OneKey'
  BY <1>0, <1>2 DEF IInv, Progress, Promised, SameCharge, Amount, OneKey
<1>5. EventShape'
  BY <1>0, <1>2 DEF IInv, EventShape
<1>6. ChargedOnce'
  BY <1>2 DEF IInv, PaidOnce, ChargedOnce
<1>7. NoFreeMeetup'
  BY <1>0, <1>2 DEF IInv, PaidOnce, NoFreeMeetup
<1> QED
  BY <1>1, <1>3, <1>4, <1>5, <1>6, <1>7 DEF IInv, PaidOnce, Fine

(* Billing pays for the meetup when its created event is handled; what it does *)
(* about the end neither loses nor repeats that.                               *)
LEMMA DeliverKeeps ==
  ASSUME IInv, NEW e \in pending, Deliver(e)
  PROVE  IInv' /\ Keeps(wallet, wallet')
<1> DEFINE h == meetup[e.meetup].hold
           due == Due(wallet)
<1>1. /\ Fine(wallet, due) /\ Sound(due) /\ due.holds = wallet.holds
      /\ h \in DOMAIN due.holds
  BY DueIsFine DEF Fine, IInv, EventShape, Progress, Promised
<1>2. Fine(due, Capture(due, h)) /\ Paid(Capture(due, h).holds[h])
  BY <1>1, CaptureIsFine
<1>3. h \in DOMAIN Capture(due, h).holds
  BY <1>1, <1>2 DEF Fine, Keeps
<1>4. /\ UNCHANGED <<pc, kind, reserved, meetup>> /\ pending' \in {pending, pending \ {e}}
      /\ \/ e.topic = "created" /\ CaptureCreated(h)
         \/ e.topic # "created" /\ SettleEnded(h, e.percent)
         \/ e.topic # "created" /\ wallet' = due
  BY DEF Deliver
<1>5. ASSUME SettleEnded(h, e.percent) PROVE Fine(due, wallet')
  <2>1. \/ wallet' = Release(due, h, "refunded_before_capture")
        \/ wallet' = Refund(Capture(due, h), h, e.percent)
        \/ wallet' = Capture(due, h)
    BY <1>5 DEF SettleEnded
  <2>2. Fine(due, Release(due, h, "refunded_before_capture"))
    BY <1>1, ReleaseIsFine
  <2>3. Fine(Capture(due, h), Refund(Capture(due, h), h, e.percent))
    BY <1>2, <1>3, RefundIsFine DEF Fine
  <2> QED
    BY <1>2, <2>1, <2>2, <2>3, FineChain
<1>6. Fine(wallet, wallet') /\ (e.topic = "created" => Paid(wallet'.holds[h]))
  <2>1. CASE e.topic = "created" /\ CaptureCreated(h)
    BY <1>1, <1>2, <2>1, FineChain DEF CaptureCreated
  <2>2. CASE e.topic # "created" /\ SettleEnded(h, e.percent)
    BY <1>1, <1>5, <2>2, FineChain
  <2>3. CASE e.topic # "created" /\ wallet' = due
    BY <1>1, <2>3
  <2> QED
    BY <1>4, <2>1, <2>2, <2>3
<1>7. pc' \in [Calls -> Places] /\ kind' \in [Calls -> {"credits", "plan_quota"}]
  BY <1>4 DEF IInv, CallTypes
<1>8. \A m \in Calls : \A f \in pending \ pending' :
        f.topic = "created" /\ f.meetup = m => Paid(wallet'.holds[meetup[m].hold])
  BY <1>4, <1>6
<1> QED
  BY <1>4, <1>6, <1>7, <1>8, CallsGoOn DEF Fine

LEMMA BooksKeep ==
  ASSUME IInv, Books
  PROVE  IInv' /\ Keeps(wallet, wallet')
<1>0. UNCHANGED <<pc, kind, reserved, meetup, pending>>
  BY DEF Books
<1>1. /\ Fine(wallet, Due(wallet)) /\ Sound(Due(wallet)) /\ DOMAIN Due(wallet) = WalletFields
      /\ Due(wallet).holds = wallet.holds
  BY DueIsFine DEF Fine, Sound
<1>2. ASSUME NEW w, Same(Due(wallet), w) PROVE Fine(wallet, w)
  BY <1>1, <1>2, SameIsFine, FineChain
<1>3. Fine(wallet, wallet')
  <2>1. CASE Grant
    <3>1. PICK o \in Offers : wallet' = GrantLot(Due(wallet), o)
      BY <2>1 DEF Grant
    <3> QED
      BY <3>1, <1>1, <1>2, GrantSame
  <2>2. CASE SweepDecayAndExpiry
    BY <2>2, <1>1 DEF SweepDecayAndExpiry
  <2>3. CASE Tick
    BY <2>3, NothingMoves DEF Tick
  <2>4. CASE \E h \in DOMAIN wallet.holds : SweepExpiredHold(h)
    <3>1. PICK h \in DOMAIN wallet.holds : wallet' = Release(Due(wallet), h, "expired")
      BY <2>4 DEF SweepExpiredHold
    <3>2. Fine(Due(wallet), wallet')
      BY <3>1, <1>1, ReleaseIsFine
    <3> QED
      BY <3>2, <1>1, FineChain
  <2>5. CASE RemoveCredits
    <3>1. PICK n \in Amounts : wallet' = Draw(Due(wallet), Spend(Due(wallet), n))
      BY <2>5 DEF RemoveCredits
    <3> QED
      BY <3>1, <1>1, <1>2, DrawSame
  <2>6. CASE StoreRefund
    <3>1. PICK l \in DOMAIN wallet.lots : wallet' = RevokeLot(Due(wallet), l)
      BY <2>6 DEF StoreRefund
    <3> QED
      BY <3>1, <1>1, <1>2, RevokeSame
  <2>7. CASE CloseWallet
    <3>1. wallet' = [wallet EXCEPT !.closed = TRUE] /\ DOMAIN wallet = WalletFields
      BY <2>7 DEF CloseWallet, IInv, Sound
    <3>2. Same(wallet, wallet')
      BY <3>1 DEF Same, WalletFields
    <3> QED
      BY <3>2, SameIsFine DEF IInv
  <2> QED
    BY <2>1, <2>2, <2>3, <2>4, <2>5, <2>6, <2>7 DEF Books
<1>4. pc' \in [Calls -> Places] /\ kind' \in [Calls -> {"credits", "plan_quota"}]
  BY <1>0 DEF IInv, CallTypes
<1> QED
  BY <1>0, <1>3, <1>4, CallsGoOn DEF Fine

-----------------------------------------------------------------------------
(* The theorems. *)

LEMMA InitHolds == Init => IInv
<1> SUFFICES ASSUME Init PROVE IInv
  OBVIOUS
<1>1. /\ DOMAIN wallet = WalletFields /\ wallet.holds = <<>>
      /\ wallet.quotaUsed = 0 /\ wallet.quotaHeld = 0
  BY DEF Init, WalletInit, WalletFields
<1>2. DOMAIN wallet.holds = {}
  BY <1>1
<1>3. Listed(wallet)
  <2>1. wallet.holds \in [1 .. 0 -> {wallet.holds[h] : h \in DOMAIN wallet.holds}]
    BY <1>1
  <2> QED
    BY <2>1 DEF Listed
<1>4. PlanHeld(wallet) = {}
  BY <1>2 DEF PlanHeld
<1>5. QuotaShape(wallet)
  BY <1>1, <1>4, FS_EmptySet, WalletAssumption DEF QuotaShape
<1>6. Sound(wallet)
  BY <1>1, <1>2, <1>3, <1>5 DEF Sound
<1>7. CallTypes /\ (\A c \in Calls : Progress(c) /\ Promised(c)) /\ OneKey
  BY DEF Init, CallTypes, Places, Progress, Promised, OneKey, Unmade
<1>8. EventShape /\ ChargedOnce /\ NoFreeMeetup
  BY DEF Init, EventShape, ChargedOnce, NoFreeMeetup, Unmade
<1> QED
  BY <1>6, <1>7, <1>8 DEF IInv, PaidOnce

LEMMA StepHolds ==
  ASSUME IInv, [Next]_vars
  PROVE  IInv' /\ Keeps(wallet, wallet')
<1>1. ASSUME NEW c \in Calls, Call(c) PROVE IInv' /\ Keeps(wallet, wallet')
  BY <1>1, MovesKeep, QuoteKeeps, ReserveKeeps, CreateKeeps, ReleaseHoldKeeps DEF Call
<1>2. CASE UNCHANGED vars
  <2>1. IInv'
    BY <1>2, NothingMoves, CallsGoOn DEF vars, IInv, CallTypes
  <2> QED
    BY <1>2, <2>1, NothingMoves DEF vars, Fine
<1> QED
  BY <1>1, <1>2, EndKeeps, DeliverKeeps, BooksKeep DEF Next

LEMMA IInvHolds == Spec => []IInv
<1>1. IInv /\ [Next]_vars => IInv'
  BY StepHolds
<1> QED
  BY InitHolds, <1>1, PTL DEF Spec

(* However often a creation is retried, under whatever key, and in whatever    *)
(* order its events are delivered and its hold swept, a meetup is charged, and *)
(* charged once (charging.go, refunds.go).                                     *)
THEOREM MeetupsArePaidOnce == Spec => []PaidOnce
<1>1. IInv => PaidOnce
  BY DEF IInv
<1> QED
  BY IInvHolds, <1>1, PTL

(* A meetup is paid with a hold of the kind and amount its own request was     *)
(* quoted, also when it found the hold of an earlier one (holds.go, reuseHold).*)
THEOREM MeetupsPayTheirPrice == Spec => []PaysItsPrice
<1>1. IInv => PaysItsPrice
  BY DEF IInv, PaysItsPrice, Progress, Promised
<1> QED
  BY IInvHolds, <1>1, PTL

(* The plan covers no more meetups than it includes, unless a hold that had    *)
(* been let go was charged late (wallet.go, adjustQuota; capture.go).          *)
THEOREM PlansCoverTheirQuota == Spec => []QuotaIsKept
<1>1. IInv => QuotaIsKept
  BY DEF IInv, Sound, QuotaShape, QuotaIsKept
<1> QED
  BY IInvHolds, <1>1, PTL

(* No transaction undoes a charge or charges a hold that a full refund let go  *)
(* (capture.go, refunds.go).                                                   *)
THEOREM NothingUndoesACharge == Spec => ChargesStay
<1>1. IInv /\ [Next]_vars =>
        [\A h \in DOMAIN wallet.holds :
           Paid(wallet.holds[h]) =>
             /\ wallet'.holds[h].state = wallet.holds[h].state
             /\ wallet'.holds[h].taken = wallet.holds[h].taken]_vars
  BY StepHolds DEF Keeps
<1> QED
  BY IInvHolds, <1>1, PTL DEF Spec, ChargesStay

-----------------------------------------------------------------------------
(* Sums over finite sets: Total is a fold, unfolded here once and for all.     *)

Chosen(S) == CHOOSE x \in S : TRUE

(* g is the fold of f over the subsets of S.  *)
Folds(g, f, S) ==
  g = [s \in SUBSET S |-> IF s = {} THEN 0 ELSE f[Chosen(s)] + g[s \ {Chosen(s)}]]

FoldOf(f, S) == CHOOSE g : Folds(g, f, S)

LEMMA TotalUnfolds == ASSUME NEW f PROVE Total(f) = FoldOf(f, DOMAIN f)[DOMAIN f]
BY DEF Total, MapThenSumSet, MapThenFoldSet, FoldOf, Folds, Chosen

(* Of the sets that break a claim, one has no smaller one in it: every claim   *)
(* about sums below is proved by showing that there is none.                   *)
LEMMA SmallestBad ==
  ASSUME NEW S, NEW Bad, Bad \subseteq SUBSET S, IsFiniteSet(S), Bad # {}
  PROVE  \E T \in Bad : \A U \in Bad : ~ (U \subseteq T /\ U # T)
<1>1. Bad \subseteq FiniteSubsetsOf(S)
  BY FS_Subset DEF FiniteSubsetsOf
<1>2. PICK T \in Bad : \A U \in Bad : <<U, T>> \notin StrictSubsetOrdering(S)
  BY <1>1, FS_StrictSubsetOrderingWellFounded, WFMin
<1> QED
  BY <1>2 DEF StrictSubsetOrdering

LEMMA ChosenIsIn == ASSUME NEW S, S # {} PROVE Chosen(S) \in S
BY DEF Chosen

LEMMA FoldValue ==
  ASSUME NEW g, NEW f, NEW S, Folds(g, f, S), NEW s, s \subseteq S
  PROVE  /\ s = {} => g[s] = 0
         /\ s # {} => g[s] = f[Chosen(s)] + g[s \ {Chosen(s)}]
<1> DEFINE body(t) == IF t = {} THEN 0 ELSE f[Chosen(t)] + g[t \ {Chosen(t)}]
<1>1. g = [t \in SUBSET S |-> body(t)]
  BY DEF Folds
<1> HIDE DEF body
<1>2. g[s] = body(s)
  BY <1>1
<1> QED
  BY <1>2 DEF body

(* A fold over a set says of its subsets what any other fold says of them.     *)
LEMMA FoldsAgree ==
  ASSUME NEW f, NEW S, NEW T, NEW g, NEW h, IsFiniteSet(S),
         Folds(g, f, S), Folds(h, f, T)
  PROVE  \A u : u \subseteq S /\ u \subseteq T => g[u] = h[u]
<1> DEFINE Bad == {u \in SUBSET S : u \subseteq T /\ g[u] # h[u]}
<1> SUFFICES ASSUME Bad # {} PROVE FALSE
  OBVIOUS
<1>1. PICK u \in Bad : \A v \in Bad : ~ (v \subseteq u /\ v # u)
  <2>1. Bad \subseteq SUBSET S
    OBVIOUS
  <2> HIDE DEF Bad
  <2> QED
    BY <2>1, SmallestBad
<1>2. u # {}
  BY <1>1, FoldValue
<1>3. u \ {Chosen(u)} \notin Bad
  BY <1>1, <1>2, ChosenIsIn
<1>4. g[u \ {Chosen(u)}] = h[u \ {Chosen(u)}]
  BY <1>1, <1>3
<1> QED
  BY <1>1, <1>2, <1>4, FoldValue

(* The CHOOSE in Total finds a fold: there is one for every finite set.        *)
LEMMA FoldExists ==
  ASSUME NEW f, NEW S, IsFiniteSet(S)
  PROVE  Folds(FoldOf(f, S), f, S)
<1> DEFINE Bad == {u \in SUBSET S : ~ Folds(FoldOf(f, u), f, u)}
<1> SUFFICES ASSUME Bad # {} PROVE FALSE
  OBVIOUS
<1>1. PICK T \in Bad : \A v \in Bad : ~ (v \subseteq T /\ v # T)
  <2>1. Bad \subseteq SUBSET S
    OBVIOUS
  <2> HIDE DEF Bad
  <2> QED
    BY <2>1, SmallestBad
<1>2. \A u : u \subseteq T /\ u # T => Folds(FoldOf(f, u), f, u)
  BY <1>1
<1> DEFINE F(t) == FoldOf(f, t \ {Chosen(t)})[t \ {Chosen(t)}]
           body(t) == IF t = {} THEN 0 ELSE f[Chosen(t)] + F(t)
           h == [t \in SUBSET T |-> body(t)]
<1>3. ASSUME NEW t, t \subseteq T, t # {}
      PROVE  h[t \ {Chosen(t)}] = F(t)
  <2> DEFINE u == t \ {Chosen(t)}
  <2>1. u \subseteq T /\ u # T /\ u \in SUBSET T
    BY <1>3, ChosenIsIn
  <2>2. Folds(FoldOf(f, u), f, u)
    BY <2>1, <1>2
  <2>3. CASE u = {}
    BY <2>1, <2>2, <2>3, FoldValue
  <2>4. CASE u # {}
    <3> DEFINE w == u \ {Chosen(u)}
    <3>1. w \subseteq u /\ w \subseteq T /\ w # T
      BY <2>1
    <3>2. Folds(FoldOf(f, w), f, w)
      BY <3>1, <1>2
    <3>3. IsFiniteSet(u)
      BY <2>1, <1>1, FS_Subset
    <3>4. FoldOf(f, u)[w] = FoldOf(f, w)[w]
      <4> HIDE DEF u, w
      <4> QED
        BY <3>1, <3>2, <3>3, <2>2, FoldsAgree
    <3>5. FoldOf(f, u)[u] = f[Chosen(u)] + FoldOf(f, u)[w]
      <4> HIDE DEF u
      <4> QED
        BY <2>2, <2>4, FoldValue
    <3>6. h[u] = f[Chosen(u)] + FoldOf(f, w)[w]
      BY <2>1, <2>4
    <3> QED
      BY <3>4, <3>5, <3>6
  <2> QED
    BY <2>3, <2>4
<1>4. \A t \in SUBSET T : body(t) = IF t = {} THEN 0 ELSE f[Chosen(t)] + h[t \ {Chosen(t)}]
  BY <1>3
<1>5. Folds(h, f, T)
  <2> HIDE DEF F
  <2>1. h = [t \in SUBSET T |-> IF t = {} THEN 0 ELSE f[Chosen(t)] + h[t \ {Chosen(t)}]]
    BY <1>4
  <2> QED
    BY <2>1 DEF Folds
<1>6. Folds(FoldOf(f, T), f, T)
  BY <1>5 DEF FoldOf
<1> QED
  BY <1>1, <1>6

SumOver(f, S) == FoldOf(f, S)[S]

LEMMA SumStep ==
  ASSUME NEW f, NEW S, IsFiniteSet(S)
  PROVE  /\ S = {} => SumOver(f, S) = 0
         /\ S # {} => SumOver(f, S) = f[Chosen(S)] + SumOver(f, S \ {Chosen(S)})
<1>1. Folds(FoldOf(f, S), f, S)
  BY FoldExists
<1>2. S = {} => SumOver(f, S) = 0
  BY <1>1, FoldValue DEF SumOver
<1>3. ASSUME S # {}
      PROVE  SumOver(f, S) = f[Chosen(S)] + SumOver(f, S \ {Chosen(S)})
  <2> DEFINE u == S \ {Chosen(S)}
  <2>1. u \subseteq S /\ IsFiniteSet(u)
    BY FS_Subset
  <2>2. FoldOf(f, S)[S] = f[Chosen(S)] + FoldOf(f, S)[u]
    BY <1>1, <1>3, FoldValue
  <2> HIDE DEF u
  <2>3. Folds(FoldOf(f, u), f, u)
    BY <2>1, FoldExists
  <2>4. FoldOf(f, S)[u] = FoldOf(f, u)[u]
    BY <1>1, <2>1, <2>3, FoldsAgree
  <2> QED
    BY <2>2, <2>4 DEF SumOver, u
<1> QED
  BY <1>2, <1>3

LEMMA TotalIsSum ==
  ASSUME NEW f
  PROVE  Total(f) = SumOver(f, DOMAIN f)
BY TotalUnfolds DEF SumOver

LEMMA SumType ==
  ASSUME NEW f, NEW S, IsFiniteSet(S), \A x \in S : f[x] \in Int
  PROVE  SumOver(f, S) \in Int
<1> DEFINE Bad == {u \in SUBSET S : SumOver(f, u) \notin Int}
<1> SUFFICES ASSUME Bad # {} PROVE FALSE
  OBVIOUS
<1>1. PICK T \in Bad : \A v \in Bad : ~ (v \subseteq T /\ v # T)
  <2>1. Bad \subseteq SUBSET S
    OBVIOUS
  <2> HIDE DEF Bad
  <2> QED
    BY <2>1, SmallestBad
<1>2. IsFiniteSet(T)
  BY <1>1, FS_Subset
<1>3. T # {}
  <2>1. SumOver(f, T) # 0
    BY <1>1
  <2> QED
    BY <2>1, <1>2, SumStep
<1>4. SumOver(f, T \ {Chosen(T)}) \in Int
  BY <1>1, <1>3, ChosenIsIn
<1>5. f[Chosen(T)] \in Int
  BY <1>1, <1>3, ChosenIsIn
<1> QED
  BY <1>1, <1>2, <1>3, <1>4, <1>5, SumStep

(* Any element may be taken out of a sum, not only the one the fold chose.     *)
LEMMA SumOne ==
  ASSUME NEW f, NEW S, IsFiniteSet(S), \A x \in S : f[x] \in Int, NEW a \in S
  PROVE  SumOver(f, S) = f[a] + SumOver(f, S \ {a})
<1> DEFINE Bad == {u \in SUBSET S : \E b \in u : SumOver(f, u) # f[b] + SumOver(f, u \ {b})}
<1> SUFFICES ASSUME Bad # {} PROVE FALSE
  OBVIOUS
<1>1. PICK T \in Bad : \A v \in Bad : ~ (v \subseteq T /\ v # T)
  <2>1. Bad \subseteq SUBSET S
    OBVIOUS
  <2> HIDE DEF Bad
  <2> QED
    BY <2>1, SmallestBad
<1>2. PICK b \in T : SumOver(f, T) # f[b] + SumOver(f, T \ {b})
  BY <1>1
<1> DEFINE p == Chosen(T)
           U == T \ {p}
           V == T \ {b}
           W == (T \ {p}) \ {b}
<1>3. /\ IsFiniteSet(T) /\ T \subseteq S /\ T # {} /\ p \in T
      /\ U \subseteq T /\ U # T /\ V \subseteq T /\ V # T
      /\ W \subseteq S /\ W = (T \ {b}) \ {p}
  BY <1>1, <1>2, FS_Subset, ChosenIsIn
<1>4. SumOver(f, T) = f[p] + SumOver(f, U)
  BY <1>3, SumStep
<1>5. p # b
  BY <1>2, <1>4
<1>6. SumOver(f, U) = f[b] + SumOver(f, W)
  BY <1>1, <1>3, <1>5
<1>7. SumOver(f, V) = f[p] + SumOver(f, W)
  BY <1>1, <1>3, <1>5
<1>8. f[b] \in Int /\ f[p] \in Int /\ SumOver(f, W) \in Int
  <2>1. IsFiniteSet(W)
    BY <1>3, FS_Subset
  <2> QED
    BY <2>1, <1>3, SumType
<1> HIDE DEF p, U, W
<1> QED
  BY <1>2, <1>4, <1>6, <1>7, <1>8

(* The values of one function are those of two others, added up.               *)
LEMMA SumPlus ==
  ASSUME NEW f, NEW g, NEW h, NEW S, IsFiniteSet(S),
         \A x \in S : f[x] \in Int /\ g[x] \in Int /\ h[x] = f[x] + g[x]
  PROVE  SumOver(h, S) = SumOver(f, S) + SumOver(g, S)
<1> DEFINE Bad == {u \in SUBSET S : SumOver(h, u) # SumOver(f, u) + SumOver(g, u)}
<1> SUFFICES ASSUME Bad # {} PROVE FALSE
  OBVIOUS
<1>1. PICK T \in Bad : \A v \in Bad : ~ (v \subseteq T /\ v # T)
  <2>1. Bad \subseteq SUBSET S
    OBVIOUS
  <2> HIDE DEF Bad
  <2> QED
    BY <2>1, SmallestBad
<1> DEFINE p == Chosen(T)
           U == T \ {p}
<1>2. IsFiniteSet(T) /\ T \subseteq S /\ IsFiniteSet(U)
  BY <1>1, FS_Subset
<1>3. T # {}
  <2> SUFFICES ASSUME T = {} PROVE FALSE
    OBVIOUS
  <2>1. SumOver(h, T) = 0 /\ SumOver(f, T) = 0 /\ SumOver(g, T) = 0
    BY <1>2, SumStep
  <2> QED
    BY <2>1, <1>1
<1>4. p \in S /\ U \in SUBSET S /\ U \subseteq T /\ U # T
  BY <1>2, <1>3, ChosenIsIn
<1>5. SumOver(h, U) = SumOver(f, U) + SumOver(g, U)
  BY <1>1, <1>4
<1>6. /\ SumOver(h, T) = h[p] + SumOver(h, U)
      /\ SumOver(f, T) = f[p] + SumOver(f, U)
      /\ SumOver(g, T) = g[p] + SumOver(g, U)
  BY <1>2, <1>3, SumStep
<1> HIDE DEF p, U
<1>7. SumOver(f, U) \in Int /\ SumOver(g, U) \in Int
  BY <1>2, <1>4, SumType
<1>8. SumOver(h, T) = SumOver(f, T) + SumOver(g, T)
  BY <1>4, <1>5, <1>6, <1>7
<1> QED
  BY <1>1, <1>8

LEMMA SumLess ==
  ASSUME NEW f, NEW g, NEW S, IsFiniteSet(S),
         \A x \in S : f[x] \in Int /\ g[x] \in Int /\ f[x] <= g[x]
  PROVE  SumOver(f, S) <= SumOver(g, S)
<1> DEFINE Bad == {u \in SUBSET S : ~ (SumOver(f, u) <= SumOver(g, u))}
<1> SUFFICES ASSUME Bad # {} PROVE FALSE
  OBVIOUS
<1>1. PICK T \in Bad : \A v \in Bad : ~ (v \subseteq T /\ v # T)
  <2>1. Bad \subseteq SUBSET S
    OBVIOUS
  <2> HIDE DEF Bad
  <2> QED
    BY <2>1, SmallestBad
<1> DEFINE p == Chosen(T)
           U == T \ {p}
<1>2. IsFiniteSet(T) /\ T \subseteq S /\ IsFiniteSet(U)
  BY <1>1, FS_Subset
<1>3. T # {}
  <2> SUFFICES ASSUME T = {} PROVE FALSE
    OBVIOUS
  <2>1. SumOver(f, T) = 0 /\ SumOver(g, T) = 0
    BY <1>2, SumStep
  <2> QED
    BY <2>1, <1>1
<1>4. p \in S /\ U \in SUBSET S /\ U \subseteq T /\ U # T
  BY <1>2, <1>3, ChosenIsIn
<1>5. SumOver(f, U) <= SumOver(g, U)
  BY <1>1, <1>4
<1>6. /\ SumOver(f, T) = f[p] + SumOver(f, U)
      /\ SumOver(g, T) = g[p] + SumOver(g, U)
  BY <1>2, <1>3, SumStep
<1> HIDE DEF p, U
<1>7. SumOver(f, U) \in Int /\ SumOver(g, U) \in Int
  BY <1>2, <1>4, SumType
<1>8. SumOver(f, T) <= SumOver(g, T)
  BY <1>4, <1>5, <1>6, <1>7
<1> QED
  BY <1>1, <1>8

LEMMA SumSame ==
  ASSUME NEW f, NEW g, NEW S, IsFiniteSet(S), \A x \in S : f[x] \in Int /\ g[x] = f[x]
  PROVE  SumOver(g, S) = SumOver(f, S)
<1>1. SumOver(f, S) <= SumOver(g, S) /\ SumOver(g, S) <= SumOver(f, S)
  BY SumLess
<1>2. SumOver(f, S) \in Int /\ SumOver(g, S) \in Int
  BY SumType
<1> QED
  BY <1>1, <1>2

LEMMA SumZero ==
  ASSUME NEW f, NEW S, IsFiniteSet(S), \A x \in S : f[x] = 0
  PROVE  SumOver(f, S) = 0
<1>1. SumOver(f, S) = SumOver(f, S) + SumOver(f, S)
  BY SumPlus
<1>2. SumOver(f, S) \in Int
  BY SumType
<1>3. \A n \in Int : n = n + n => n = 0
  OBVIOUS
<1> QED
  BY <1>1, <1>2, <1>3

LEMMA SumNat ==
  ASSUME NEW f, NEW S, IsFiniteSet(S), \A x \in S : f[x] \in Nat
  PROVE  SumOver(f, S) \in Nat /\ \A a \in S : f[a] <= SumOver(f, S)
<1>1. ASSUME NEW T \in SUBSET S
      PROVE  SumOver(f, T) \in Nat
  <2> DEFINE z == [x \in T |-> 0]
  <2>1. IsFiniteSet(T)
    BY FS_Subset
  <2>2. \A x \in T : z[x] = 0 /\ z[x] \in Int /\ f[x] \in Int /\ z[x] <= f[x]
    OBVIOUS
  <2> HIDE DEF z
  <2>3. SumOver(z, T) = 0
    BY <2>1, <2>2, SumZero
  <2>4. SumOver(z, T) <= SumOver(f, T)
    BY <2>1, <2>2, SumLess
  <2>5. SumOver(f, T) \in Int
    BY <2>1, <2>2, SumType
  <2> QED
    BY <2>3, <2>4, <2>5
<1>2. ASSUME NEW a \in S
      PROVE  f[a] <= SumOver(f, S)
  <2>1. SumOver(f, S) = f[a] + SumOver(f, S \ {a})
    BY SumOne
  <2>2. SumOver(f, S \ {a}) \in Nat
    BY <1>1
  <2> QED
    BY <2>1, <2>2
<1> QED
  BY <1>1, <1>2

(* What is zero outside a part sums to that part.                              *)
LEMMA SumPart ==
  ASSUME NEW f, NEW S, NEW T, IsFiniteSet(T), S \subseteq T,
         \A x \in S : f[x] \in Int, \A x \in T \ S : f[x] = 0
  PROVE  SumOver(f, T) = SumOver(f, S)
<1> DEFINE Bad == {u \in SUBSET T : SumOver(f, u) # SumOver(f, u \cap S)}
<1>1. SUFFICES ASSUME Bad # {} PROVE FALSE
  <2>1. T \notin Bad
    BY <1>1
  <2>2. T \cap S = S
    OBVIOUS
  <2> QED
    BY <2>1, <2>2
<1>2. PICK U \in Bad : \A v \in Bad : ~ (v \subseteq U /\ v # U)
  <2>1. Bad \subseteq SUBSET T
    OBVIOUS
  <2> HIDE DEF Bad
  <2> QED
    BY <1>1, <2>1, SmallestBad
<1>3. U \subseteq T /\ IsFiniteSet(U) /\ \A x \in U : f[x] \in Int
  BY <1>2, FS_Subset
<1>4. PICK a \in U : a \notin S
  <2>1. U \cap S # U
    BY <1>2
  <2> QED
    BY <2>1
<1>5. SumOver(f, U) = f[a] + SumOver(f, U \ {a})
  BY <1>3, SumOne
<1>6. U \ {a} \in SUBSET T /\ U \ {a} \subseteq U /\ U \ {a} # U
      /\ (U \ {a}) \cap S = U \cap S
  BY <1>3, <1>4
<1>7. SumOver(f, U \ {a}) = SumOver(f, U \cap S)
  BY <1>2, <1>6
<1>8. SumOver(f, U \ {a}) \in Int
  BY <1>3, SumType, FS_Subset
<1>9. f[a] = 0
  BY <1>3, <1>4
<1> QED
  BY <1>2, <1>5, <1>7, <1>8, <1>9

LEMMA MinMax ==
  \A a, b \in Int : /\ Min({a, b}) = IF a <= b THEN a ELSE b
                    /\ Max({a, b}) = IF a <= b THEN b ELSE a
<1> SUFFICES ASSUME NEW a \in Int, NEW b \in Int
             PROVE  /\ Min({a, b}) = IF a <= b THEN a ELSE b
                    /\ Max({a, b}) = IF a <= b THEN b ELSE a
  OBVIOUS
<1>1. \E x \in {a, b} : \A y \in {a, b} : x <= y
  OBVIOUS
<1>2. \E x \in {a, b} : \A y \in {a, b} : x >= y
  OBVIOUS
<1>3. Min({a, b}) \in {a, b} /\ \A y \in {a, b} : Min({a, b}) <= y
  BY <1>1 DEF Min
<1>4. Max({a, b}) \in {a, b} /\ \A y \in {a, b} : Max({a, b}) >= y
  BY <1>2 DEF Max
<1> QED
  BY <1>3, <1>4

(* What the next in a row gives once those ahead have given s of n.            *)
Lesser(a, b) == Min({a, b})

LEMMA Pouring ==
  ASSUME NEW r \in Nat, NEW n \in Nat, NEW s \in Nat
  PROVE  /\ Share(r, s, n) \in Nat /\ Share(r, s, n) <= r
         /\ Lesser(n, s) \in Nat /\ Lesser(n, s) = IF n <= s THEN n ELSE s
         /\ Lesser(n, r + s) = Share(r, s, n) + Lesser(n, s)
<1>1. PICK d \in Int : d = n - s
  OBVIOUS
<1>2. PICK m \in Int : m = Max({0, d}) /\ m = IF 0 <= d THEN d ELSE 0
  BY MinMax
<1>3. PICK g \in Int : g = Min({r, m}) /\ g = IF r <= m THEN r ELSE m
  BY MinMax
<1>4. PICK e \in Int : e = r + s
  OBVIOUS
<1>5. /\ Min({n, s}) = IF n <= s THEN n ELSE s
      /\ Min({n, e}) = IF n <= e THEN n ELSE e
  BY <1>4, MinMax
<1> QED
  BY <1>1, <1>2, <1>3, <1>4, <1>5 DEF Share, Lesser

(* What a finite set in a row gives, one after the other, up to an amount.     *)
LEMMA Waterfall ==
  ASSUME NEW S, IsFiniteSet(S), NEW rem, \A x \in S : rem[x] \in Nat,
         NEW ahead,
         \A x \in S : ahead[x] \subseteq S /\ x \notin ahead[x],
         \A x, y \in S : x = y \/ x \in ahead[y] \/ y \in ahead[x],
         \A x, y \in S : x \in ahead[y] => ahead[x] \subseteq ahead[y],
         NEW n \in Nat, NEW f,
         \A x \in S : f[x] = Share(rem[x], SumOver(rem, ahead[x]), n)
  PROVE  SumOver(f, S) = Lesser(n, SumOver(rem, S))
<1> DEFINE Bad == {T \in SUBSET S : /\ \A x \in T : ahead[x] \subseteq T
                                   /\ SumOver(f, T) # Lesser(n, SumOver(rem, T))}
<1> SUFFICES ASSUME Bad # {} PROVE FALSE
  OBVIOUS
<1>1. PICK T \in Bad : \A v \in Bad : ~ (v \subseteq T /\ v # T)
  <2>1. Bad \subseteq SUBSET S
    OBVIOUS
  <2> HIDE DEF Bad
  <2> QED
    BY <2>1, SmallestBad
<1>2. T \subseteq S /\ IsFiniteSet(T) /\ \A x \in T : ahead[x] \subseteq T
  BY <1>1, FS_Subset
<1>3. T # {}
  <2> SUFFICES ASSUME T = {} PROVE FALSE
    OBVIOUS
  <2>1. SumOver(f, T) = 0 /\ SumOver(rem, T) = 0
    BY <1>2, SumStep
  <2>2. Lesser(n, 0) = 0
    BY MinMax DEF Lesser
  <2> QED
    BY <2>1, <2>2, <1>1
<1>4. PICK m \in T : \A k \in T : k = m \/ k \in ahead[m]
  <2> DEFINE Later(k) == {j \in T : k \in ahead[j]}
             Tails == {Later(k) : k \in T}
  <2>1. Tails \subseteq SUBSET T /\ Tails # {}
    <3>1. \A k \in T : Later(k) \subseteq T
      OBVIOUS
    <3> HIDE DEF Later
    <3> QED
      BY <1>3, <3>1
  <2>2. PICK U \in Tails : \A v \in Tails : ~ (v \subseteq U /\ v # U)
    <3> HIDE DEF Tails
    <3> QED
      BY <1>2, <2>1, SmallestBad
  <2>3. PICK m \in T : U = Later(m)
    OBVIOUS
  <2>4. ASSUME NEW j \in Later(m) PROVE FALSE
    <3>1. j \in T /\ m \in ahead[j]
      OBVIOUS
    <3>2. Later(j) \subseteq Later(m)
      <4> SUFFICES ASSUME NEW i \in T, j \in ahead[i] PROVE m \in ahead[i]
        OBVIOUS
      <4> QED
        BY <3>1, <1>2
    <3>3. j \notin Later(j) /\ j \in Later(m)
      BY <3>1, <1>2
    <3>4. Later(j) \in Tails
      BY <3>1
    <3> HIDE DEF Later, Tails
    <3> QED
      BY <2>2, <2>3, <3>2, <3>3, <3>4
  <2>5. \A k \in T : k = m \/ k \in ahead[m]
    BY <2>4, <1>2
  <2> QED
    BY <2>5
<1> DEFINE U == T \ {m}
<1>5. ahead[m] = U
  BY <1>2, <1>4
<1>6. U \in SUBSET S /\ U \subseteq T /\ U # T /\ \A x \in U : ahead[x] \subseteq U
  BY <1>2, <1>4, <1>5
<1>7. SumOver(f, U) = Lesser(n, SumOver(rem, U))
  BY <1>1, <1>6
<1>8. IsFiniteSet(U)
  BY <1>2, FS_Subset
<1>9. SumOver(rem, U) \in Nat
  BY <1>8, <1>6, SumNat
<1>10. \A x \in T : f[x] \in Int
  <2> SUFFICES ASSUME NEW x \in T PROVE f[x] \in Int
    OBVIOUS
  <2>1. ahead[x] \subseteq S /\ IsFiniteSet(ahead[x])
    BY <1>2, FS_Subset
  <2>2. SumOver(rem, ahead[x]) \in Nat
    BY <2>1, SumNat
  <2>3. rem[x] \in Nat /\ f[x] = Share(rem[x], SumOver(rem, ahead[x]), n)
    BY <1>2
  <2>4. \A r, s \in Nat : Share(r, s, n) \in Int
    BY Pouring
  <2>5. Share(rem[x], SumOver(rem, ahead[x]), n) \in Int
    BY <2>2, <2>3, <2>4, Zenon
  <2> QED
    BY <2>3, <2>5
<1>11. SumOver(f, T) = f[m] + SumOver(f, U) /\ SumOver(rem, T) = rem[m] + SumOver(rem, U)
  BY <1>2, <1>10, SumOne
<1>12. rem[m] \in Nat /\ f[m] = Share(rem[m], SumOver(rem, U), n)
  BY <1>2, <1>5
<1> HIDE DEF U
<1>13. Lesser(n, rem[m] + SumOver(rem, U)) = f[m] + Lesser(n, SumOver(rem, U))
  <2>1. \A r, s \in Nat : Lesser(n, r + s) = Share(r, s, n) + Lesser(n, s)
    BY Pouring
  <2> QED
    BY <1>9, <1>12, <2>1, Zenon
<1>14. SumOver(f, T) = Lesser(n, SumOver(rem, T))
  BY <1>7, <1>11, <1>13
<1> QED
  BY <1>1, <1>14

-----------------------------------------------------------------------------
(* Sums of the figures of lots and of holds.                                   *)

(* The same facts of Total.                                                    *)
LEMMA TotalType ==
  ASSUME NEW f, IsFiniteSet(DOMAIN f)
  PROVE  /\ (\A x \in DOMAIN f : f[x] \in Int) => Total(f) \in Int
         /\ (\A x \in DOMAIN f : f[x] \in Nat) =>
              Total(f) \in Nat /\ \A a \in DOMAIN f : f[a] <= Total(f)
BY TotalIsSum, SumType, SumNat

LEMMA TotalPlus ==
  ASSUME NEW f, NEW g, NEW h, IsFiniteSet(DOMAIN f), DOMAIN g = DOMAIN f, DOMAIN h = DOMAIN f,
         \A x \in DOMAIN f : f[x] \in Int /\ g[x] \in Int /\ h[x] = f[x] + g[x]
  PROVE  Total(h) = Total(f) + Total(g)
BY TotalIsSum, SumPlus

LEMMA TotalLess ==
  ASSUME NEW f, NEW g, IsFiniteSet(DOMAIN f), DOMAIN g = DOMAIN f,
         \A x \in DOMAIN f : f[x] \in Int /\ g[x] \in Int /\ f[x] <= g[x]
  PROVE  Total(f) <= Total(g)
BY TotalIsSum, SumLess

LEMMA TotalWithin ==
  ASSUME NEW f, NEW g, IsFiniteSet(DOMAIN g), DOMAIN f \subseteq DOMAIN g,
         \A x \in DOMAIN f : f[x] \in Int /\ g[x] = f[x],
         \A x \in DOMAIN g \ DOMAIN f : g[x] = 0
  PROVE  Total(g) = Total(f)
<1>1. SumOver(g, DOMAIN g) = SumOver(g, DOMAIN f)
  BY SumPart
<1>2. IsFiniteSet(DOMAIN f)
  BY FS_Subset
<1>3. SumOver(g, DOMAIN f) = SumOver(f, DOMAIN f)
  BY <1>2, SumSame
<1> QED
  BY <1>1, <1>3, TotalIsSum

LEMMA TotalZero ==
  ASSUME NEW f, IsFiniteSet(DOMAIN f), \A x \in DOMAIN f : f[x] = 0
  PROVE  Total(f) = 0
BY TotalIsSum, SumZero

LEMMA TotalGrows ==
  ASSUME NEW f, NEW g, NEW a, IsFiniteSet(DOMAIN f), DOMAIN g = DOMAIN f \cup {a}, a \notin DOMAIN f,
         \A x \in DOMAIN f : f[x] \in Int /\ g[x] = f[x], g[a] \in Int
  PROVE  Total(g) = Total(f) + g[a]
<1>1. IsFiniteSet(DOMAIN g)
  BY FS_AddElement
<1>2. SumOver(g, DOMAIN g) = g[a] + SumOver(g, DOMAIN g \ {a})
  BY <1>1, SumOne
<1>3. DOMAIN g \ {a} = DOMAIN f
  OBVIOUS
<1>4. SumOver(g, DOMAIN f) = SumOver(f, DOMAIN f) /\ SumOver(f, DOMAIN f) \in Int
  BY SumSame, SumType
<1> QED
  BY <1>2, <1>3, <1>4, TotalIsSum

LEMMA TotalChanges ==
  ASSUME NEW f, NEW g, NEW a \in DOMAIN f, IsFiniteSet(DOMAIN f), DOMAIN g = DOMAIN f,
         \A x \in DOMAIN f : f[x] \in Int /\ g[x] \in Int /\ (x # a => g[x] = f[x])
  PROVE  Total(g) = Total(f) - f[a] + g[a]
<1>1. /\ SumOver(g, DOMAIN f) = g[a] + SumOver(g, DOMAIN f \ {a})
      /\ SumOver(f, DOMAIN f) = f[a] + SumOver(f, DOMAIN f \ {a})
  BY SumOne
<1>2. IsFiniteSet(DOMAIN f \ {a})
  BY FS_Subset
<1>3. SumOver(g, DOMAIN f \ {a}) = SumOver(f, DOMAIN f \ {a}) /\ SumOver(f, DOMAIN f \ {a}) \in Int
  BY <1>2, SumSame, SumType
<1> QED
  BY <1>1, <1>3, TotalIsSum

-----------------------------------------------------------------------------
(* The books of a wallet.                                                      *)

LotFields == {"kind", "initial", "remaining", "granted", "expires", "percent", "every", "periods",
              "revoked"}

LotTypes(lot) ==
  /\ DOMAIN lot = LotFields
  /\ lot.initial \in Nat /\ lot.remaining \in Nat /\ lot.expires \in Nat
  /\ lot.percent \in Nat /\ lot.every \in Nat \ {0} /\ lot.periods \in Nat
  /\ lot.granted \in Nat /\ lot.granted <= now

(* No period was applied before it was due.                                    *)
LotShape(lot) == LotTypes(lot) /\ lot.periods <= PeriodsDue(lot)

LotsListed(v) ==
  \E n \in Nat : n <= MaxLots /\ v.lots = [l \in 1 .. n |-> v.lots[l]]

(* What a hold's charge took from the lots and gave back to them.              *)
Charge(v, hold) ==
  /\ hold.amount \in Nat /\ hold.owed \in Nat
  /\ hold.taken \in [LotIds -> Nat] /\ hold.back \in [LotIds -> Nat]
  /\ \A l \in LotIds :
       /\ hold.back[l] <= hold.taken[l]
       /\ hold.taken[l] > 0 => l \in DOMAIN v.lots /\ hold.state = "captured" /\ hold.kind = "credits"

(* What charges still have of a lot.                                           *)
Out(v, l) == Total([h \in DOMAIN v.holds |-> v.holds[h].taken[l] - v.holds[h].back[l]])

(* The figures of a wallet agree with its lots and holds.                      *)
Balanced(v) ==
  /\ now \in Nat /\ LotsListed(v)
  /\ \A l \in DOMAIN v.lots : LotShape(v.lots[l])
  /\ \A h \in DOMAIN v.holds : Charge(v, v.holds[h])
  /\ v.balance = Credits(v) /\ v.held = HeldCredits(v) /\ v.debt \in Nat
  /\ \A l \in DOMAIN v.lots : v.lots[l].remaining + Out(v, l) <= v.lots[l].initial

Decayed(lot) ==
  lot.percent # 0 => lot.remaining <= AllowedAfter(lot.initial, lot.percent, lot.periods)

Worn(v) ==
  \/ \E l \in DOMAIN v.lots : v.lots[l].periods > 0 \/ Lapsed(v.lots[l])
  \/ \E h \in DOMAIN v.holds : v.holds[h].late = TRUE

Covered(v) == Worn(v) \/ (v.held <= v.balance /\ v.debt = 0)

Accounted(v) == Balanced(v) /\ Covered(v) /\ \A l \in DOMAIN v.lots : Decayed(v.lots[l])

(* No more is drawn from a lot than it has.                                    *)
IsCut(v, cut) ==
  /\ DOMAIN v.lots \subseteq DOMAIN cut /\ DOMAIN cut \subseteq LotIds
  /\ \A l \in DOMAIN cut : cut[l] \in Nat
  /\ \A l \in DOMAIN v.lots : cut[l] <= v.lots[l].remaining
  /\ \A l \in DOMAIN cut \ DOMAIN v.lots : cut[l] = 0

(* A transaction that only lowers what lots have left.                         *)
Drawn(v, w, cut) ==
  /\ w.holds = v.holds /\ w.held = v.held /\ w.balance = v.balance - Total(cut)
  /\ w.lots = [l \in DOMAIN v.lots |-> w.lots[l]]
  /\ \A l \in DOMAIN v.lots :
       /\ DOMAIN w.lots[l] = DOMAIN v.lots[l]
       /\ w.lots[l].remaining = v.lots[l].remaining - cut[l]
       /\ \A f \in LotFields \ {"remaining"} : w.lots[l][f] = v.lots[l][f]

LEMMA LotsAreFew ==
  ASSUME NEW v, LotsListed(v)
  PROVE  DOMAIN v.lots \subseteq LotIds /\ IsFiniteSet(DOMAIN v.lots) /\ IsFiniteSet(LotIds)
<1>1. PICK n \in Nat : n <= MaxLots /\ DOMAIN v.lots = 1 .. n
  BY DEF LotsListed
<1>2. IsFiniteSet(1 .. n) /\ IsFiniteSet(1 .. MaxLots)
  BY <1>1, FS_Interval, WalletAssumption
<1> QED
  BY <1>1, <1>2, WalletAssumption DEF LotIds

LEMMA CreditsType ==
  ASSUME NEW v, Balanced(v)
  PROVE  Credits(v) \in Nat /\ \A l \in DOMAIN v.lots : v.lots[l].remaining <= Credits(v)
<1> DEFINE f == [l \in DOMAIN v.lots |-> v.lots[l].remaining]
<1>1. DOMAIN f = DOMAIN v.lots /\ \A l \in DOMAIN v.lots : f[l] \in Nat /\ f[l] = v.lots[l].remaining
  BY DEF Balanced, LotShape, LotTypes
<1>2. IsFiniteSet(DOMAIN v.lots) /\ Credits(v) = Total(f)
  BY LotsAreFew DEF Balanced, Credits
<1> HIDE DEF f
<1> QED
  BY <1>1, <1>2, TotalType

LEMMA OutType ==
  ASSUME NEW v, Sound(v), NEW l \in DOMAIN v.lots, Balanced(v)
  PROVE  Out(v, l) \in Nat /\ \A h \in DOMAIN v.holds :
           v.holds[h].taken[l] - v.holds[h].back[l] <= Out(v, l)
<1> DEFINE f == [h \in DOMAIN v.holds |-> v.holds[h].taken[l] - v.holds[h].back[l]]
<1>1. l \in LotIds
  BY LotsAreFew DEF Balanced
<1>2. \A h \in DOMAIN v.holds : /\ v.holds[h].taken[l] \in Nat /\ v.holds[h].back[l] \in Nat
                                /\ v.holds[h].back[l] <= v.holds[h].taken[l]
  BY <1>1 DEF Balanced, Charge
<1>3. DOMAIN f = DOMAIN v.holds /\ \A h \in DOMAIN v.holds :
        f[h] \in Nat /\ f[h] = v.holds[h].taken[l] - v.holds[h].back[l]
  BY <1>2
<1>4. Out(v, l) = Total(f)
  BY DEF Out
<1> HIDE DEF f
<1> QED
  BY <1>3, <1>4, TotalType, HoldsAreFinite

(* What holds promise is a sum over all of them.                               *)
Promise(v) ==
  [h \in DOMAIN v.holds |->
     IF v.holds[h].state = "held" /\ v.holds[h].kind = "credits" THEN v.holds[h].amount ELSE 0]

LEMMA HeldIsPromised ==
  ASSUME NEW v, Sound(v), \A h \in DOMAIN v.holds : v.holds[h].amount \in Nat
  PROVE  /\ HeldCredits(v) = Total(Promise(v)) /\ DOMAIN Promise(v) = DOMAIN v.holds
         /\ HeldCredits(v) \in Nat
         /\ \A h \in DOMAIN v.holds : Promise(v)[h] \in Nat /\ Promise(v)[h] <= HeldCredits(v)
<1> DEFINE f == [h \in Open(v) |-> v.holds[h].amount]
<1>1. DOMAIN Promise(v) = DOMAIN v.holds /\ \A h \in DOMAIN v.holds : Promise(v)[h] \in Nat
  BY DEF Promise
<1>2. /\ DOMAIN f \subseteq DOMAIN Promise(v)
      /\ \A h \in DOMAIN f : f[h] \in Int /\ Promise(v)[h] = f[h]
      /\ \A h \in DOMAIN Promise(v) \ DOMAIN f : Promise(v)[h] = 0
  BY DEF Promise, Open
<1>3. IsFiniteSet(DOMAIN Promise(v)) /\ HeldCredits(v) = Total(f)
  BY <1>1, HoldsAreFinite DEF HeldCredits
<1> HIDE DEF f
<1>4. Total(Promise(v)) = Total(f)
  BY <1>2, <1>3, TotalWithin
<1>5. Total(Promise(v)) \in Nat /\ \A h \in DOMAIN v.holds : Promise(v)[h] <= Total(Promise(v))
  BY <1>1, <1>3, TotalType
<1> QED
  BY <1>1, <1>3, <1>4, <1>5

LEMMA HeldType ==
  ASSUME NEW v, Sound(v), Balanced(v)
  PROVE  HeldCredits(v) \in Nat
BY HeldIsPromised DEF Balanced, Charge

LEMMA DrawDraws ==
  ASSUME NEW v, NEW cut, DOMAIN v = WalletFields, \A l \in DOMAIN v.lots : DOMAIN v.lots[l] = LotFields
  PROVE  Drawn(v, Draw(v, cut), cut) /\ Draw(v, cut).debt = v.debt
BY DEF Draw, Drawn, WalletFields, LotFields

LEMMA SameOut ==
  ASSUME NEW v, NEW w, w.holds = v.holds
  PROVE  \A l : Out(w, l) = Out(v, l)
BY DEF Out

LEMMA SameHeld ==
  ASSUME NEW v, NEW w, w.holds = v.holds
  PROVE  HeldCredits(w) = HeldCredits(v)
BY DEF HeldCredits, Open

LEMMA CutTotal ==
  ASSUME NEW v, NEW cut, Balanced(v), IsCut(v, cut)
  PROVE  /\ Total(cut) \in Nat /\ Total(cut) <= Credits(v)
         /\ (\A l \in DOMAIN v.lots : cut[l] = 0) => Total(cut) = 0
<1> DEFINE f == [l \in DOMAIN v.lots |-> v.lots[l].remaining]
           g == [l \in DOMAIN v.lots |-> cut[l]]
<1>1. /\ DOMAIN f = DOMAIN v.lots /\ DOMAIN g = DOMAIN v.lots
      /\ \A l \in DOMAIN v.lots : f[l] \in Int /\ g[l] \in Int /\ g[l] = cut[l] /\ g[l] <= f[l]
  BY DEF Balanced, LotShape, LotTypes, IsCut
<1>2. IsFiniteSet(DOMAIN v.lots) /\ IsFiniteSet(DOMAIN cut) /\ Credits(v) = Total(f)
  BY LotsAreFew, FS_Subset DEF Balanced, Credits, IsCut
<1> HIDE DEF f, g
<1>3. Total(cut) = Total(g) /\ Total(g) <= Total(f)
  BY <1>1, <1>2, TotalWithin, TotalLess DEF IsCut
<1>4. Total(cut) \in Nat
  BY <1>2, TotalType DEF IsCut
<1>5. (\A l \in DOMAIN v.lots : cut[l] = 0) => Total(g) = 0
  BY <1>1, <1>2, TotalZero
<1> QED
  BY <1>2, <1>3, <1>4, <1>5

(* The books stay balanced when lots keep what they were and get no more.      *)
LEMMA Rebalanced ==
  ASSUME NEW v, NEW w, Sound(v), Balanced(v), w.holds = v.holds, w.held = v.held,
         w.balance = Credits(w), w.debt \in Nat, w.lots = [l \in DOMAIN v.lots |-> w.lots[l]],
         \A l \in DOMAIN v.lots : /\ LotShape(w.lots[l]) /\ w.lots[l].initial = v.lots[l].initial
                                  /\ w.lots[l].remaining <= v.lots[l].remaining
  PROVE  Balanced(w)
<1>1. DOMAIN w.lots = DOMAIN v.lots
  OBVIOUS
<1>2. LotsListed(w)
  <2>1. PICK n \in Nat : n <= MaxLots /\ v.lots = [l \in 1 .. n |-> v.lots[l]]
    BY DEF Balanced, LotsListed
  <2>2. DOMAIN v.lots = 1 .. n
    BY <2>1
  <2>3. w.lots = [l \in 1 .. n |-> w.lots[l]]
    BY <2>2
  <2> QED
    BY <2>1, <2>3 DEF LotsListed
<1>3. HeldCredits(w) = HeldCredits(v) /\ \A l : Out(w, l) = Out(v, l)
  BY SameOut, SameHeld
<1>4. \A h \in DOMAIN w.holds : Charge(w, w.holds[h])
  BY <1>1 DEF Balanced, Charge
<1>5. \A l \in DOMAIN v.lots : w.lots[l].remaining + Out(w, l) <= w.lots[l].initial
  <2> SUFFICES ASSUME NEW l \in DOMAIN v.lots
               PROVE  w.lots[l].remaining + Out(v, l) <= v.lots[l].initial
    BY <1>3
  <2>1. /\ w.lots[l].remaining \in Nat /\ v.lots[l].remaining \in Nat
        /\ v.lots[l].initial \in Nat /\ w.lots[l].remaining <= v.lots[l].remaining
    BY DEF Balanced, LotShape, LotTypes
  <2>2. Out(v, l) \in Int /\ v.lots[l].remaining + Out(v, l) <= v.lots[l].initial
    BY OutType DEF Balanced
  <2> QED
    BY <2>1, <2>2
<1> QED
  BY <1>1, <1>2, <1>3, <1>4, <1>5 DEF Balanced

LEMMA DrawnBalances ==
  ASSUME NEW v, NEW w, NEW cut, Sound(v), Balanced(v), IsCut(v, cut), Drawn(v, w, cut), w.debt \in Nat
  PROVE  Balanced(w) /\ \A l \in DOMAIN w.lots : w.lots[l].remaining <= v.lots[l].remaining
<1>1. DOMAIN w.lots = DOMAIN v.lots
  BY DEF Drawn
<1>2. \A l \in DOMAIN v.lots : /\ v.lots[l].remaining \in Nat /\ cut[l] \in Nat
                               /\ cut[l] <= v.lots[l].remaining
                               /\ w.lots[l].remaining = v.lots[l].remaining - cut[l]
  BY DEF Balanced, LotShape, LotTypes, IsCut, Drawn
<1>3. \A l \in DOMAIN v.lots : /\ w.lots[l].remaining \in Nat
                               /\ w.lots[l].remaining <= v.lots[l].remaining
  BY <1>2
<1>4. \A l \in DOMAIN v.lots : LotShape(w.lots[l]) /\ w.lots[l].initial = v.lots[l].initial
  <2> SUFFICES ASSUME NEW l \in DOMAIN v.lots
               PROVE  LotShape(w.lots[l]) /\ w.lots[l].initial = v.lots[l].initial
    OBVIOUS
  <2>1. /\ DOMAIN w.lots[l] = LotFields /\ w.lots[l].initial = v.lots[l].initial
        /\ w.lots[l].expires = v.lots[l].expires /\ w.lots[l].percent = v.lots[l].percent
        /\ w.lots[l].every = v.lots[l].every /\ w.lots[l].granted = v.lots[l].granted
        /\ w.lots[l].periods = v.lots[l].periods
    BY DEF Drawn, Balanced, LotShape, LotTypes, LotFields
  <2>2. PeriodsDue(w.lots[l]) = PeriodsDue(v.lots[l])
    BY <2>1 DEF PeriodsDue
  <2> QED
    BY <1>3, <2>1, <2>2 DEF Balanced, LotShape, LotTypes
<1>5. w.balance = Credits(w)
  <2> DEFINE f == [l \in DOMAIN v.lots |-> v.lots[l].remaining]
             g == [l \in DOMAIN w.lots |-> w.lots[l].remaining]
             c == [l \in DOMAIN v.lots |-> cut[l]]
  <2>1. /\ DOMAIN f = DOMAIN v.lots /\ DOMAIN g = DOMAIN v.lots /\ DOMAIN c = DOMAIN v.lots
        /\ \A l \in DOMAIN v.lots : g[l] \in Int /\ c[l] \in Int /\ f[l] = g[l] + c[l] /\ c[l] = cut[l]
    BY <1>1, <1>2
  <2>2. IsFiniteSet(DOMAIN v.lots) /\ IsFiniteSet(DOMAIN cut)
        /\ Credits(v) = Total(f) /\ Credits(w) = Total(g)
    BY LotsAreFew, FS_Subset DEF Balanced, Credits, IsCut
  <2> HIDE DEF f, g, c
  <2>3. Total(f) = Total(g) + Total(c)
    BY <2>1, <2>2, TotalPlus
  <2>4. Total(cut) = Total(c)
    BY <2>1, <2>2, TotalWithin DEF IsCut
  <2>5. Total(g) \in Int /\ Total(c) \in Int
    BY <2>1, <2>2, TotalType
  <2> QED
    BY <2>2, <2>3, <2>4, <2>5 DEF Balanced, Drawn
<1>6. w.holds = v.holds /\ w.held = v.held /\ w.lots = [l \in DOMAIN v.lots |-> w.lots[l]]
  BY DEF Drawn
<1> QED
  BY <1>1, <1>3, <1>4, <1>5, <1>6, Rebalanced

-----------------------------------------------------------------------------
(* Spending and giving back: lots in a row pour out an amount.                 *)

LEMMA TotalOfPart ==
  ASSUME NEW f, NEW S, IsFiniteSet(S), \A x \in S : f[x] \in Int
  PROVE  Total([x \in S |-> f[x]]) = SumOver(f, S)
<1> DEFINE g == [x \in S |-> f[x]]
<1>1. DOMAIN g = S /\ \A x \in S : g[x] = f[x]
  OBVIOUS
<1> HIDE DEF g
<1>2. Total(g) = SumOver(f, S)
  BY <1>1, SumSame, TotalIsSum
<1> QED
  BY <1>2 DEF g

(* Those of S stand in a row, each behind those in ahead, and give what they   *)
(* have in rem to the amount n; cut is what each gives.                        *)
InARow(S, T, rem, ahead, n, cut) ==
  /\ IsFiniteSet(T) /\ S \subseteq T /\ \A x \in S : rem[x] \in Nat
  /\ \A x \in S : ahead[x] \subseteq S /\ x \notin ahead[x]
  /\ \A x, y \in S : x = y \/ x \in ahead[y] \/ y \in ahead[x]
  /\ \A x, y \in S : x \in ahead[y] => ahead[x] \subseteq ahead[y]
  /\ n \in Nat /\ DOMAIN cut = T /\ \A x \in T \ S : cut[x] = 0
  /\ \A x \in S : cut[x] = Share(rem[x], SumOver(rem, ahead[x]), n)

LEMMA RowGives ==
  ASSUME NEW S, NEW T, NEW rem, NEW ahead, NEW n, NEW cut, InARow(S, T, rem, ahead, n, cut)
  PROVE  /\ \A x \in T : cut[x] \in Nat
         /\ \A x \in S : cut[x] <= rem[x]
         /\ SumOver(rem, S) \in Nat
         /\ Total(cut) \in Nat /\ Total(cut) <= n
         /\ n <= SumOver(rem, S) => Total(cut) = n
<1> USE DEF InARow
<1>1. \A x \in S : SumOver(rem, ahead[x]) \in Nat
  <2> SUFFICES ASSUME NEW x \in S PROVE SumOver(rem, ahead[x]) \in Nat
    OBVIOUS
  <2>1. IsFiniteSet(ahead[x]) /\ \A k \in ahead[x] : rem[k] \in Nat
    BY FS_Subset
  <2> QED
    BY <2>1, SumNat
<1>2. IsFiniteSet(S)
  BY FS_Subset
<1>3. \A x \in S : cut[x] \in Nat /\ cut[x] <= rem[x]
  <2> SUFFICES ASSUME NEW x \in S PROVE cut[x] \in Nat /\ cut[x] <= rem[x]
    OBVIOUS
  <2>1. \A r, s \in Nat : Share(r, s, n) \in Nat /\ Share(r, s, n) <= r
    BY Pouring
  <2>2. /\ Share(rem[x], SumOver(rem, ahead[x]), n) \in Nat
        /\ Share(rem[x], SumOver(rem, ahead[x]), n) <= rem[x]
    BY <1>1, <2>1, Zenon
  <2> QED
    BY <2>2
<1>4. SumOver(cut, S) = Lesser(n, SumOver(rem, S))
  BY <1>1, <1>2, Waterfall
<1>5. Total(cut) = SumOver(cut, S)
  BY <1>3, SumPart, TotalIsSum
<1>6. SumOver(rem, S) \in Nat
  BY <1>2, SumNat
<1>7. /\ Lesser(n, SumOver(rem, S)) \in Nat
      /\ Lesser(n, SumOver(rem, S)) = IF n <= SumOver(rem, S) THEN n ELSE SumOver(rem, S)
  <2>1. \A s \in Nat : Lesser(n, s) \in Nat /\ Lesser(n, s) = IF n <= s THEN n ELSE s
    BY Pouring
  <2> QED
    BY <2>1, <1>6
<1>8. \A x \in T : cut[x] \in Nat
  BY <1>3
<1> QED
  BY <1>3, <1>4, <1>5, <1>6, <1>7, <1>8

LEMMA LotsAreOrdered ==
  ASSUME NEW v, Balanced(v)
  PROVE  \A x, y, z \in DOMAIN v.lots :
           /\ ~Sooner(v, x, x)
           /\ x = y \/ Sooner(v, x, y) \/ Sooner(v, y, x)
           /\ Sooner(v, x, y) /\ Sooner(v, y, z) => Sooner(v, x, z)
<1>1. \A l \in DOMAIN v.lots : l \in Int /\ v.lots[l].expires \in Int
  BY LotsAreFew DEF Balanced, LotShape, LotTypes, LotIds
<1> QED
  BY <1>1 DEF Sooner

(* What is spent is taken from the lots that have it, and all of the amount is *)
(* found when nothing has lapsed and the balance covers it (wallet.go,         *)
(* spendFrom).                                                                 *)
LEMMA SpendDraws ==
  ASSUME NEW v, Balanced(v), NEW n \in Nat
  PROVE  /\ IsCut(v, Spend(v, n)) /\ DOMAIN Spend(v, n) = LotIds
         /\ Total(Spend(v, n)) \in Nat /\ Total(Spend(v, n)) <= n
         /\ (\A l \in DOMAIN v.lots : ~Lapsed(v.lots[l])) /\ n <= Credits(v) => Total(Spend(v, n)) = n
<1> DEFINE S == Spendable(v)
           cut == Spend(v, n)
           rem == [l \in DOMAIN v.lots |-> v.lots[l].remaining]
           ahead == [l \in S |-> {j \in S : Sooner(v, j, l)}]
<1>1. /\ S \subseteq DOMAIN v.lots /\ S \subseteq LotIds /\ IsFiniteSet(DOMAIN v.lots)
      /\ IsFiniteSet(LotIds) /\ DOMAIN v.lots \subseteq LotIds
  BY LotsAreFew DEF Spendable, Balanced
<1>2. /\ DOMAIN rem = DOMAIN v.lots
      /\ \A l \in DOMAIN v.lots : rem[l] \in Nat /\ rem[l] = v.lots[l].remaining
      /\ Credits(v) = Total(rem)
  BY DEF Balanced, LotShape, LotTypes, Credits
<1>3. \A l \in S : ahead[l] = {j \in S : Sooner(v, j, l)}
  OBVIOUS
<1>4. /\ DOMAIN cut = LotIds
      /\ \A l \in LotIds \ S : cut[l] = 0
      /\ \A l \in S : cut[l] = Share(rem[l], SumOver(rem, ahead[l]), n)
  <2>1. \A l \in S : l \in LotIds /\ rem[l] = v.lots[l].remaining
    BY <1>1, <1>2
  <2> DEFINE Before(l) == Total([k \in {j \in S : Sooner(v, j, l)} |-> v.lots[k].remaining])
  <2>2. cut = [l \in LotIds |-> IF l \in S THEN Share(v.lots[l].remaining, Before(l), n) ELSE 0]
    BY DEF Spend
  <2>3. \A l \in S : Before(l) = SumOver(rem, ahead[l])
    <3> SUFFICES ASSUME NEW l \in S PROVE Before(l) = SumOver(rem, ahead[l])
      OBVIOUS
    <3> DEFINE A == {j \in S : Sooner(v, j, l)}
    <3>1. A \subseteq DOMAIN v.lots /\ ahead[l] = A
      BY <1>1, <1>3
    <3>2. IsFiniteSet(A) /\ \A k \in A : rem[k] \in Int
      BY <3>1, <1>1, <1>2, FS_Subset
    <3>3. [k \in A |-> v.lots[k].remaining] = [k \in A |-> rem[k]]
      BY <3>1, <1>2
    <3> HIDE DEF A, ahead, rem, S
    <3>4. Total([k \in A |-> rem[k]]) = SumOver(rem, A)
      BY <3>2, TotalOfPart
    <3> QED
      BY <3>1, <3>3, <3>4 DEF A
  <2> HIDE DEF cut, S, Before, rem, ahead
  <2> QED
    BY <2>1, <2>2, <2>3
<1> HIDE DEF S, cut, rem, ahead
<1>5. /\ \A l \in S : ahead[l] \subseteq S /\ l \notin ahead[l]
      /\ \A x, y \in S : x = y \/ x \in ahead[y] \/ y \in ahead[x]
      /\ \A x, y \in S : x \in ahead[y] => ahead[x] \subseteq ahead[y]
  BY <1>1, <1>3, LotsAreOrdered
<1>6. \A l \in S : rem[l] \in Nat
  BY <1>1, <1>2
<1>7. /\ \A x \in LotIds : cut[x] \in Nat
      /\ \A x \in S : cut[x] <= rem[x]
      /\ Total(cut) \in Nat /\ Total(cut) <= n
      /\ n <= SumOver(rem, S) => Total(cut) = n
  <2>1. InARow(S, LotIds, rem, ahead, n, cut)
    BY <1>1, <1>4, <1>5, <1>6 DEF InARow
  <2> QED
    BY <2>1, RowGives
<1>8. IsCut(v, cut)
  BY <1>1, <1>2, <1>4, <1>7 DEF IsCut
<1>9. ASSUME \A l \in DOMAIN v.lots : ~Lapsed(v.lots[l])
      PROVE  SumOver(rem, S) = Credits(v)
  <2>1. \A l \in DOMAIN v.lots \ S : rem[l] = 0
    BY <1>2, <1>9 DEF S, Spendable
  <2>2. SumOver(rem, DOMAIN v.lots) = SumOver(rem, S)
    BY <2>1, <1>1, <1>2, SumPart
  <2> QED
    BY <2>2, <1>2, TotalIsSum
<1> QED
  BY <1>4, <1>7, <1>8, <1>9 DEF cut

(* A refund never gives a lot more than was taken from it, and gives all that  *)
(* it should while the charge still has it (refunds.go).                       *)
LEMMA GiveBackGives ==
  ASSUME NEW v, Balanced(v), NEW net \in [LotIds -> Nat], NEW used, used \subseteq DOMAIN v.lots,
         \A l \in LotIds \ used : net[l] = 0, NEW left \in Nat
  PROVE  LET give == GiveBack(v, net, used, left)
         IN /\ give \in [LotIds -> Nat] /\ \A l \in LotIds : give[l] <= net[l]
            /\ \A l \in LotIds \ used : give[l] = 0
            /\ Total(give) \in Nat /\ (left <= Total(net) => Total(give) = left)
<1> DEFINE give == GiveBack(v, net, used, left)
           ahead == [l \in used |-> {j \in used : Sooner(v, l, j)}]
<1>1. used \subseteq LotIds /\ IsFiniteSet(LotIds) /\ DOMAIN net = LotIds
      /\ \A l \in used : net[l] \in Nat
  BY LotsAreFew DEF Balanced
<1>2. \A l \in used : ahead[l] = {j \in used : Sooner(v, l, j)}
  OBVIOUS
<1>3. /\ DOMAIN give = LotIds /\ give = [l \in LotIds |-> give[l]]
      /\ \A l \in LotIds \ used : give[l] = 0
      /\ \A l \in used : give[l] = Share(net[l], SumOver(net, ahead[l]), left)
  <2> DEFINE Ahead(l) == Total([k \in {j \in used : Sooner(v, l, j)} |-> net[k]])
  <2>1. give = [l \in LotIds |-> IF l \in used THEN Share(net[l], Ahead(l), left) ELSE 0]
    BY DEF GiveBack
  <2>2. \A l \in used : Ahead(l) = SumOver(net, ahead[l])
    <3> SUFFICES ASSUME NEW l \in used PROVE Ahead(l) = SumOver(net, ahead[l])
      OBVIOUS
    <3> DEFINE A == {j \in used : Sooner(v, l, j)}
    <3>1. IsFiniteSet(A) /\ (\A k \in A : net[k] \in Int) /\ ahead[l] = A
      BY <1>1, <1>2, FS_Subset
    <3> HIDE DEF A
    <3>2. Total([k \in A |-> net[k]]) = SumOver(net, A)
      BY <3>1, TotalOfPart
    <3> QED
      BY <3>1, <3>2 DEF A
  <2> HIDE DEF give, Ahead, ahead
  <2> QED
    BY <1>1, <2>1, <2>2
<1> HIDE DEF give, ahead
<1>4. /\ \A l \in used : ahead[l] \subseteq used /\ l \notin ahead[l]
      /\ \A x, y \in used : x = y \/ x \in ahead[y] \/ y \in ahead[x]
      /\ \A x, y \in used : x \in ahead[y] => ahead[x] \subseteq ahead[y]
  BY <1>2, LotsAreOrdered
<1>5. /\ \A x \in LotIds : give[x] \in Nat
      /\ \A x \in used : give[x] <= net[x]
      /\ Total(give) \in Nat
      /\ left <= SumOver(net, used) => Total(give) = left
  <2>1. InARow(used, LotIds, net, ahead, left, give)
    BY <1>1, <1>3, <1>4 DEF InARow
  <2> QED
    BY <2>1, RowGives
<1>6. SumOver(net, used) = Total(net)
  BY <1>1, SumPart, TotalIsSum
<1>7. \A l \in LotIds : give[l] <= net[l]
  BY <1>3, <1>5
<1>8. give \in [LotIds -> Nat]
  BY <1>3, <1>5
<1> QED
  BY <1>3, <1>5, <1>6, <1>7, <1>8 DEF give

-----------------------------------------------------------------------------
(* Decay, expiry and debt.                                                     *)

LEMMA QuotientType ==
  ASSUME NEW a \in Nat, NEW b \in Nat \ {0}
  PROVE  a \div b \in Nat
OBVIOUS

LEMMA AllowedType ==
  ASSUME NEW initial \in Nat, NEW percent \in Nat, NEW k \in Nat
  PROVE  /\ AllowedAfter(initial, percent, k) \in Nat
         /\ AllowedAfter(initial, percent, 0) = initial
<1>1. ASSUME NEW a \in Nat PROVE Max({0, a}) = a
  BY MinMax
<1>2. ASSUME NEW a \in Int PROVE Max({0, a}) \in Nat
  <2>1. Max({0, a}) = IF 0 <= a THEN a ELSE 0
    BY MinMax
  <2> QED
    BY <2>1
<1>3. initial * percent * k \in Nat
  OBVIOUS
<1>4. initial - (initial * percent * k) \div 100 \in Int
  BY <1>3, QuotientType
<1>5. initial * percent * 0 = 0 /\ 0 \div 100 = 0 /\ initial - 0 = initial
  OBVIOUS
<1> QED
  BY <1>1, <1>2, <1>4, <1>5 DEF AllowedAfter

LEMMA PeriodsType ==
  ASSUME now \in Nat, NEW lot, LotTypes(lot)
  PROVE  PeriodsDue(lot) \in Nat
<1>1. CASE lot.percent = 0
  BY <1>1 DEF PeriodsDue
<1>2. CASE lot.percent # 0
  <2>1. now - lot.granted \in Nat /\ lot.percent \in Nat \ {0} /\ lot.every \in Nat \ {0}
        /\ 100 + lot.percent - 1 \in Nat
    BY <1>2 DEF LotShape, LotTypes
  <2> DEFINE a == (now - lot.granted) \div lot.every
             b == MaxPeriods(lot.percent)
  <2>2. a \in Nat /\ b \in Nat
    BY <2>1, QuotientType DEF MaxPeriods
  <2> HIDE DEF a, b
  <2>3. Min({a, b}) \in Nat
    <3>1. Min({a, b}) = IF a <= b THEN a ELSE b
      BY <2>2, MinMax
    <3> QED
      BY <2>2, <3>1
  <2> QED
    BY <1>2, <2>3 DEF PeriodsDue, a, b
<1> QED
  BY <1>1, <1>2

LEMMA CappedType ==
  ASSUME NEW lot, LotShape(lot), NEW k \in Nat
  PROVE  /\ Capped(lot, k) \in Nat /\ Capped(lot, k) <= lot.remaining
         /\ lot.percent # 0 => Capped(lot, k) <= AllowedAfter(lot.initial, lot.percent, k)
         /\ lot.percent = 0 => Capped(lot, k) = lot.remaining
         /\ lot.remaining <= AllowedAfter(lot.initial, lot.percent, k) => Capped(lot, k) = lot.remaining
<1> DEFINE a == AllowedAfter(lot.initial, lot.percent, k)
<1>1. lot.remaining \in Nat /\ lot.initial \in Nat /\ lot.percent \in Nat
  BY DEF LotShape, LotTypes
<1>2. a \in Nat
  BY <1>1, AllowedType
<1>3. Capped(lot, k) = IF lot.percent = 0 THEN lot.remaining ELSE Min({lot.remaining, a})
  BY DEF Capped
<1> HIDE DEF a
<1>4. Min({lot.remaining, a}) = IF lot.remaining <= a THEN lot.remaining ELSE a
  BY <1>1, <1>2, MinMax
<1> QED
  BY <1>1, <1>2, <1>3, <1>4 DEF a

LEMMA DrawnDecays ==
  ASSUME NEW v, NEW w, NEW cut, Sound(v), Balanced(v), \A l \in DOMAIN v.lots : Decayed(v.lots[l]),
         IsCut(v, cut), Drawn(v, w, cut), w.debt \in Nat
  PROVE  /\ Balanced(w) /\ DOMAIN w.lots = DOMAIN v.lots
         /\ \A l \in DOMAIN w.lots : Decayed(w.lots[l])
         /\ \A l \in DOMAIN w.lots : /\ w.lots[l].periods = v.lots[l].periods
                                     /\ w.lots[l].expires = v.lots[l].expires
<1>1. Balanced(w) /\ DOMAIN w.lots = DOMAIN v.lots
  BY DrawnBalances DEF Drawn
<1>2. \A l \in DOMAIN v.lots :
        /\ w.lots[l].percent = v.lots[l].percent /\ w.lots[l].initial = v.lots[l].initial
        /\ w.lots[l].periods = v.lots[l].periods /\ w.lots[l].expires = v.lots[l].expires
  BY DEF Drawn, LotFields
<1>3. \A l \in DOMAIN v.lots : Decayed(w.lots[l])
  <2> SUFFICES ASSUME NEW l \in DOMAIN v.lots, v.lots[l].percent # 0
               PROVE  w.lots[l].remaining <= AllowedAfter(v.lots[l].initial, v.lots[l].percent,
                                                          v.lots[l].periods)
    BY <1>2 DEF Decayed
  <2> DEFINE a == AllowedAfter(v.lots[l].initial, v.lots[l].percent, v.lots[l].periods)
  <2>1. a \in Nat /\ v.lots[l].remaining <= a
    BY AllowedType DEF Decayed, Balanced, LotShape, LotTypes
  <2>2. /\ w.lots[l].remaining <= v.lots[l].remaining
        /\ w.lots[l].remaining \in Nat /\ v.lots[l].remaining \in Nat
    BY <1>1, DrawnBalances DEF Balanced, LotShape, LotTypes
  <2> HIDE DEF a
  <2>3. w.lots[l].remaining <= a
    BY <2>1, <2>2
  <2> QED
    BY <2>3 DEF a
<1> QED
  BY <1>1, <1>2, <1>3

LEMMA DrawnAccounts ==
  ASSUME NEW v, NEW w, NEW cut, Sound(v), Balanced(v), \A l \in DOMAIN v.lots : Decayed(v.lots[l]),
         IsCut(v, cut), Drawn(v, w, cut), w.debt \in Nat,
         ~Worn(v) => w.held <= w.balance /\ w.debt = 0
  PROVE  Accounted(w)
<1>1. /\ Balanced(w) /\ DOMAIN w.lots = DOMAIN v.lots
      /\ \A l \in DOMAIN w.lots : Decayed(w.lots[l])
      /\ \A l \in DOMAIN w.lots : /\ w.lots[l].periods = v.lots[l].periods
                                  /\ w.lots[l].expires = v.lots[l].expires
  BY DrawnDecays
<1>2. Worn(v) => Worn(w)
  BY <1>1 DEF Worn, Lapsed, Drawn
<1> QED
  BY <1>1, <1>2 DEF Accounted, Covered

LEMMA SettleAccounts ==
  ASSUME NEW v, Sound(v), Accounted(v)
  PROVE  Accounted(SettleDebt(v))
<1> DEFINE paid == Spend(v, v.debt)
           d == Draw(v, paid)
           w == SettleDebt(v)
<1>1. /\ DOMAIN v = WalletFields /\ v.debt \in Nat /\ Balanced(v)
      /\ \A l \in DOMAIN v.lots : DOMAIN v.lots[l] = LotFields
  BY DEF Sound, Accounted, Balanced, LotShape, LotTypes
<1>2. /\ IsCut(v, paid) /\ Total(paid) \in Nat /\ Total(paid) <= v.debt
  BY <1>1, SpendDraws
<1>3. w = [d EXCEPT !.debt = @ - Total(paid)]
  BY DEF SettleDebt
<1> HIDE DEF paid, w
<1>4. Drawn(v, d, paid) /\ d.debt = v.debt /\ DOMAIN d = WalletFields
  BY <1>1, DrawDraws, DrawSame DEF Same
<1> HIDE DEF d
<1>5. Drawn(v, w, paid) /\ w.debt = v.debt - Total(paid)
  BY <1>3, <1>4 DEF Drawn, WalletFields
<1>6. w.debt \in Nat
  BY <1>1, <1>2, <1>5
<1>7. ~Worn(v) => w.held <= w.balance /\ w.debt = 0
  <2> SUFFICES ASSUME ~Worn(v) PROVE w.held <= w.balance /\ w.debt = 0
    OBVIOUS
  <2>1. v.held <= v.balance /\ v.debt = 0 /\ v.balance \in Nat
    BY CreditsType DEF Accounted, Covered, Balanced
  <2>2. Total(paid) = 0
    BY <1>2, <2>1
  <2> QED
    BY <1>5, <2>1, <2>2 DEF Drawn
<1> QED
  BY <1>1, <1>2, <1>5, <1>6, <1>7, DrawnAccounts DEF Accounted, w

(* What applyDue leaves of a lot.                                              *)
DueLeft(lot) ==
  IF Lapsed(lot) THEN 0
  ELSE IF PeriodsDue(lot) > lot.periods THEN Capped(lot, PeriodsDue(lot))
  ELSE lot.remaining

LEMMA DueLeftType ==
  ASSUME now \in Nat, NEW lot, LotShape(lot)
  PROVE  /\ DueLeft(lot) \in Nat /\ DueLeft(lot) <= lot.remaining
         /\ Decayed(lot) /\ lot.percent # 0 =>
              DueLeft(lot) <= AllowedAfter(lot.initial, lot.percent, PeriodsDue(lot))
         /\ PeriodsDue(lot) = 0 /\ ~Lapsed(lot) => DueLeft(lot) = lot.remaining
<1> DEFINE k == PeriodsDue(lot)
           a == AllowedAfter(lot.initial, lot.percent, k)
<1>1. k \in Nat /\ lot.periods \in Nat /\ lot.periods <= k /\ lot.remaining \in Nat
  BY PeriodsType DEF LotShape, LotTypes
<1>2. a \in Nat
  BY <1>1, AllowedType DEF LotShape, LotTypes
<1>3. /\ Capped(lot, k) \in Nat /\ Capped(lot, k) <= lot.remaining
      /\ lot.percent # 0 => Capped(lot, k) <= a
  BY <1>1, CappedType
<1>4. DueLeft(lot) = IF Lapsed(lot) THEN 0
                     ELSE IF k > lot.periods THEN Capped(lot, k) ELSE lot.remaining
  BY DEF DueLeft
<1>5. Decayed(lot) /\ lot.percent # 0 /\ ~(k > lot.periods) => lot.remaining <= a
  <2>1. ~(k > lot.periods) => k = lot.periods
    BY <1>1
  <2> QED
    BY <2>1 DEF Decayed
<1> HIDE DEF k, a
<1>6. DueLeft(lot) \in Nat /\ DueLeft(lot) <= lot.remaining
  BY <1>1, <1>3, <1>4
<1>7. Decayed(lot) /\ lot.percent # 0 => DueLeft(lot) <= a
  BY <1>1, <1>2, <1>3, <1>4, <1>5
<1>8. k = 0 /\ ~Lapsed(lot) => DueLeft(lot) = lot.remaining
  BY <1>1, <1>4
<1> QED
  BY <1>6, <1>7, <1>8 DEF k, a

LEMMA DueDraws ==
  ASSUME NEW v, DOMAIN v = WalletFields, \A l \in DOMAIN v.lots : DOMAIN v.lots[l] = LotFields
  PROVE  LET w == Due(v)
         IN /\ w.holds = v.holds /\ w.held = v.held /\ w.debt = v.debt
            /\ w.balance = v.balance - Total([l \in DOMAIN v.lots |->
                                                v.lots[l].remaining - DueLeft(v.lots[l])])
            /\ w.lots = [l \in DOMAIN v.lots |-> w.lots[l]]
            /\ \A l \in DOMAIN v.lots :
                 /\ DOMAIN w.lots[l] = LotFields
                 /\ w.lots[l].remaining = v.lots[l].remaining - (v.lots[l].remaining - DueLeft(v.lots[l]))
                 /\ w.lots[l].periods = PeriodsDue(v.lots[l])
                 /\ \A f \in LotFields \ {"remaining", "periods"} : w.lots[l][f] = v.lots[l][f]
<1> DEFINE cut == [l \in DOMAIN v.lots |-> v.lots[l].remaining - DueLeft(v.lots[l])]
           d == Draw(v, cut)
           left == d.lots
           w == Due(v)
<1>1. w = [d EXCEPT !.lots = [l \in DOMAIN left |-> [left[l] EXCEPT !.periods = PeriodsDue(left[l])]]]
  BY DEF Due, DueLeft
<1>2. Drawn(v, d, cut) /\ d.debt = v.debt /\ DOMAIN d = WalletFields
  BY DrawDraws, DrawSame DEF Same
<1>3. \A l \in DOMAIN v.lots : cut[l] = v.lots[l].remaining - DueLeft(v.lots[l])
  OBVIOUS
<1> HIDE DEF cut, d, w
<1>4. /\ left = [l \in DOMAIN v.lots |-> left[l]] /\ DOMAIN left = DOMAIN v.lots
      /\ \A l \in DOMAIN v.lots :
           /\ DOMAIN left[l] = LotFields
           /\ left[l].remaining = v.lots[l].remaining - cut[l]
           /\ \A f \in LotFields \ {"remaining"} : left[l][f] = v.lots[l][f]
  BY <1>2 DEF Drawn
<1>5. \A l \in DOMAIN v.lots : PeriodsDue(left[l]) = PeriodsDue(v.lots[l])
  BY <1>4 DEF PeriodsDue, LotFields
<1>6. /\ w.lots = [l \in DOMAIN v.lots |-> [left[l] EXCEPT !.periods = PeriodsDue(left[l])]]
      /\ w.holds = d.holds /\ w.held = d.held /\ w.debt = d.debt /\ w.balance = d.balance
  BY <1>1, <1>2, <1>4 DEF WalletFields
<1> HIDE DEF left
<1>7. w.lots = [l \in DOMAIN v.lots |-> w.lots[l]]
  BY <1>6
<1>8. \A l \in DOMAIN v.lots : w.lots[l] = [left[l] EXCEPT !.periods = PeriodsDue(v.lots[l])]
  BY <1>5, <1>6
<1>9. \A l \in DOMAIN v.lots :
        /\ DOMAIN w.lots[l] = LotFields
        /\ w.lots[l].remaining = v.lots[l].remaining - cut[l]
        /\ w.lots[l].periods = PeriodsDue(v.lots[l])
        /\ \A f \in LotFields \ {"remaining", "periods"} : w.lots[l][f] = v.lots[l][f]
  <2> SUFFICES ASSUME NEW l \in DOMAIN v.lots
               PROVE  /\ DOMAIN w.lots[l] = LotFields
                      /\ w.lots[l].remaining = v.lots[l].remaining - cut[l]
                      /\ w.lots[l].periods = PeriodsDue(v.lots[l])
                      /\ \A f \in LotFields \ {"remaining", "periods"} : w.lots[l][f] = v.lots[l][f]
    OBVIOUS
  <2>1. /\ DOMAIN w.lots[l] = LotFields
        /\ w.lots[l].periods = PeriodsDue(v.lots[l])
        /\ \A f \in LotFields \ {"periods"} : w.lots[l][f] = left[l][f]
    BY <1>4, <1>8 DEF LotFields
  <2>2. w.lots[l].remaining = left[l].remaining
    BY <2>1 DEF LotFields
  <2> QED
    BY <1>4, <2>1, <2>2
<1>10. w.balance = v.balance - Total(cut) /\ w.holds = v.holds /\ w.held = v.held /\ w.debt = v.debt
  BY <1>2, <1>6 DEF Drawn
<1> QED
  BY <1>3, <1>7, <1>9, <1>10 DEF cut, w

LEMMA DueAccounts ==
  ASSUME NEW v, Sound(v), Accounted(v)
  PROVE  Accounted(Due(v))
<1> DEFINE w == Due(v)
           cut == [l \in DOMAIN v.lots |-> v.lots[l].remaining - DueLeft(v.lots[l])]
           d == Draw(v, cut)
<1>1. /\ DOMAIN v = WalletFields /\ now \in Nat /\ v.debt \in Nat
      /\ Balanced(v) /\ \A l \in DOMAIN v.lots : LotShape(v.lots[l]) /\ DOMAIN v.lots[l] = LotFields
      /\ DOMAIN v.lots \subseteq LotIds
  BY LotsAreFew DEF Sound, Accounted, Balanced, LotShape, LotTypes
<1>2. /\ DOMAIN cut = DOMAIN v.lots
      /\ \A l \in DOMAIN v.lots : /\ cut[l] = v.lots[l].remaining - DueLeft(v.lots[l])
                                  /\ v.lots[l].remaining \in Nat /\ DueLeft(v.lots[l]) \in Nat
                                  /\ DueLeft(v.lots[l]) <= v.lots[l].remaining
  BY <1>1, DueLeftType DEF LotShape, LotTypes
<1>3. /\ w.holds = v.holds /\ w.held = v.held /\ w.debt = v.debt
      /\ w.balance = v.balance - Total(cut)
      /\ w.lots = [l \in DOMAIN v.lots |-> w.lots[l]]
      /\ \A l \in DOMAIN v.lots :
           /\ DOMAIN w.lots[l] = LotFields
           /\ w.lots[l].remaining = v.lots[l].remaining - cut[l]
           /\ w.lots[l].periods = PeriodsDue(v.lots[l])
           /\ \A f \in LotFields \ {"remaining", "periods"} : w.lots[l][f] = v.lots[l][f]
  BY <1>1, <1>2, DueDraws
<1>4. Drawn(v, d, cut) /\ d.debt = v.debt
  BY <1>1, DrawDraws
<1>5. Sound(d)
  BY <1>1, DrawSame, SameIsFine DEF Fine
<1> HIDE DEF cut, d, w
<1>6. IsCut(v, cut)
  <2>1. \A l \in DOMAIN v.lots : cut[l] \in Nat /\ cut[l] <= v.lots[l].remaining
    BY <1>2
  <2> QED
    BY <1>1, <1>2, <2>1 DEF IsCut
<1>7. Balanced(d) /\ DOMAIN d.lots = DOMAIN v.lots
  BY <1>1, <1>4, <1>6, DrawnBalances DEF Drawn
<1>8. \A l \in DOMAIN v.lots :
        /\ w.lots[l].remaining = DueLeft(v.lots[l]) /\ w.lots[l].initial = v.lots[l].initial
        /\ w.lots[l].expires = v.lots[l].expires /\ w.lots[l].percent = v.lots[l].percent
        /\ w.lots[l].every = v.lots[l].every /\ w.lots[l].granted = v.lots[l].granted
        /\ w.lots[l].periods = PeriodsDue(v.lots[l]) /\ DOMAIN w.lots[l] = LotFields
        /\ PeriodsDue(v.lots[l]) \in Nat /\ v.lots[l].periods <= PeriodsDue(v.lots[l])
        /\ v.lots[l].periods \in Nat
  <2> SUFFICES ASSUME NEW l \in DOMAIN v.lots
               PROVE  /\ w.lots[l].remaining = DueLeft(v.lots[l])
                      /\ w.lots[l].initial = v.lots[l].initial
                      /\ w.lots[l].expires = v.lots[l].expires
                      /\ w.lots[l].percent = v.lots[l].percent
                      /\ w.lots[l].every = v.lots[l].every
                      /\ w.lots[l].granted = v.lots[l].granted
                      /\ w.lots[l].periods = PeriodsDue(v.lots[l]) /\ DOMAIN w.lots[l] = LotFields
                      /\ PeriodsDue(v.lots[l]) \in Nat
                      /\ v.lots[l].periods <= PeriodsDue(v.lots[l]) /\ v.lots[l].periods \in Nat
    OBVIOUS
  <2>1. w.lots[l].remaining = DueLeft(v.lots[l])
    <3>1. w.lots[l].remaining = v.lots[l].remaining - cut[l]
      BY <1>3
    <3>2. /\ cut[l] = v.lots[l].remaining - DueLeft(v.lots[l])
          /\ v.lots[l].remaining \in Nat /\ DueLeft(v.lots[l]) \in Nat
      BY <1>2
    <3> QED
      BY <3>1, <3>2
  <2>2. LotShape(v.lots[l]) /\ PeriodsDue(v.lots[l]) \in Nat
    BY <1>1, PeriodsType DEF LotShape
  <2>3. v.lots[l].periods <= PeriodsDue(v.lots[l]) /\ v.lots[l].periods \in Nat
    BY <2>2 DEF LotShape, LotTypes
  <2> QED
    BY <1>3, <2>1, <2>2, <2>3 DEF LotFields
<1>9. \A l \in DOMAIN v.lots : PeriodsDue(w.lots[l]) = PeriodsDue(v.lots[l])
  BY <1>8 DEF PeriodsDue
<1>10. \A l \in DOMAIN v.lots : LotShape(w.lots[l])
  BY <1>1, <1>2, <1>8, <1>9 DEF LotShape, LotTypes
<1>11. \A l \in DOMAIN d.lots : /\ w.lots[l].remaining = d.lots[l].remaining
                                /\ w.lots[l].initial = d.lots[l].initial
  <2> SUFFICES ASSUME NEW l \in DOMAIN v.lots
               PROVE  /\ w.lots[l].remaining = d.lots[l].remaining
                      /\ w.lots[l].initial = d.lots[l].initial
    BY <1>7
  <2>1. w.lots[l].remaining = d.lots[l].remaining
    BY <1>3, <1>4 DEF Drawn
  <2>2. d.lots[l].initial = v.lots[l].initial
    BY <1>4 DEF Drawn, LotFields
  <2> QED
    BY <1>8, <2>1, <2>2
<1>12. Balanced(w)
  <2>1. /\ w.holds = d.holds /\ w.held = d.held /\ w.balance = d.balance /\ w.debt = d.debt
        /\ w.lots = [l \in DOMAIN d.lots |-> w.lots[l]] /\ DOMAIN w.lots = DOMAIN d.lots
    BY <1>3, <1>4, <1>7 DEF Drawn
  <2>2. [l \in DOMAIN w.lots |-> w.lots[l].remaining] = [l \in DOMAIN d.lots |-> d.lots[l].remaining]
    BY <2>1, <1>11
  <2>3. w.balance = Credits(w)
    BY <2>1, <2>2, <1>7 DEF Balanced, Credits
  <2>4. \A l \in DOMAIN d.lots : w.lots[l].remaining <= d.lots[l].remaining
    BY <1>7, <1>11 DEF Balanced, LotShape, LotTypes
  <2> QED
    BY <2>1, <2>3, <2>4, <1>1, <1>4, <1>5, <1>7, <1>10, <1>11, Rebalanced
<1>13. \A l \in DOMAIN w.lots : Decayed(w.lots[l])
  BY <1>1, <1>3, <1>8, DueLeftType DEF Decayed, Accounted
<1>14. Covered(w)
  <2> SUFFICES ASSUME ~Worn(w) PROVE w.held <= w.balance /\ w.debt = 0
    BY DEF Covered
  <2>1. \A l \in DOMAIN v.lots : PeriodsDue(v.lots[l]) = 0 /\ ~Lapsed(v.lots[l]) /\ v.lots[l].periods = 0
    <3>1. \A l \in DOMAIN v.lots : ~(w.lots[l].periods > 0) /\ ~Lapsed(w.lots[l])
      BY <1>3 DEF Worn
    <3>2. \A l \in DOMAIN v.lots : ~Lapsed(v.lots[l])
      BY <1>8, <3>1 DEF Lapsed
    <3> QED
      BY <1>8, <3>1, <3>2
  <2>2. ~Worn(v)
    BY <2>1, <1>3 DEF Worn
  <2>3. Total(cut) = 0
    BY <1>1, <1>2, <1>6, <2>1, DueLeftType, CutTotal
  <2>4. v.balance \in Nat /\ v.held <= v.balance /\ v.debt = 0
    BY <2>2, CreditsType DEF Accounted, Covered, Balanced
  <2> QED
    BY <1>3, <2>3, <2>4
<1> QED
  BY <1>12, <1>13, <1>14 DEF Accounted, w

-----------------------------------------------------------------------------
(* Grants, removals and what the store takes back.                             *)

LEMMA NewLotShape ==
  ASSUME now \in Nat, NEW o \in Offers
  PROVE  /\ LotShape(NewLot(o)) /\ Decayed(NewLot(o))
         /\ NewLot(o).remaining = o.amount /\ NewLot(o).initial = o.amount /\ o.amount \in Nat
<1> DEFINE lot == NewLot(o)
<1>1. /\ o.amount \in Nat /\ o.life \in Nat /\ o.percent \in Nat /\ o.every \in Nat \ {0}
      /\ Never \in Nat
  BY WalletAssumption DEF Never
<1>2. /\ DOMAIN lot = LotFields /\ lot.initial = o.amount /\ lot.remaining = o.amount
      /\ lot.granted = now /\ lot.percent = o.percent /\ lot.every = o.every /\ lot.periods = 0
      /\ lot.expires = IF o.life = 0 THEN Never ELSE now + o.life
  BY DEF NewLot, LotFields
<1> HIDE DEF lot
<1>3. lot.expires \in Nat
  BY <1>1, <1>2
<1>4. LotTypes(lot)
  BY <1>1, <1>2, <1>3 DEF LotTypes
<1>5. PeriodsDue(lot) \in Nat
  BY <1>4, PeriodsType
<1>6. LotShape(lot)
  BY <1>2, <1>4, <1>5 DEF LotShape
<1>7. Decayed(lot)
  <2>1. AllowedAfter(o.amount, o.percent, 0) = o.amount
    BY <1>1, AllowedType
  <2> QED
    BY <1>1, <1>2, <2>1 DEF Decayed
<1> QED
  BY <1>1, <1>2, <1>6, <1>7 DEF lot

LEMMA GrantAccounts ==
  ASSUME NEW v, NEW o \in Offers, Sound(v), Accounted(v), Len(v.lots) < MaxLots
  PROVE  Accounted(GrantLot(v, o))
<1> DEFINE u == [v EXCEPT !.balance = @ + o.amount, !.lots = Append(@, NewLot(o))]
           n == Len(v.lots)
           S == {v.lots[l] : l \in DOMAIN v.lots} \cup {NewLot(o)}
<1>1. DOMAIN v = WalletFields /\ Balanced(v)
  BY DEF Sound, Accounted
<1>2. v.lots \in Seq(S)
  <2>1. PICK k \in Nat : v.lots = [l \in 1 .. k |-> v.lots[l]]
    BY <1>1 DEF Balanced, LotsListed
  <2>2. \A l \in 1 .. k : v.lots[l] \in S
    BY <2>1
  <2> HIDE DEF S
  <2>3. v.lots \in [1 .. k -> S]
    BY <2>1, <2>2
  <2> QED
    BY <2>3, SeqDef
<1>3. DOMAIN v.lots = 1 .. n /\ n \in Nat
  BY <1>2, LenProperties
<1>4. /\ u.balance = v.balance + o.amount /\ u.lots = Append(v.lots, NewLot(o))
      /\ u.held = v.held /\ u.debt = v.debt /\ u.holds = v.holds /\ Same(v, u)
  BY <1>1 DEF WalletFields, Same
<1>5. GrantLot(v, o) = SettleDebt(u)
  BY DEF GrantLot
<1>6. NewLot(o) \in S
  OBVIOUS
<1> HIDE DEF u, n, S
<1>7. /\ u.lots = [l \in 1 .. n + 1 |-> u.lots[l]] /\ DOMAIN u.lots = 1 .. n + 1
      /\ u.lots[n + 1] = NewLot(o)
      /\ \A l \in DOMAIN v.lots : u.lots[l] = v.lots[l]
  <2>1. /\ Append(v.lots, NewLot(o)) \in Seq(S) /\ Len(Append(v.lots, NewLot(o))) = n + 1
        /\ \A l \in 1 .. n : Append(v.lots, NewLot(o))[l] = v.lots[l]
        /\ Append(v.lots, NewLot(o))[n + 1] = NewLot(o)
    BY <1>2, <1>6, AppendProperties DEF n
  <2>2. u.lots \in [1 .. n + 1 -> S]
    BY <2>1, <1>4, LenProperties
  <2> QED
    BY <2>1, <2>2, <1>3, <1>4
<1>8. LotsListed(u) /\ n + 1 \in LotIds /\ n + 1 \notin DOMAIN v.lots
      /\ DOMAIN u.lots = DOMAIN v.lots \cup {n + 1}
  <2>1. n + 1 <= MaxLots /\ n + 1 \in Nat
    BY <1>3, WalletAssumption DEF n
  <2> QED
    BY <2>1, <1>3, <1>7, WalletAssumption DEF LotsListed, LotIds
<1>9. /\ now \in Nat /\ LotShape(NewLot(o)) /\ Decayed(NewLot(o))
      /\ NewLot(o).remaining = o.amount /\ NewLot(o).initial = o.amount /\ o.amount \in Nat
  BY <1>1, NewLotShape DEF Balanced
<1>10. \A l \in DOMAIN u.lots : LotShape(u.lots[l]) /\ Decayed(u.lots[l])
  BY <1>7, <1>8, <1>9 DEF Accounted, Balanced
<1>11. \A h \in DOMAIN u.holds : Charge(u, u.holds[h])
  BY <1>1, <1>4, <1>8 DEF Balanced, Charge
<1>12. u.balance = Credits(u)
  <2> DEFINE f == [l \in DOMAIN v.lots |-> v.lots[l].remaining]
             g == [l \in DOMAIN u.lots |-> u.lots[l].remaining]
  <2>1. /\ DOMAIN f = DOMAIN v.lots /\ DOMAIN g = DOMAIN v.lots \cup {n + 1}
        /\ \A l \in DOMAIN v.lots : f[l] \in Int /\ g[l] = f[l]
        /\ g[n + 1] = o.amount
    <3>1. \A l \in DOMAIN v.lots : v.lots[l].remaining \in Int
      BY <1>1 DEF Balanced, LotShape, LotTypes
    <3>2. u.lots[n + 1].remaining = o.amount
      BY <1>7, <1>9
    <3> QED
      BY <3>1, <3>2, <1>7, <1>8
  <2>2. IsFiniteSet(DOMAIN v.lots) /\ Credits(v) = Total(f) /\ Credits(u) = Total(g)
    BY <1>1, LotsAreFew DEF Balanced, Credits
  <2> HIDE DEF f, g
  <2>3. Total(g) = Total(f) + o.amount
    BY <2>1, <2>2, <1>8, <1>9, TotalGrows
  <2> QED
    BY <2>2, <2>3, <1>1, <1>4 DEF Balanced
<1>13. u.held = HeldCredits(u) /\ u.debt \in Nat
  BY <1>1, <1>4, SameHeld DEF Balanced
<1>14. \A l \in DOMAIN u.lots : u.lots[l].remaining + Out(u, l) <= u.lots[l].initial
  <2>1. \A l \in DOMAIN v.lots : u.lots[l].remaining + Out(u, l) <= u.lots[l].initial
    <3> SUFFICES ASSUME NEW l \in DOMAIN v.lots
                 PROVE  u.lots[l].remaining + Out(u, l) <= u.lots[l].initial
      OBVIOUS
    <3>1. u.lots[l] = v.lots[l] /\ Out(u, l) = Out(v, l)
      BY <1>4, <1>7, SameOut
    <3> QED
      BY <1>1, <3>1 DEF Balanced
  <2>2. Out(u, n + 1) = 0
    <3> DEFINE f == [h \in DOMAIN v.holds |-> v.holds[h].taken[n + 1] - v.holds[h].back[n + 1]]
    <3>1. \A h \in DOMAIN v.holds : v.holds[h].taken[n + 1] = 0 /\ v.holds[h].back[n + 1] = 0
      BY <1>1, <1>8 DEF Balanced, Charge
    <3>2. DOMAIN f = DOMAIN v.holds /\ \A h \in DOMAIN v.holds : f[h] = 0
      BY <3>1
    <3>3. Out(u, n + 1) = Total(f) /\ IsFiniteSet(DOMAIN v.holds)
      BY <1>4, HoldsAreFinite DEF Out
    <3> HIDE DEF f
    <3> QED
      BY <3>2, <3>3, TotalZero
  <2>3. u.lots[n + 1].remaining + Out(u, n + 1) <= u.lots[n + 1].initial
    BY <2>2, <1>7, <1>9
  <2> QED
    BY <2>1, <2>3, <1>8
<1>15. Balanced(u)
  BY <1>8, <1>9, <1>10, <1>11, <1>12, <1>13, <1>14 DEF Balanced
<1>16. Covered(u)
  <2>1. Worn(v) => Worn(u)
    BY <1>4, <1>7, <1>8 DEF Worn
  <2>2. v.balance \in Nat /\ v.held = u.held /\ u.balance = v.balance + o.amount /\ v.debt = u.debt
    BY <1>1, <1>4, CreditsType DEF Balanced
  <2>3. v.held \in Nat
    <3>1. HeldCredits(v) \in Nat
      BY <1>1, HeldType
    <3> QED
      BY <3>1, <1>1 DEF Balanced
  <2> QED
    BY <2>1, <2>2, <2>3, <1>9 DEF Accounted, Covered
<1>17. Sound(u)
  BY <1>4, SameIsFine DEF Fine
<1> QED
  BY <1>5, <1>10, <1>15, <1>16, <1>17, SettleAccounts DEF Accounted

(* The revoked lot ends now: what its spent part left uncovered is accounted   *)
(* for by an end, as after any expiry.                                         *)
LEMMA RevokeAccounts ==
  ASSUME NEW v, NEW l \in DOMAIN v.lots, Sound(v), Accounted(v)
  PROVE  Accounted(RevokeLot(v, l))
<1> DEFINE lot == v.lots[l]
           x == [lot EXCEPT !.remaining = 0, !.expires = now, !.revoked = TRUE]
           w == RevokeLot(v, l)
<1>1. /\ DOMAIN v = WalletFields /\ Balanced(v) /\ now \in Nat /\ v.debt \in Nat
      /\ LotShape(lot) /\ DOMAIN lot = LotFields
      /\ lot.remaining \in Nat /\ lot.initial \in Nat
  BY DEF Sound, Accounted, Balanced, LotShape, LotTypes
<1>2. /\ w.holds = v.holds /\ w.held = v.held /\ w.balance = v.balance - lot.remaining
      /\ w.debt = v.debt + lot.initial - lot.remaining
      /\ w.lots = [v.lots EXCEPT ![l] = x]
  BY <1>1 DEF RevokeLot, WalletFields
<1>3. /\ DOMAIN x = LotFields /\ x.initial = lot.initial /\ x.remaining = 0 /\ x.expires = now
      /\ x.percent = lot.percent /\ x.every = lot.every /\ x.periods = lot.periods
      /\ x.granted = lot.granted
  BY <1>1 DEF LotFields
<1> HIDE DEF x, w
<1>4. /\ w.lots = [i \in DOMAIN v.lots |-> w.lots[i]] /\ DOMAIN w.lots = DOMAIN v.lots
      /\ w.lots[l] = x
      /\ \A i \in DOMAIN v.lots : i # l => w.lots[i] = v.lots[i]
  BY <1>1, <1>2 DEF Balanced, LotsListed
<1>5. LotShape(x) /\ Decayed(x)
  <2>1. PeriodsDue(x) = PeriodsDue(lot)
    BY <1>3 DEF PeriodsDue
  <2>2. LotShape(x)
    BY <1>1, <1>3, <2>1 DEF LotShape, LotTypes
  <2>3. AllowedAfter(x.initial, x.percent, x.periods) \in Nat
    BY <2>2, AllowedType DEF LotShape, LotTypes
  <2> QED
    BY <1>3, <2>2, <2>3 DEF Decayed
<1>6. \A i \in DOMAIN v.lots : /\ LotShape(w.lots[i]) /\ Decayed(w.lots[i])
                               /\ w.lots[i].initial = v.lots[i].initial
                               /\ w.lots[i].remaining <= v.lots[i].remaining
  <2> SUFFICES ASSUME NEW i \in DOMAIN v.lots
               PROVE  /\ LotShape(w.lots[i]) /\ Decayed(w.lots[i])
                      /\ w.lots[i].initial = v.lots[i].initial
                      /\ w.lots[i].remaining <= v.lots[i].remaining
    OBVIOUS
  <2>1. CASE i = l
    BY <2>1, <1>1, <1>3, <1>4, <1>5
  <2>2. CASE i # l
    <3>1. w.lots[i] = v.lots[i] /\ LotShape(v.lots[i]) /\ Decayed(v.lots[i])
      BY <2>2, <1>1, <1>4 DEF Accounted, Balanced
    <3>2. v.lots[i].remaining \in Nat
      BY <3>1 DEF LotShape, LotTypes
    <3> QED
      BY <3>1, <3>2
  <2> QED
    BY <2>1, <2>2
<1>7. w.balance = Credits(w)
  <2> DEFINE f == [i \in DOMAIN v.lots |-> v.lots[i].remaining]
             g == [i \in DOMAIN w.lots |-> w.lots[i].remaining]
  <2>1. \A i \in DOMAIN v.lots : /\ v.lots[i].remaining \in Int /\ w.lots[i].remaining \in Int
                                 /\ i # l => w.lots[i].remaining = v.lots[i].remaining
    BY <1>1, <1>4, <1>6 DEF Balanced, LotShape, LotTypes
  <2>2. /\ DOMAIN f = DOMAIN v.lots /\ DOMAIN g = DOMAIN v.lots /\ f[l] = lot.remaining /\ g[l] = 0
        /\ \A i \in DOMAIN v.lots : f[i] \in Int /\ g[i] \in Int /\ (i # l => g[i] = f[i])
    <3>1. w.lots[l].remaining = 0
      BY <1>3, <1>4
    <3> QED
      BY <1>4, <2>1, <3>1
  <2>3. IsFiniteSet(DOMAIN v.lots) /\ Credits(v) = Total(f) /\ Credits(w) = Total(g)
    BY <1>1, LotsAreFew DEF Balanced, Credits
  <2> HIDE DEF f, g
  <2>4. Total(g) = Total(f) - f[l] + g[l] /\ Total(f) \in Int
    BY <2>2, <2>3, TotalChanges, TotalType
  <2> QED
    BY <1>1, <1>2, <2>2, <2>3, <2>4 DEF Balanced
<1>8. w.debt \in Nat
  <2>1. Out(v, l) \in Nat /\ lot.remaining + Out(v, l) <= lot.initial
    BY <1>1, OutType DEF Balanced
  <2> QED
    BY <1>1, <1>2, <2>1
<1>9. Balanced(w)
  BY <1>1, <1>2, <1>4, <1>6, <1>7, <1>8, Rebalanced
<1>10. Worn(w)
  BY <1>1, <1>3, <1>4 DEF Worn, Lapsed
<1> QED
  BY <1>4, <1>6, <1>9, <1>10 DEF Accounted, Covered, w

LEMMA AvailableType ==
  ASSUME NEW v, Sound(v), Balanced(v)
  PROVE  /\ v.balance \in Nat /\ v.held \in Nat
         /\ Available(v) = IF v.held <= v.balance THEN v.balance - v.held ELSE 0
<1>1. v.balance \in Nat /\ v.held \in Nat
  BY CreditsType, HeldType DEF Balanced
<1>2. v.balance - v.held \in Int
  BY <1>1
<1>3. Available(v) = IF v.balance - v.held >= 0 THEN v.balance - v.held ELSE 0
  BY <1>2, AtMostZero DEF Available
<1> QED
  BY <1>1, <1>3

(* An operator takes no credits that holds were promised.                      *)
LEMMA RemoveAccounts ==
  ASSUME NEW v, NEW n \in Nat, Sound(v), Accounted(v), n <= Available(v)
  PROVE  Accounted(Draw(v, Spend(v, n)))
<1> DEFINE cut == Spend(v, n)
           w == Draw(v, cut)
<1>1. /\ DOMAIN v = WalletFields /\ v.debt \in Nat /\ Balanced(v)
      /\ \A l \in DOMAIN v.lots : DOMAIN v.lots[l] = LotFields
  BY DEF Sound, Accounted, Balanced, LotShape, LotTypes
<1>2. IsCut(v, cut) /\ Total(cut) \in Nat /\ Total(cut) <= n
  BY <1>1, SpendDraws
<1>3. Drawn(v, w, cut) /\ w.debt = v.debt
  BY <1>1, DrawDraws
<1> HIDE DEF cut, w
<1>4. ~Worn(v) => w.held <= w.balance /\ w.debt = 0
  BY <1>1, <1>2, <1>3, AvailableType DEF Accounted, Covered, Drawn
<1> QED
  BY <1>1, <1>2, <1>3, <1>4, DrawnAccounts DEF Accounted, w, cut

-----------------------------------------------------------------------------
(* Letting a hold go and charging it.                                          *)

(* What Release and Capture do to a wallet, spelt out.                         *)
Released(v, w, h, reason) ==
  LET old == v.holds[h]
      x   == [old EXCEPT !.state = "released", !.reason = reason]
  IN /\ old.state # "held" => w = v
     /\ old.state = "held" =>
          /\ w.lots = v.lots /\ w.balance = v.balance /\ w.debt = v.debt
          /\ w.held = IF old.kind = "credits" THEN v.held - old.amount ELSE v.held
          /\ w.holds = [v.holds EXCEPT ![h] = x]
          /\ x.state = "released"
          /\ \A f \in HoldFields \ {"state", "reason"} : x[f] = old[f]

Captured(v, w, h) ==
  LET old     == v.holds[h]
      x       == w.holds[h]
      wasHeld == old.state = "held"
      spent   == Spend(v, old.amount)
  IN /\ old.state = "captured" \/ Settled(old) => w = v
     /\ ~(old.state = "captured" \/ Settled(old)) =>
          /\ w.holds = [v.holds EXCEPT ![h] = x] /\ DOMAIN x = HoldFields
          /\ x.state = "captured" /\ x.late = ~wasHeld
          /\ \A f \in HoldFields \ {"state", "late", "taken", "owed"} : x[f] = old[f]
          /\ old.kind = "credits" =>
               /\ w.lots = Draw(v, spent).lots /\ w.balance = Draw(v, spent).balance
               /\ w.held = IF wasHeld THEN v.held - old.amount ELSE v.held
               /\ w.debt = v.debt + (old.amount - Total(spent))
               /\ x.taken = spent /\ x.owed = old.amount - Total(spent)
          /\ old.kind # "credits" =>
               /\ w.lots = v.lots /\ w.balance = v.balance /\ w.held = v.held
               /\ w.debt = v.debt /\ x.taken = old.taken /\ x.owed = old.owed

LEMMA ReleaseReleases ==
  ASSUME NEW v, NEW h \in DOMAIN v.holds, NEW reason, Sound(v)
  PROVE  Released(v, Release(v, h, reason), h, reason)
<1>1. /\ DOMAIN v = WalletFields /\ DOMAIN v.holds[h] = HoldFields
  BY DEF Sound, HoldShape
<1> QED
  BY <1>1 DEF Released, Release, Releasable, AdjustQuota, WalletFields, HoldFields

LEMMA CaptureCaptures ==
  ASSUME NEW v, NEW h \in DOMAIN v.holds, Sound(v)
  PROVE  Captured(v, Capture(v, h), h)
<1> DEFINE w == Capture(v, h)
           old == v.holds[h]
           wasHeld == old.state = "held"
           spent == Spend(v, old.amount)
           short == old.amount - Total(spent)
           d == Draw(v, spent)
<1>1. /\ DOMAIN v = WalletFields /\ DOMAIN old = HoldFields
  BY DEF Sound, HoldShape
<1>2. CASE old.state = "captured" \/ Settled(old)
  BY <1>2 DEF Capture, Captured
<1>3. CASE ~(old.state = "captured" \/ Settled(old)) /\ old.kind = "credits"
  <2> DEFINE e == [d EXCEPT !.held = IF wasHeld THEN @ - old.amount ELSE @, !.debt = @ + short,
                            !.holds[h].taken = spent, !.holds[h].owed = short]
             y == [old EXCEPT !.taken = spent, !.owed = short, !.state = "captured", !.late = ~wasHeld]
  <2>1. w = [e EXCEPT !.holds[h].state = "captured", !.holds[h].late = ~wasHeld]
    BY <1>3 DEF Capture
  <2>2. d.holds = v.holds /\ DOMAIN d = WalletFields
    BY <1>1, DrawSame DEF Same
  <2>3. d.held = v.held /\ d.debt = v.debt
    BY <1>1 DEF Draw, WalletFields
  <2> HIDE DEF d, spent, short, wasHeld
  <2>4. /\ DOMAIN e = WalletFields /\ e.lots = d.lots /\ e.balance = d.balance
        /\ e.held = IF wasHeld THEN v.held - old.amount ELSE v.held
        /\ e.debt = v.debt + short
        /\ e.holds = [v.holds EXCEPT ![h] = [old EXCEPT !.taken = spent, !.owed = short]]
    BY <2>2, <2>3, <1>1 DEF WalletFields, HoldFields
  <2> HIDE DEF e
  <2>5. /\ w.holds = [v.holds EXCEPT ![h] = y] /\ w.lots = e.lots /\ w.balance = e.balance
        /\ w.held = e.held /\ w.debt = e.debt
    BY <2>1, <2>4, <1>1 DEF WalletFields, HoldFields
  <2>6. /\ DOMAIN y = HoldFields /\ y.state = "captured" /\ y.late = ~wasHeld
        /\ y.taken = spent /\ y.owed = short
        /\ \A f \in HoldFields \ {"state", "late", "taken", "owed"} : y[f] = old[f]
    BY <1>1 DEF HoldFields
  <2> HIDE DEF w, y, old
  <2>7. w.holds[h] = y
    BY <2>5
  <2> QED
    BY <1>3, <2>4, <2>5, <2>6, <2>7 DEF Captured, w, old, spent, short, d, wasHeld
<1>4. CASE ~(old.state = "captured" \/ Settled(old)) /\ old.kind # "credits"
  <2> DEFINE y == [old EXCEPT !.state = "captured", !.late = ~wasHeld]
             q == AdjustQuota(v, 1, IF wasHeld THEN -1 ELSE 0)
  <2>1. w = [q EXCEPT !.holds[h].state = "captured", !.holds[h].late = ~wasHeld]
    BY <1>4 DEF Capture
  <2>2. /\ q.holds = v.holds /\ DOMAIN q = WalletFields /\ q.lots = v.lots /\ q.balance = v.balance
        /\ q.held = v.held /\ q.debt = v.debt
    BY <1>1 DEF AdjustQuota, WalletFields
  <2> HIDE DEF q, wasHeld
  <2>3. /\ w.holds = [v.holds EXCEPT ![h] = y] /\ w.lots = v.lots /\ w.balance = v.balance
        /\ w.held = v.held /\ w.debt = v.debt
    BY <2>1, <2>2, <1>1 DEF WalletFields, HoldFields
  <2>4. /\ DOMAIN y = HoldFields /\ y.state = "captured" /\ y.late = ~wasHeld
        /\ \A f \in HoldFields \ {"state", "late"} : y[f] = old[f]
    BY <1>1 DEF HoldFields
  <2>5. y.taken = old.taken /\ y.owed = old.owed
    BY <2>4 DEF HoldFields
  <2> HIDE DEF w, y, old
  <2>6. w.holds[h] = y
    BY <2>3
  <2> QED
    BY <1>4, <2>3, <2>4, <2>5, <2>6 DEF Captured, w, old, wasHeld
<1> QED
  BY <1>2, <1>3, <1>4

(* Only one hold of the wallet is written.                                     *)
OneChanged(v, w, h) ==
  /\ h \in DOMAIN v.holds /\ DOMAIN w.holds = DOMAIN v.holds
  /\ \A i \in DOMAIN v.holds : i # h => w.holds[i] = v.holds[i]

Priced(v) == \A i \in DOMAIN v.holds : v.holds[i].amount \in Nat

Netted(v, l) == \A i \in DOMAIN v.holds : v.holds[i].taken[l] - v.holds[i].back[l] \in Int

LEMMA HeldChanges ==
  ASSUME NEW v, NEW w, NEW h, OneChanged(v, w, h), Sound(v), Sound(w), Priced(v), Priced(w)
  PROVE  HeldCredits(w) = HeldCredits(v) - Promise(v)[h] + Promise(w)[h]
<1>1. /\ HeldCredits(v) = Total(Promise(v)) /\ HeldCredits(w) = Total(Promise(w))
      /\ DOMAIN Promise(v) = DOMAIN v.holds /\ DOMAIN Promise(w) = DOMAIN v.holds
      /\ \A i \in DOMAIN v.holds : Promise(v)[i] \in Int /\ Promise(w)[i] \in Int
      /\ IsFiniteSet(DOMAIN v.holds)
  BY HeldIsPromised, HoldsAreFinite DEF OneChanged, Priced
<1>2. \A i \in DOMAIN v.holds : i # h => Promise(w)[i] = Promise(v)[i]
  BY DEF Promise, OneChanged
<1> QED
  BY <1>1, <1>2, TotalChanges DEF OneChanged

LEMMA OutChanges ==
  ASSUME NEW v, NEW w, NEW h, NEW l, OneChanged(v, w, h), Sound(v), Netted(v, l), Netted(w, l)
  PROVE  Out(w, l) = Out(v, l) - (v.holds[h].taken[l] - v.holds[h].back[l])
                     + (w.holds[h].taken[l] - w.holds[h].back[l])
<1> DEFINE f == [i \in DOMAIN v.holds |-> v.holds[i].taken[l] - v.holds[i].back[l]]
           g == [i \in DOMAIN w.holds |-> w.holds[i].taken[l] - w.holds[i].back[l]]
<1>1. /\ DOMAIN f = DOMAIN v.holds /\ DOMAIN g = DOMAIN v.holds
      /\ \A i \in DOMAIN v.holds : /\ f[i] \in Int /\ g[i] \in Int
                                   /\ i # h => g[i] = f[i]
      /\ f[h] = v.holds[h].taken[l] - v.holds[h].back[l]
      /\ g[h] = w.holds[h].taken[l] - w.holds[h].back[l]
  BY DEF OneChanged, Netted
<1>2. Out(v, l) = Total(f) /\ Out(w, l) = Total(g) /\ IsFiniteSet(DOMAIN v.holds)
  BY HoldsAreFinite DEF Out
<1> HIDE DEF f, g
<1> QED
  BY <1>1, <1>2, TotalChanges DEF OneChanged

(* The books stay balanced when one hold takes what lots lose, or gives back   *)
(* what they gain.                                                             *)
LEMMA Recharged ==
  ASSUME NEW v, NEW w, NEW h \in DOMAIN v.holds, NEW x, Sound(v), Balanced(v), Sound(w),
         w.holds = [v.holds EXCEPT ![h] = x], Charge(v, x),
         w.lots = [l \in DOMAIN v.lots |-> w.lots[l]],
         \A l \in DOMAIN v.lots :
           /\ LotShape(w.lots[l]) /\ w.lots[l].initial = v.lots[l].initial
           /\ w.lots[l].remaining + (x.taken[l] - x.back[l]) <=
                v.lots[l].remaining + (v.holds[h].taken[l] - v.holds[h].back[l]),
         w.balance = Credits(w), w.debt \in Nat,
         w.held = v.held - Promise(v)[h] + Promise(w)[h]
  PROVE  Balanced(w)
<1>1. DOMAIN w.lots = DOMAIN v.lots
  OBVIOUS
<1>2. LotsListed(w)
  <2>1. PICK n \in Nat : n <= MaxLots /\ v.lots = [l \in 1 .. n |-> v.lots[l]]
    BY DEF Balanced, LotsListed
  <2>2. DOMAIN v.lots = 1 .. n
    BY <2>1
  <2>3. w.lots = [l \in 1 .. n |-> w.lots[l]]
    BY <2>2
  <2> QED
    BY <2>1, <2>3 DEF LotsListed
<1>3. /\ DOMAIN w.holds = DOMAIN v.holds /\ w.holds[h] = x
      /\ \A i \in DOMAIN v.holds : i # h => w.holds[i] = v.holds[i]
  BY HoldsExcept
<1>4. \A i \in DOMAIN v.holds : Charge(w, w.holds[i]) /\ Charge(v, v.holds[i]) /\ Charge(v, w.holds[i])
  BY <1>1, <1>3 DEF Balanced, Charge
<1>5. OneChanged(v, w, h)
  BY <1>3 DEF OneChanged
<1>6. w.held = HeldCredits(w)
  <2>1. Priced(v) /\ Priced(w)
    BY <1>3, <1>4 DEF Charge, Priced
  <2>2. HeldCredits(w) = HeldCredits(v) - Promise(v)[h] + Promise(w)[h]
    BY <1>5, <2>1, HeldChanges
  <2> QED
    BY <2>2 DEF Balanced
<1>7. \A l \in DOMAIN v.lots : w.lots[l].remaining + Out(w, l) <= w.lots[l].initial
  <2> SUFFICES ASSUME NEW l \in DOMAIN v.lots
               PROVE  w.lots[l].remaining + Out(w, l) <= v.lots[l].initial
    OBVIOUS
  <2>1. l \in LotIds
    BY LotsAreFew DEF Balanced
  <2>2. \A i \in DOMAIN v.holds : /\ v.holds[i].taken[l] - v.holds[i].back[l] \in Int
                                  /\ w.holds[i].taken[l] - w.holds[i].back[l] \in Int
                                  /\ i # h => w.holds[i] = v.holds[i]
    BY <1>3, <1>4, <2>1 DEF Charge
  <2>3. Netted(v, l) /\ Netted(w, l)
    BY <1>3, <2>2 DEF Netted
  <2>4. Out(w, l) = Out(v, l) - (v.holds[h].taken[l] - v.holds[h].back[l])
                    + (w.holds[h].taken[l] - w.holds[h].back[l])
    BY <1>5, <2>3, OutChanges
  <2>5. /\ x.taken[l] - x.back[l] \in Int /\ v.holds[h].taken[l] - v.holds[h].back[l] \in Int
        /\ Out(v, l) \in Int
    BY <1>3, <2>2, OutType
  <2>6. /\ w.lots[l].remaining \in Nat /\ v.lots[l].remaining \in Nat /\ v.lots[l].initial \in Nat
        /\ v.lots[l].remaining + Out(v, l) <= v.lots[l].initial
    BY DEF Balanced, LotShape, LotTypes
  <2> QED
    BY <2>4, <2>5, <2>6
<1> QED
  BY <1>1, <1>2, <1>3, <1>4, <1>6, <1>7 DEF Balanced

LEMMA ReleaseAccounts ==
  ASSUME NEW v, NEW h \in DOMAIN v.holds, NEW reason, Sound(v), Accounted(v)
  PROVE  Accounted(Release(v, h, reason))
<1> DEFINE w == Release(v, h, reason)
           old == v.holds[h]
           x == [old EXCEPT !.state = "released", !.reason = reason]
<1>1. Released(v, w, h, reason)
  BY ReleaseReleases
<1> SUFFICES Accounted(w)
  OBVIOUS
<1> HIDE DEF w
<1>2. CASE old.state # "held"
  BY <1>1, <1>2 DEF Released
<1>3. CASE old.state = "held"
  <2>1. /\ w.lots = v.lots /\ w.balance = v.balance /\ w.debt = v.debt
        /\ w.held = IF old.kind = "credits" THEN v.held - old.amount ELSE v.held
        /\ w.holds = [v.holds EXCEPT ![h] = x]
        /\ x.state = "released"
        /\ \A f \in HoldFields \ {"state", "reason"} : x[f] = old[f]
    BY <1>1, <1>3 DEF Released
  <2>2. Sound(w) /\ Balanced(v)
    BY ReleaseIsFine DEF Fine, Accounted, w
  <2>3. /\ x.amount = old.amount /\ x.owed = old.owed /\ x.taken = old.taken /\ x.back = old.back
        /\ x.late = old.late /\ x.kind = old.kind
    BY <2>1 DEF HoldFields
  <2> HIDE DEF x
  <2>4. /\ DOMAIN w.holds = DOMAIN v.holds /\ w.holds[h] = x
        /\ \A i \in DOMAIN v.holds : i # h => w.holds[i] = v.holds[i]
    BY <2>1, HoldsExcept
  <2>5. Charge(v, x)
    BY <1>3, <2>2, <2>3 DEF Balanced, Charge
  <2>6. /\ Promise(w)[h] = 0 /\ Promise(v)[h] = IF old.kind = "credits" THEN old.amount ELSE 0
        /\ old.amount \in Nat
    BY <1>3, <2>1, <2>2, <2>4 DEF Promise, Balanced, Charge
  <2>7. v.balance \in Nat /\ v.held \in Nat /\ Promise(v)[h] <= v.held
    BY <2>2, CreditsType, HeldType, HeldIsPromised DEF Balanced, Charge
  <2>8. w.held = v.held - Promise(v)[h] + Promise(w)[h] /\ w.held <= v.held
    BY <2>1, <2>6, <2>7
  <2>9. w.balance = Credits(w) /\ w.debt \in Nat
    BY <2>1, <2>2 DEF Balanced, Credits
  <2>10. /\ w.lots = [l \in DOMAIN v.lots |-> w.lots[l]]
         /\ \A l \in DOMAIN v.lots :
              /\ LotShape(w.lots[l]) /\ w.lots[l].initial = v.lots[l].initial
              /\ w.lots[l].remaining + (x.taken[l] - x.back[l]) <=
                   v.lots[l].remaining + (old.taken[l] - old.back[l])
    <3>1. \A l \in DOMAIN v.lots : /\ LotShape(v.lots[l]) /\ v.lots[l].remaining \in Int
                                   /\ old.taken[l] - old.back[l] \in Int
      BY <2>2, LotsAreFew DEF Balanced, Charge, LotShape, LotTypes
    <3>2. v.lots = [l \in DOMAIN v.lots |-> v.lots[l]]
      BY <2>2 DEF Balanced, LotsListed
    <3> QED
      BY <2>1, <2>3, <3>1, <3>2
  <2>11. Balanced(w)
    BY <2>1, <2>2, <2>5, <2>8, <2>9, <2>10, Recharged
  <2>12. Worn(v) => Worn(w)
    BY <2>1, <2>3, <2>4 DEF Worn
  <2>13. Covered(w)
    BY <2>1, <2>2, <2>7, <2>8, <2>11, <2>12, HeldType DEF Accounted, Covered, Balanced
  <2> QED
    BY <2>1, <2>11, <2>13 DEF Accounted
<1> QED
  BY <1>2, <1>3

(* A charge takes from the lots what it records; the rest is owed.  Nothing is *)
(* owed when the hold was held and nothing has worn since it was put.          *)
LEMMA ChargeAccounts ==
  ASSUME NEW v, NEW h \in DOMAIN v.holds, Sound(v), Accounted(v),
         v.holds[h].state # "captured", ~Settled(v.holds[h]), v.holds[h].kind = "credits"
  PROVE  Accounted(Capture(v, h))
<1> DEFINE w == Capture(v, h)
           old == v.holds[h]
           x == w.holds[h]
           spent == Spend(v, old.amount)
           d == Draw(v, spent)
<1>1. Captured(v, w, h) /\ Sound(w)
  BY CaptureCaptures, CaptureIsFine DEF Fine
<1> SUFFICES Accounted(w)
  OBVIOUS
<1>2. /\ w.holds = [v.holds EXCEPT ![h] = x]
      /\ x.state = "captured" /\ x.late = ~(old.state = "held")
      /\ \A f \in HoldFields \ {"state", "late", "taken", "owed"} : x[f] = old[f]
      /\ w.lots = d.lots /\ w.balance = d.balance
      /\ w.held = IF old.state = "held" THEN v.held - old.amount ELSE v.held
      /\ w.debt = v.debt + (old.amount - Total(spent))
      /\ x.taken = spent /\ x.owed = old.amount - Total(spent)
  <2> HIDE DEF w
  <2> QED
    BY <1>1 DEF Captured
<1>3. x.amount = old.amount /\ x.back = old.back /\ x.kind = "credits"
  <2> HIDE DEF w, x
  <2> QED
    BY <1>2 DEF HoldFields
<1> HIDE DEF w, x
<1>4. /\ Balanced(v) /\ v.debt \in Nat /\ old.amount \in Nat /\ DOMAIN v = WalletFields
      /\ Charge(v, old)
      /\ \A l \in DOMAIN v.lots : Decayed(v.lots[l]) /\ DOMAIN v.lots[l] = LotFields
      /\ old.late = TRUE => old.state = "captured"
      /\ HoldShape(old)
  BY DEF Accounted, Balanced, Charge, Sound, LotShape, LotTypes, HoldShape
<1>5. /\ IsCut(v, spent) /\ Total(spent) \in Nat /\ Total(spent) <= old.amount
      /\ DOMAIN spent = LotIds
      /\ (\A l \in DOMAIN v.lots : ~Lapsed(v.lots[l])) /\ old.amount <= Credits(v) =>
           Total(spent) = old.amount
  BY <1>4, SpendDraws
<1>6. spent = [l \in LotIds |-> spent[l]]
  BY DEF Spend
<1>7. Drawn(v, d, spent) /\ d.debt = v.debt
  BY <1>4, DrawDraws
<1> HIDE DEF spent, d
<1>8. /\ Balanced(d) /\ DOMAIN d.lots = DOMAIN v.lots
      /\ \A l \in DOMAIN d.lots : Decayed(d.lots[l])
      /\ \A l \in DOMAIN d.lots : /\ d.lots[l].periods = v.lots[l].periods
                                  /\ d.lots[l].expires = v.lots[l].expires
  BY <1>4, <1>5, <1>7, DrawnDecays
<1>9. \A l \in LotIds : old.taken[l] = 0 /\ old.back[l] = 0
  <2>1. \A l \in LotIds : /\ old.taken[l] \in Nat /\ old.back[l] \in Nat
                          /\ old.back[l] <= old.taken[l] /\ ~(old.taken[l] > 0)
    BY <1>4 DEF Charge
  <2> QED
    BY <2>1
<1>10. Charge(v, x)
  <2>1. x.owed \in Nat
    BY <1>2, <1>4, <1>5
  <2>2. spent \in [LotIds -> Nat] /\ \A l \in LotIds : spent[l] > 0 => l \in DOMAIN v.lots
    BY <1>5, <1>6 DEF IsCut
  <2>3. \A l \in LotIds : 0 <= spent[l]
    BY <2>2
  <2> QED
    BY <1>2, <1>3, <1>4, <1>9, <2>1, <2>2, <2>3 DEF Charge
<1>11. /\ DOMAIN w.holds = DOMAIN v.holds /\ w.holds[h] = x
       /\ \A i \in DOMAIN v.holds : i # h => w.holds[i] = v.holds[i]
  BY <1>2, HoldsExcept
<1>12. /\ Promise(w)[h] = 0 /\ Promise(v)[h] = IF old.state = "held" THEN old.amount ELSE 0
  BY <1>2, <1>11 DEF Promise
<1>13. v.balance \in Nat /\ v.held \in Nat /\ Promise(v)[h] <= v.held /\ v.balance = Credits(v)
  BY <1>4, CreditsType, HeldType, HeldIsPromised DEF Balanced, Charge
<1>14. w.held = v.held - Promise(v)[h] + Promise(w)[h]
  BY <1>2, <1>4, <1>12, <1>13
<1>15. w.balance = Credits(w) /\ w.debt \in Nat
  BY <1>2, <1>4, <1>5, <1>8 DEF Balanced, Credits
<1>16. /\ w.lots = [l \in DOMAIN v.lots |-> w.lots[l]]
       /\ \A l \in DOMAIN v.lots :
            /\ LotShape(w.lots[l]) /\ w.lots[l].initial = v.lots[l].initial
            /\ w.lots[l].remaining + (x.taken[l] - x.back[l]) <=
                 v.lots[l].remaining + (old.taken[l] - old.back[l])
  <2>1. \A l \in DOMAIN v.lots : /\ LotShape(d.lots[l]) /\ l \in LotIds
                                 /\ d.lots[l].initial = v.lots[l].initial
                                 /\ d.lots[l].remaining = v.lots[l].remaining - spent[l]
                                 /\ v.lots[l].remaining \in Nat /\ spent[l] \in Nat
    BY <1>4, <1>5, <1>7, <1>8, LotsAreFew DEF Balanced, Drawn, IsCut, LotFields, LotShape, LotTypes
  <2>2. \A l \in DOMAIN v.lots :
          d.lots[l].remaining + (x.taken[l] - x.back[l]) <=
            v.lots[l].remaining + (old.taken[l] - old.back[l])
    BY <1>2, <1>3, <1>9, <2>1
  <2> QED
    BY <1>2, <1>7, <2>1, <2>2 DEF Drawn
<1>17. Balanced(w)
  BY <1>1, <1>2, <1>4, <1>10, <1>14, <1>15, <1>16, Recharged
<1>18. Worn(v) => Worn(w)
  BY <1>2, <1>4, <1>8, <1>11 DEF Worn, Lapsed
<1>19. ASSUME ~Worn(w) PROVE w.held <= w.balance /\ w.debt = 0
  <2>1. old.state = "held" /\ ~Worn(v) /\ \A l \in DOMAIN v.lots : ~Lapsed(v.lots[l])
    BY <1>2, <1>11, <1>18, <1>19 DEF Worn
  <2>2. v.held <= v.balance /\ v.debt = 0
    BY <2>1 DEF Accounted, Covered
  <2>3. old.amount <= Credits(v) /\ old.amount <= v.held
    BY <1>4, <1>12, <1>13, <2>1, <2>2
  <2>4. Total(spent) = old.amount
    BY <1>5, <2>1, <2>3
  <2>5. w.balance = v.balance - old.amount /\ w.held = v.held - old.amount /\ w.debt = 0
    BY <1>2, <1>4, <1>7, <2>1, <2>2, <2>4 DEF Drawn
  <2> QED
    BY <1>4, <1>13, <2>2, <2>3, <2>5
<1> QED
  BY <1>2, <1>8, <1>17, <1>19 DEF Accounted, Covered

LEMMA CaptureAccounts ==
  ASSUME NEW v, NEW h \in DOMAIN v.holds, Sound(v), Accounted(v)
  PROVE  Accounted(Capture(v, h))
<1> DEFINE w == Capture(v, h)
           old == v.holds[h]
           x == w.holds[h]
<1>1. Captured(v, w, h) /\ Sound(w)
  BY CaptureCaptures, CaptureIsFine DEF Fine
<1> SUFFICES Accounted(w)
  OBVIOUS
<1>2. CASE old.state = "captured" \/ Settled(old)
  <2> HIDE DEF w
  <2> QED
    BY <1>1, <1>2 DEF Captured
<1>3. CASE ~(old.state = "captured" \/ Settled(old)) /\ old.kind = "credits"
  BY <1>3, ChargeAccounts
<1>4. CASE ~(old.state = "captured" \/ Settled(old)) /\ old.kind # "credits"
  <2>1. /\ w.holds = [v.holds EXCEPT ![h] = x]
        /\ x.state = "captured"
        /\ \A f \in HoldFields \ {"state", "late", "taken", "owed"} : x[f] = old[f]
        /\ w.lots = v.lots /\ w.balance = v.balance /\ w.held = v.held /\ w.debt = v.debt
        /\ x.taken = old.taken /\ x.owed = old.owed
    <3> HIDE DEF w
    <3> QED
      BY <1>1, <1>4 DEF Captured
  <2>2. x.amount = old.amount /\ x.back = old.back /\ x.kind = old.kind
    <3> HIDE DEF w, x
    <3> QED
      BY <2>1 DEF HoldFields
  <2> HIDE DEF w, x
  <2>3. /\ Balanced(v) /\ v.debt \in Nat /\ Charge(v, old) /\ HoldShape(old)
        /\ \A l \in DOMAIN v.lots : Decayed(v.lots[l])
    BY DEF Accounted, Balanced, Sound
  <2>4. /\ DOMAIN w.holds = DOMAIN v.holds /\ w.holds[h] = x
        /\ \A i \in DOMAIN v.holds : i # h => w.holds[i] = v.holds[i]
    BY <2>1, HoldsExcept
  <2>5. Charge(v, x)
    BY <1>4, <2>1, <2>2, <2>3 DEF Charge
  <2>6. Promise(w)[h] = 0 /\ Promise(v)[h] = 0
    BY <1>4, <2>1, <2>4 DEF Promise
  <2>7. w.held = v.held - Promise(v)[h] + Promise(w)[h]
    <3>1. v.held \in Nat
      BY <2>3, HeldType DEF Balanced
    <3> QED
      BY <2>1, <2>6, <3>1
  <2>8. w.balance = Credits(w) /\ w.debt \in Nat
    BY <2>1, <2>3 DEF Balanced, Credits
  <2>9. /\ w.lots = [l \in DOMAIN v.lots |-> w.lots[l]]
        /\ \A l \in DOMAIN v.lots :
             /\ LotShape(w.lots[l]) /\ w.lots[l].initial = v.lots[l].initial
             /\ w.lots[l].remaining + (x.taken[l] - x.back[l]) <=
                  v.lots[l].remaining + (old.taken[l] - old.back[l])
    <3>1. \A l \in DOMAIN v.lots : /\ LotShape(v.lots[l]) /\ v.lots[l].remaining \in Int
                                   /\ old.taken[l] - old.back[l] \in Int
      BY <2>3, LotsAreFew DEF Balanced, Charge, LotShape, LotTypes
    <3>2. v.lots = [l \in DOMAIN v.lots |-> v.lots[l]]
      BY <2>3 DEF Balanced, LotsListed
    <3> QED
      BY <2>1, <2>2, <3>1, <3>2
  <2>10. Balanced(w)
    BY <1>1, <2>1, <2>3, <2>5, <2>7, <2>8, <2>9, Recharged
  <2>11. Worn(v) => Worn(w)
    BY <1>4, <2>1, <2>3, <2>4 DEF Worn, HoldShape
  <2> QED
    BY <2>1, <2>3, <2>10, <2>11 DEF Accounted, Covered
<1> QED
  BY <1>2, <1>3, <1>4

-----------------------------------------------------------------------------
(* Promising credits.                                                          *)

(* What PutHold does to a wallet, spelt out.                                   *)
Put(v, w, hold) ==
  LET n == Len(v.holds) + 1
  IN /\ DOMAIN w.holds = DOMAIN v.holds \cup {n} /\ n \notin DOMAIN v.holds
     /\ w.holds[n] = hold
     /\ \A h \in DOMAIN v.holds : /\ DOMAIN w.holds[h] = HoldFields
                                  /\ \A f \in HoldFields \ {"key"} : w.holds[h][f] = v.holds[h][f]
     /\ w.lots = v.lots /\ w.balance = v.balance /\ w.debt = v.debt
     /\ w.held = IF hold.kind = "credits" THEN v.held + hold.amount ELSE v.held

LEMMA PutHoldPuts ==
  ASSUME NEW v, NEW hold, Sound(v)
  PROVE  Put(v, PutHold(v, hold), hold)
<1> DEFINE w == PutHold(v, hold)
           n == Len(v.holds) + 1
           moved == [h \in DOMAIN v.holds |->
                       IF v.holds[h].key = hold.key THEN [v.holds[h] EXCEPT !.key = "superseded"]
                       ELSE v.holds[h]]
           S == {moved[h] : h \in DOMAIN v.holds} \cup {hold}
           T == {v.holds[h] : h \in DOMAIN v.holds}
           kept == [v EXCEPT !.holds = Append(moved, hold)]
<1>1. DOMAIN v = WalletFields /\ \A h \in DOMAIN v.holds : DOMAIN v.holds[h] = HoldFields
  BY DEF Sound, HoldShape
<1>2. PICK k \in Nat : v.holds \in [1 .. k -> T]
  BY DEF Sound, Listed
<1>3. v.holds \in Seq(T)
  BY <1>2, SeqDef
<1>4. DOMAIN v.holds = 1 .. Len(v.holds) /\ Len(v.holds) \in Nat
  BY <1>3, LenProperties
<1>5. moved \in [1 .. Len(v.holds) -> S]
  BY <1>4
<1>6. \A h \in DOMAIN v.holds : /\ DOMAIN moved[h] = HoldFields
                                /\ \A f \in HoldFields \ {"key"} : moved[h][f] = v.holds[h][f]
  BY <1>1 DEF HoldFields
<1>7. DOMAIN moved = 1 .. Len(v.holds) /\ hold \in S
  BY <1>4
<1>8. w = IF hold.kind = "credits" THEN [kept EXCEPT !.held = @ + hold.amount]
          ELSE AdjustQuota(kept, 0, 1)
  BY DEF PutHold
<1> HIDE DEF moved, S, T
<1>9. moved \in Seq(S) /\ Len(moved) = Len(v.holds)
  <2>1. moved \in Seq(S)
    BY <1>4, <1>5, SeqDef
  <2> QED
    BY <2>1, <1>4, <1>7, LenProperties
<1>10. /\ DOMAIN kept = WalletFields /\ kept.holds = Append(moved, hold)
      /\ kept.lots = v.lots /\ kept.balance = v.balance /\ kept.debt = v.debt /\ kept.held = v.held
  BY <1>1 DEF WalletFields
<1> HIDE DEF kept, w
<1>11. /\ w.holds = Append(moved, hold)
       /\ w.lots = v.lots /\ w.balance = v.balance /\ w.debt = v.debt
       /\ w.held = IF hold.kind = "credits" THEN v.held + hold.amount ELSE v.held
  BY <1>8, <1>10 DEF AdjustQuota, WalletFields
<1>12. /\ Append(moved, hold) \in Seq(S) /\ Len(Append(moved, hold)) = n
       /\ \A h \in 1 .. Len(v.holds) : Append(moved, hold)[h] = moved[h]
       /\ Append(moved, hold)[n] = hold
  BY <1>7, <1>9, AppendProperties
<1>13. DOMAIN w.holds = 1 .. n
  BY <1>11, <1>12, LenProperties
<1>14. DOMAIN w.holds = DOMAIN v.holds \cup {n} /\ n \notin DOMAIN v.holds
  BY <1>4, <1>13
<1>15. \A h \in DOMAIN v.holds : w.holds[h] = moved[h]
  BY <1>4, <1>11, <1>12
<1> QED
  BY <1>6, <1>11, <1>12, <1>14, <1>15 DEF Put, w

(* A promise is made only from what is there.                                  *)
LEMMA PutAccounts ==
  ASSUME NEW v, NEW w, NEW hold, Sound(v), Sound(w), Accounted(v), Put(v, w, hold),
         Charge(v, hold), hold.state = "held",
         hold.kind = "credits" => hold.amount <= Available(v)
  PROVE  Accounted(w)
<1> DEFINE n == Len(v.holds) + 1
<1>1. /\ DOMAIN w.holds = DOMAIN v.holds \cup {n} /\ n \notin DOMAIN v.holds
      /\ w.holds[n] = hold
      /\ w.lots = v.lots /\ w.balance = v.balance /\ w.debt = v.debt
      /\ w.held = IF hold.kind = "credits" THEN v.held + hold.amount ELSE v.held
  BY DEF Put
<1>2. \A h \in DOMAIN v.holds :
        /\ w.holds[h].amount = v.holds[h].amount /\ w.holds[h].owed = v.holds[h].owed
        /\ w.holds[h].taken = v.holds[h].taken /\ w.holds[h].back = v.holds[h].back
        /\ w.holds[h].state = v.holds[h].state /\ w.holds[h].kind = v.holds[h].kind
        /\ w.holds[h].late = v.holds[h].late
  BY DEF Put, HoldFields
<1>3. Balanced(v) /\ hold.amount \in Nat /\ v.debt \in Nat /\ IsFiniteSet(DOMAIN v.holds)
  BY HoldsAreFinite DEF Accounted, Balanced, Charge
<1> HIDE DEF n
<1>4. \A h \in DOMAIN w.holds : Charge(w, w.holds[h])
  <2> SUFFICES ASSUME NEW h \in DOMAIN w.holds PROVE Charge(w, w.holds[h])
    OBVIOUS
  <2>1. CASE h = n
    BY <2>1, <1>1 DEF Charge
  <2>2. CASE h \in DOMAIN v.holds
    <3>1. Charge(v, v.holds[h])
      BY <2>2, <1>3 DEF Balanced
    <3> QED
      BY <3>1, <2>2, <1>1, <1>2 DEF Charge
  <2> QED
    BY <2>1, <2>2, <1>1
<1>5. w.held = HeldCredits(w)
  <2>1. /\ \A h \in DOMAIN v.holds : v.holds[h].amount \in Nat
        /\ \A h \in DOMAIN w.holds : w.holds[h].amount \in Nat
    BY <1>3, <1>4 DEF Balanced, Charge
  <2>2. /\ HeldCredits(v) = Total(Promise(v)) /\ HeldCredits(w) = Total(Promise(w))
        /\ DOMAIN Promise(v) = DOMAIN v.holds /\ DOMAIN Promise(w) = DOMAIN w.holds
        /\ \A h \in DOMAIN v.holds : Promise(v)[h] \in Int
        /\ HeldCredits(v) \in Nat
    BY <2>1, HeldIsPromised
  <2>3. /\ \A h \in DOMAIN v.holds : Promise(w)[h] = Promise(v)[h]
        /\ Promise(w)[n] = IF hold.kind = "credits" THEN hold.amount ELSE 0
    BY <1>1, <1>2 DEF Promise
  <2>4. Promise(w)[n] \in Int
    BY <2>3, <1>3
  <2>5. Total(Promise(w)) = Total(Promise(v)) + Promise(w)[n]
    BY <1>1, <1>3, <2>2, <2>3, <2>4, TotalGrows
  <2> QED
    BY <1>1, <1>3, <2>2, <2>3, <2>5 DEF Balanced
<1>6. \A l \in DOMAIN v.lots : w.lots[l].remaining + Out(w, l) <= w.lots[l].initial
  <2> SUFFICES ASSUME NEW l \in DOMAIN v.lots
               PROVE  w.lots[l].remaining + Out(w, l) <= w.lots[l].initial
    OBVIOUS
  <2> DEFINE f == [h \in DOMAIN v.holds |-> v.holds[h].taken[l] - v.holds[h].back[l]]
             g == [h \in DOMAIN w.holds |-> w.holds[h].taken[l] - w.holds[h].back[l]]
  <2>1. l \in LotIds
    BY <1>3, LotsAreFew DEF Balanced
  <2>2. \A h \in DOMAIN v.holds : v.holds[h].taken[l] - v.holds[h].back[l] \in Int
    BY <1>3, <2>1 DEF Balanced, Charge
  <2>3. hold.taken[l] - hold.back[l] = 0
    <3>1. hold.taken[l] \in Nat /\ hold.back[l] \in Nat /\ hold.back[l] <= hold.taken[l]
          /\ ~(hold.taken[l] > 0)
      BY <2>1 DEF Charge
    <3> QED
      BY <3>1
  <2>4. /\ DOMAIN f = DOMAIN v.holds /\ DOMAIN g = DOMAIN v.holds \cup {n}
        /\ \A h \in DOMAIN v.holds : f[h] \in Int /\ g[h] = f[h]
        /\ g[n] = 0
    BY <1>1, <1>2, <2>2, <2>3
  <2>5. Out(v, l) = Total(f) /\ Out(w, l) = Total(g)
    BY DEF Out
  <2> HIDE DEF f, g
  <2>6. Total(g) = Total(f) + g[n]
    BY <1>1, <1>3, <2>4, TotalGrows
  <2>7. Out(v, l) \in Int /\ v.lots[l].remaining + Out(v, l) <= v.lots[l].initial
    BY <1>3, OutType DEF Balanced
  <2> QED
    BY <1>1, <2>4, <2>5, <2>6, <2>7
<1>7. Balanced(w)
  BY <1>1, <1>3, <1>4, <1>5, <1>6 DEF Balanced, LotsListed, Credits
<1>8. Worn(v) => Worn(w)
  BY <1>1, <1>2 DEF Worn
<1>9. Covered(w)
  BY <1>1, <1>3, <1>8, AvailableType DEF Accounted, Covered
<1> QED
  BY <1>1, <1>7, <1>9 DEF Accounted

-----------------------------------------------------------------------------
(* Refunds.                                                                    *)

(* What goes back is the part of the charge that percent asks for.             *)
LEMMA GivesGives ==
  ASSUME NEW v, NEW hold, NEW percent \in Nat, Balanced(v), Charge(v, hold)
  PROVE  LET give == Gives(v, hold, percent)
             net  == Nets(hold)
         IN /\ net \in [LotIds -> Nat] /\ Total(net) \in Nat
            /\ give \in [LotIds -> Nat] /\ Total(give) \in Nat
            /\ \A l \in LotIds : give[l] <= net[l]
            /\ Used(hold) \subseteq DOMAIN v.lots /\ Used(hold) \subseteq LotIds
            /\ \A l \in LotIds \ Used(hold) : give[l] = 0
            /\ percent <= 100 => Total(give) = (Total(net) * percent) \div 100
<1> DEFINE net == Nets(hold)
           left == (Total(net) * percent) \div 100
<1>1. net \in [LotIds -> Nat] /\ \A l \in LotIds \ Used(hold) : net[l] = 0
  <2>1. \A l \in LotIds : /\ hold.taken[l] \in Nat /\ hold.back[l] \in Nat
                          /\ hold.back[l] <= hold.taken[l]
    BY DEF Charge
  <2>2. \A l \in LotIds : net[l] = hold.taken[l] - hold.back[l] /\ net[l] \in Nat
    BY <2>1 DEF Nets
  <2>3. \A l \in LotIds \ Used(hold) : ~(hold.taken[l] > 0)
    BY DEF Used
  <2>4. \A l \in LotIds \ Used(hold) : net[l] = 0
    BY <2>1, <2>2, <2>3
  <2>5. net = [l \in LotIds |-> net[l]]
    BY DEF Nets
  <2> HIDE DEF net
  <2> QED
    BY <2>2, <2>4, <2>5
<1>2. Used(hold) \subseteq DOMAIN v.lots /\ Used(hold) \subseteq LotIds
  BY DEF Used, Charge
<1>3. IsFiniteSet(LotIds)
  BY LotsAreFew DEF Balanced
<1> HIDE DEF net
<1>4. Total(net) \in Nat
  BY <1>1, <1>3, TotalType
<1>5. left \in Nat
  <2>1. Total(net) * percent \in Nat
    BY <1>4
  <2> QED
    BY <2>1, QuotientType
<1>6. percent <= 100 => left <= Total(net)
  <2> SUFFICES ASSUME percent <= 100 PROVE left <= Total(net)
    OBVIOUS
  <2> DEFINE n == Total(net)
  <2>1. n \in Nat
    BY <1>4
  <2> HIDE DEF n
  <2>2. n * percent <= n * 100
    BY <2>1
  <2>3. (n * percent) \div 100 <= n
    <3>1. n * percent \in Nat
      BY <2>1
    <3> QED
      BY <2>1, <2>2, <3>1
  <2> QED
    BY <2>3 DEF n
<1> HIDE DEF left
<1> DEFINE give == GiveBack(v, net, Used(hold), left)
<1>7. /\ give \in [LotIds -> Nat] /\ \A l \in LotIds : give[l] <= net[l]
      /\ \A l \in LotIds \ Used(hold) : give[l] = 0
      /\ Total(give) \in Nat /\ (left <= Total(net) => Total(give) = left)
  BY <1>1, <1>2, <1>5, GiveBackGives
<1>8. give = Gives(v, hold, percent)
  BY DEF Gives, net, left
<1> HIDE DEF give
<1>9. percent <= 100 => Total(give) = left
  BY <1>6, <1>7
<1> QED
  BY <1>1, <1>2, <1>4, <1>7, <1>8, <1>9 DEF net, left

LEMMA WrittenOffType ==
  ASSUME NEW v, NEW hold, NEW percent, v.debt \in Nat, hold.owed \in Nat
  PROVE  WrittenOff(v, hold, percent) \in Nat /\ WrittenOff(v, hold, percent) <= v.debt
<1>1. Min({hold.owed, v.debt}) = IF hold.owed <= v.debt THEN hold.owed ELSE v.debt
  BY MinMax
<1>2. Min({hold.owed, v.debt}) \in Nat /\ Min({hold.owed, v.debt}) <= v.debt
  BY <1>1
<1> QED
  BY <1>2 DEF WrittenOff

(* With the credits back in their lots the figures agree, though a lot may     *)
(* have more than decay allows.                                                *)
LEMMA ReturnedBalances ==
  ASSUME NEW v, NEW r, NEW h \in DOMAIN v.holds, NEW percent \in Nat, Sound(v), Accounted(v),
         Returned(v, r, h, percent)
  PROVE  /\ Balanced(r) /\ DOMAIN r.lots = DOMAIN v.lots
         /\ v.balance <= r.balance /\ r.held = v.held /\ r.debt <= v.debt
         /\ \A l \in DOMAIN v.lots : /\ r.lots[l].periods = v.lots[l].periods
                                     /\ r.lots[l].expires = v.lots[l].expires
         /\ \A l \in DOMAIN v.lots \ Used(v.holds[h]) : Decayed(r.lots[l])
         /\ Worn(v) => Worn(r)
<1> DEFINE old == v.holds[h]
           x == r.holds[h]
           give == Gives(v, old, percent)
           off == WrittenOff(v, old, percent)
<1>1. /\ r.holds = [v.holds EXCEPT ![h] = x]
      /\ \A f \in HoldFields \ {"back", "forgiven"} : x[f] = old[f]
      /\ x.back = [l \in LotIds |-> old.back[l] + give[l]]
      /\ r.balance = v.balance + Total(give) /\ r.held = v.held /\ r.debt = v.debt - off
      /\ r.lots = [l \in DOMAIN v.lots |-> [v.lots[l] EXCEPT !.remaining = @ + give[l]]]
  BY DEF Returned
<1>2. /\ x.amount = old.amount /\ x.owed = old.owed /\ x.taken = old.taken /\ x.state = old.state
      /\ x.kind = old.kind /\ x.late = old.late
  <2> HIDE DEF x
  <2> QED
    BY <1>1 DEF HoldFields
<1>3. /\ Sound(r) /\ Balanced(v) /\ Charge(v, old) /\ v.debt \in Nat
      /\ \A l \in DOMAIN v.lots : Decayed(v.lots[l]) /\ LotShape(v.lots[l])
                                  /\ DOMAIN v.lots[l] = LotFields
  BY ReturnedIsFine DEF Fine, Accounted, Balanced, LotShape, LotTypes
<1>4. /\ give \in [LotIds -> Nat] /\ Total(give) \in Nat
      /\ \A l \in LotIds : give[l] <= old.taken[l] - old.back[l]
      /\ Used(old) \subseteq DOMAIN v.lots
      /\ \A l \in LotIds \ Used(old) : give[l] = 0
  BY <1>3, GivesGives DEF Nets
<1>5. off \in Nat /\ off <= v.debt
  BY <1>3, WrittenOffType DEF Charge
<1> HIDE DEF x, give, off
<1>6. /\ DOMAIN v.lots \subseteq LotIds /\ IsFiniteSet(DOMAIN v.lots) /\ IsFiniteSet(LotIds)
  BY <1>3, LotsAreFew DEF Balanced
<1>7. r.lots = [l \in DOMAIN v.lots |-> r.lots[l]] /\ DOMAIN r.lots = DOMAIN v.lots
  BY <1>1
<1>8. \A l \in DOMAIN v.lots :
         /\ DOMAIN r.lots[l] = LotFields
         /\ r.lots[l].initial = v.lots[l].initial /\ r.lots[l].percent = v.lots[l].percent
         /\ r.lots[l].periods = v.lots[l].periods /\ r.lots[l].expires = v.lots[l].expires
         /\ r.lots[l].every = v.lots[l].every /\ r.lots[l].granted = v.lots[l].granted
  BY <1>1, <1>3 DEF LotFields
<1>9. \A l \in DOMAIN v.lots : r.lots[l].remaining = v.lots[l].remaining + give[l]
  BY <1>1, <1>3 DEF LotFields
<1>10. \A l \in DOMAIN v.lots : v.lots[l].remaining \in Nat /\ give[l] \in Nat
  BY <1>3, <1>4, <1>6 DEF LotShape, LotTypes
<1>11. \A l \in DOMAIN v.lots : r.lots[l].remaining \in Nat
  <2> SUFFICES ASSUME NEW l \in DOMAIN v.lots PROVE r.lots[l].remaining \in Nat
    OBVIOUS
  <2>1. v.lots[l].remaining + give[l] \in Nat
    BY <1>10
  <2> QED
    BY <1>9, <2>1
<1>12. \A l \in DOMAIN v.lots : LotShape(r.lots[l])
  <2> SUFFICES ASSUME NEW l \in DOMAIN v.lots PROVE LotShape(r.lots[l])
    OBVIOUS
  <2>1. PeriodsDue(r.lots[l]) = PeriodsDue(v.lots[l])
    BY <1>8 DEF PeriodsDue
  <2> QED
    BY <1>3, <1>11, <1>8, <2>1 DEF LotShape, LotTypes
<1>13. Charge(v, x)
  <2>1. \A l \in LotIds : /\ old.taken[l] \in Nat /\ old.back[l] \in Nat /\ give[l] \in Nat
                          /\ give[l] <= old.taken[l] - old.back[l]
    BY <1>3, <1>4 DEF Charge
  <2>2. \A l \in LotIds : old.back[l] + give[l] \in Nat /\ old.back[l] + give[l] <= old.taken[l]
    BY <2>1
  <2>3. x.back \in [LotIds -> Nat] /\ \A l \in LotIds : x.back[l] <= x.taken[l]
    BY <1>1, <1>2, <2>2
  <2> QED
    BY <1>2, <1>3, <2>3 DEF Charge
<1>14. /\ DOMAIN r.holds = DOMAIN v.holds /\ r.holds[h] = x
       /\ \A i \in DOMAIN v.holds : i # h => r.holds[i] = v.holds[i]
  BY <1>1, HoldsExcept
<1>15. v.held \in Nat /\ v.balance \in Nat /\ Promise(v)[h] \in Nat /\ Promise(r)[h] = Promise(v)[h]
  <2>1. v.held \in Nat /\ v.balance \in Nat /\ Promise(v)[h] \in Nat
    BY <1>3, CreditsType, HeldType, HeldIsPromised DEF Balanced, Charge
  <2> QED
    BY <1>2, <1>14, <2>1 DEF Promise
<1>16. r.held = v.held - Promise(v)[h] + Promise(r)[h]
  BY <1>1, <1>15
<1>17. r.balance = Credits(r)
  <2> DEFINE f == [l \in DOMAIN v.lots |-> v.lots[l].remaining]
             g == [l \in DOMAIN r.lots |-> r.lots[l].remaining]
             c == [l \in DOMAIN v.lots |-> give[l]]
  <2>1. /\ DOMAIN f = DOMAIN v.lots /\ DOMAIN g = DOMAIN v.lots /\ DOMAIN c = DOMAIN v.lots
        /\ \A l \in DOMAIN v.lots : /\ f[l] = v.lots[l].remaining /\ c[l] = give[l]
                                    /\ g[l] = r.lots[l].remaining
    BY <1>7
  <2>2. Credits(v) = Total(f) /\ Credits(r) = Total(g) /\ DOMAIN give = LotIds
    BY <1>4 DEF Credits
  <2> HIDE DEF f, g, c
  <2>3. \A l \in DOMAIN v.lots : f[l] \in Int /\ c[l] \in Int /\ g[l] = f[l] + c[l] /\ c[l] = give[l]
    BY <1>9, <1>10, <2>1
  <2>4. Total(g) = Total(f) + Total(c)
    BY <1>6, <2>1, <2>3, TotalPlus
  <2>5. Total(give) = Total(c)
    BY <1>4, <1>6, <2>1, <2>3, <2>2, TotalWithin
  <2> QED
    BY <1>1, <1>3, <2>2, <2>4, <2>5 DEF Balanced
<1>18. \A l \in DOMAIN v.lots :
         /\ LotShape(r.lots[l]) /\ r.lots[l].initial = v.lots[l].initial
         /\ r.lots[l].remaining + (x.taken[l] - x.back[l]) <=
              v.lots[l].remaining + (old.taken[l] - old.back[l])
  <2>1. \A l \in DOMAIN v.lots : /\ old.taken[l] \in Nat /\ old.back[l] \in Nat
                                 /\ x.taken[l] = old.taken[l] /\ x.back[l] = old.back[l] + give[l]
    BY <1>1, <1>2, <1>3, <1>6 DEF Charge
  <2>2. \A l \in DOMAIN v.lots :
          r.lots[l].remaining + (x.taken[l] - x.back[l]) <=
            v.lots[l].remaining + (old.taken[l] - old.back[l])
    <3> SUFFICES ASSUME NEW l \in DOMAIN v.lots
                 PROVE  (v.lots[l].remaining + give[l]) + (old.taken[l] - (old.back[l] + give[l])) <=
                          v.lots[l].remaining + (old.taken[l] - old.back[l])
      BY <1>9, <2>1
    <3> QED
      BY <1>10, <2>1
  <2> QED
    BY <1>12, <1>8, <2>2
<1>19. r.debt \in Nat /\ r.debt <= v.debt
  BY <1>1, <1>3, <1>5
<1>20. Balanced(r)
  BY <1>1, <1>3, <1>7, <1>13, <1>16, <1>17, <1>18, <1>19, Recharged
<1>21. \A l \in DOMAIN v.lots \ Used(old) : Decayed(r.lots[l])
  <2>1. \A l \in DOMAIN v.lots \ Used(old) : r.lots[l].remaining = v.lots[l].remaining
    <3> SUFFICES ASSUME NEW l \in DOMAIN v.lots, l \notin Used(old)
                 PROVE  r.lots[l].remaining = v.lots[l].remaining
      OBVIOUS
    <3>1. give[l] = 0
      BY <1>4, <1>6
    <3>2. v.lots[l].remaining + 0 = v.lots[l].remaining
      BY <1>10
    <3> QED
      BY <1>9, <3>1, <3>2
  <2> QED
    BY <1>3, <1>8, <2>1 DEF Decayed
<1>22. Worn(v) => Worn(r)
  BY <1>2, <1>7, <1>8, <1>14 DEF Worn, Lapsed
<1>23. v.balance <= r.balance
  BY <1>1, <1>4, <1>15
<1> QED
  BY <1>1, <1>7, <1>8, <1>19, <1>20, <1>21, <1>22, <1>23

(* Then decay and expiry take again what they had taken.                       *)
LEMMA TrimAccounts ==
  ASSUME NEW v, NEW r, NEW ids, Sound(r), Accounted(v), Balanced(r), DOMAIN r.lots = DOMAIN v.lots,
         v.balance <= r.balance, r.held = v.held, r.debt <= v.debt,
         \A l \in DOMAIN r.lots \ ids : Decayed(r.lots[l]), Worn(v) => Worn(r)
  PROVE  Accounted(Trim(r, ids)) /\ Sound(Trim(r, ids))
<1> DEFINE Left(lot) == IF Lapsed(lot) THEN 0 ELSE Capped(lot, lot.periods)
           cut == [l \in DOMAIN r.lots |->
                     IF l \in ids THEN r.lots[l].remaining - Left(r.lots[l]) ELSE 0]
           t == Draw(r, cut)
<1>1. t = Trim(r, ids)
  BY DEF Trim
<1>2. /\ DOMAIN r = WalletFields /\ r.debt \in Nat /\ DOMAIN r.lots \subseteq LotIds
      /\ \A l \in DOMAIN r.lots : /\ LotShape(r.lots[l]) /\ LotTypes(r.lots[l])
                                  /\ DOMAIN r.lots[l] = LotFields
  BY LotsAreFew DEF Sound, Balanced, LotShape, LotTypes
<1>3. \A l \in DOMAIN r.lots :
        /\ Left(r.lots[l]) \in Nat /\ Left(r.lots[l]) <= r.lots[l].remaining
        /\ r.lots[l].percent # 0 =>
             Left(r.lots[l]) <= AllowedAfter(r.lots[l].initial, r.lots[l].percent, r.lots[l].periods)
  <2> SUFFICES ASSUME NEW l \in DOMAIN r.lots
               PROVE  /\ Left(r.lots[l]) \in Nat /\ Left(r.lots[l]) <= r.lots[l].remaining
                      /\ r.lots[l].percent # 0 =>
                           Left(r.lots[l]) <= AllowedAfter(r.lots[l].initial, r.lots[l].percent,
                                                           r.lots[l].periods)
    OBVIOUS
  <2>1. /\ r.lots[l].remaining \in Nat /\ r.lots[l].periods \in Nat
        /\ r.lots[l].initial \in Nat /\ r.lots[l].percent \in Nat
    BY <1>2 DEF LotTypes
  <2>2. AllowedAfter(r.lots[l].initial, r.lots[l].percent, r.lots[l].periods) \in Nat
    BY <2>1, AllowedType
  <2>3. /\ Capped(r.lots[l], r.lots[l].periods) \in Nat
        /\ Capped(r.lots[l], r.lots[l].periods) <= r.lots[l].remaining
        /\ r.lots[l].percent # 0 =>
             Capped(r.lots[l], r.lots[l].periods) <=
               AllowedAfter(r.lots[l].initial, r.lots[l].percent, r.lots[l].periods)
    BY <1>2, <2>1, CappedType
  <2> QED
    BY <2>1, <2>2, <2>3
<1>4. \A l \in DOMAIN r.lots : r.lots[l].remaining \in Nat
  BY <1>2 DEF LotTypes
<1> HIDE DEF Left
<1>5. /\ DOMAIN cut = DOMAIN r.lots
      /\ \A l \in DOMAIN r.lots : cut[l] \in Nat /\ cut[l] <= r.lots[l].remaining
      /\ \A l \in DOMAIN r.lots : l \in ids => r.lots[l].remaining - cut[l] = Left(r.lots[l])
  BY <1>3, <1>4
<1>6. \A l \in DOMAIN r.lots : ~Worn(r) => cut[l] = 0
  <2> SUFFICES ASSUME NEW l \in DOMAIN r.lots, ~Worn(r) PROVE cut[l] = 0
    OBVIOUS
  <2> DEFINE lot == r.lots[l]
  <2>1. ~Lapsed(lot) /\ ~(lot.periods > 0) /\ lot.periods \in Nat
    BY <1>2 DEF Worn, LotTypes
  <2>2. lot.periods = 0
    BY <2>1
  <2>3. lot.remaining \in Nat /\ lot.initial \in Nat /\ lot.percent \in Nat
    BY <1>2 DEF LotTypes
  <2>4. lot.remaining <= lot.initial
    <3>1. Out(r, l) \in Nat /\ lot.remaining + Out(r, l) <= lot.initial
      BY OutType DEF Balanced
    <3> QED
      BY <2>3, <3>1
  <2>5. AllowedAfter(lot.initial, lot.percent, lot.periods) = lot.initial
    BY <2>2, <2>3, AllowedType
  <2>6. Capped(lot, lot.periods) = lot.remaining
    BY <1>2, <2>1, <2>4, <2>5, CappedType
  <2>7. Left(lot) = lot.remaining
    BY <2>1, <2>6 DEF Left
  <2> QED
    BY <2>3, <2>7
<1>7. IsCut(r, cut)
  BY <1>2, <1>5 DEF IsCut
<1> HIDE DEF cut
<1>8. Drawn(r, t, cut) /\ t.debt = r.debt /\ Same(r, t)
  BY <1>2, DrawDraws, DrawSame
<1> HIDE DEF t
<1>9. Balanced(t) /\ DOMAIN t.lots = DOMAIN r.lots
  BY <1>2, <1>7, <1>8, DrawnBalances DEF Drawn
<1>10. \A l \in DOMAIN r.lots :
         /\ t.lots[l].remaining = r.lots[l].remaining - cut[l]
         /\ t.lots[l].percent = r.lots[l].percent /\ t.lots[l].initial = r.lots[l].initial
         /\ t.lots[l].periods = r.lots[l].periods /\ t.lots[l].expires = r.lots[l].expires
  BY <1>8 DEF Drawn, LotFields
<1>11. \A l \in DOMAIN t.lots : Decayed(t.lots[l])
  <2> SUFFICES ASSUME NEW l \in DOMAIN r.lots, r.lots[l].percent # 0
               PROVE  t.lots[l].remaining <=
                        AllowedAfter(r.lots[l].initial, r.lots[l].percent, r.lots[l].periods)
    BY <1>9, <1>10 DEF Decayed
  <2> DEFINE a == AllowedAfter(r.lots[l].initial, r.lots[l].percent, r.lots[l].periods)
  <2>1. a \in Nat
    BY <1>2, AllowedType DEF LotTypes
  <2>2. CASE l \in ids
    BY <2>2, <1>3, <1>5, <1>10
  <2>3. CASE l \notin ids
    <3>1. r.lots[l].remaining <= a
      BY <2>3 DEF Decayed
    <3> HIDE DEF a
    <3>2. t.lots[l].remaining <= a
      BY <1>4, <1>5, <1>10, <2>1, <3>1
    <3> QED
      BY <3>2 DEF a
  <2> QED
    BY <2>2, <2>3
<1>12. Worn(r) => Worn(t)
  BY <1>8, <1>9, <1>10 DEF Worn, Lapsed, Drawn
<1>13. ASSUME ~Worn(t) PROVE t.held <= t.balance /\ t.debt = 0
  <2>1. ~Worn(r) /\ ~Worn(v)
    BY <1>12, <1>13
  <2>2. v.held <= v.balance /\ v.debt = 0
    BY <2>1 DEF Accounted, Covered
  <2>3. Total(cut) = 0
    BY <1>6, <1>7, <2>1, CutTotal
  <2>4. v.balance \in Nat /\ r.balance \in Nat /\ r.held \in Nat
    BY CreditsType, HeldType DEF Accounted, Balanced
  <2>5. t.held = r.held /\ t.balance = r.balance
    BY <1>8, <2>3, <2>4 DEF Drawn
  <2> QED
    BY <1>2, <1>8, <2>2, <2>4, <2>5
<1>14. Sound(t)
  BY <1>8, SameIsFine DEF Fine
<1> QED
  BY <1>1, <1>9, <1>11, <1>13, <1>14 DEF Accounted, Covered

LEMMA SameAccounts ==
  ASSUME NEW v, NEW w, Accounted(v), w.lots = v.lots, w.holds = v.holds, w.balance = v.balance,
         w.held = v.held, w.debt = v.debt
  PROVE  Accounted(w)
<1>1. Balanced(w)
  <2>1. HeldCredits(w) = HeldCredits(v) /\ Credits(w) = Credits(v) /\ \A l : Out(w, l) = Out(v, l)
    BY SameHeld, SameOut DEF Credits
  <2>2. \A h \in DOMAIN w.holds : Charge(w, w.holds[h])
    BY DEF Accounted, Balanced, Charge
  <2>3. LotsListed(w)
    BY DEF Accounted, Balanced, LotsListed
  <2> QED
    BY <2>1, <2>2, <2>3 DEF Accounted, Balanced
<1> QED
  BY <1>1 DEF Accounted, Covered, Worn

LEMMA RefundAccounts ==
  ASSUME NEW v, NEW h \in DOMAIN v.holds, NEW percent \in Nat, Sound(v), Accounted(v)
  PROVE  Accounted(Refund(v, h, percent))
<1>1. CASE v.holds[h].kind = "credits"
  <2> DEFINE ids == Used(v.holds[h])
  <2>1. PICK r : Returned(v, r, h, percent) /\ Refund(v, h, percent) = SettleDebt(Trim(r, ids))
    BY <1>1, RefundReturns
  <2>2. Sound(r)
    BY <2>1, ReturnedIsFine DEF Fine
  <2>3. /\ Balanced(r) /\ DOMAIN r.lots = DOMAIN v.lots
        /\ v.balance <= r.balance /\ r.held = v.held /\ r.debt <= v.debt
        /\ \A l \in DOMAIN r.lots \ ids : Decayed(r.lots[l])
        /\ Worn(v) => Worn(r)
    BY <2>1, ReturnedBalances
  <2> HIDE DEF ids
  <2>4. Accounted(Trim(r, ids)) /\ Sound(Trim(r, ids))
    BY <2>2, <2>3, TrimAccounts
  <2> QED
    BY <2>1, <2>4, SettleAccounts
<1>2. CASE v.holds[h].kind # "credits"
  <2> DEFINE w == Refund(v, h, percent)
  <2>1. DOMAIN v = WalletFields
    BY DEF Sound
  <2>2. /\ w.lots = v.lots /\ w.holds = v.holds /\ w.balance = v.balance /\ w.held = v.held
        /\ w.debt = v.debt
    BY <1>2, <2>1 DEF Refund, AdjustQuota, WalletFields
  <2> HIDE DEF w
  <2>3. Accounted(w)
    BY <2>2, SameAccounts
  <2> QED
    BY <2>3 DEF w
<1> QED
  BY <1>1, <1>2

-----------------------------------------------------------------------------
(* A refund is given once. *)

(* What one entry of the refund log says of its hold.                          *)
GaveBack(hold, r) ==
  r.outcome = "refunded" =>
    /\ Paid(hold)
    /\ hold.kind = "credits" =>
         Net(hold) = Total(hold.taken) - (Total(hold.taken) * r.percent) \div 100

(* Nothing went back for a hold that has no entry.                             *)
Settlement(v, log) ==
  /\ \A r \in log : r.hold \in DOMAIN v.holds /\ GaveBack(v.holds[r.hold], r)
  /\ \A h \in DOMAIN v.holds :
       (\E r \in log : r.hold = h) \/ \A l \in LotIds : v.holds[h].back[l] = 0

(* A transaction that gives nothing back.                                      *)
Backs(v, w) ==
  /\ \A h \in DOMAIN v.holds : h \in DOMAIN w.holds /\ w.holds[h].back = v.holds[h].back
  /\ \A h \in DOMAIN w.holds \ DOMAIN v.holds : \A l \in LotIds : w.holds[h].back[l] = 0

LEMMA SettlementStays ==
  ASSUME NEW v, NEW w, NEW log, Settlement(v, log), Keeps(v, w), Backs(v, w)
  PROVE  Settlement(w, log)
<1>1. ASSUME NEW r \in log PROVE r.hold \in DOMAIN w.holds /\ GaveBack(w.holds[r.hold], r)
  <2> DEFINE old == v.holds[r.hold]
             x == w.holds[r.hold]
  <2>1. r.hold \in DOMAIN v.holds /\ GaveBack(old, r)
    BY <1>1 DEF Settlement
  <2>2. r.hold \in DOMAIN w.holds /\ x.back = old.back /\ x.kind = old.kind
    BY <2>1 DEF Backs, Keeps
  <2>3. Paid(old) => x.state = old.state /\ x.reason = old.reason /\ x.taken = old.taken
    BY <2>1 DEF Keeps
  <2> HIDE DEF old, x
  <2>4. GaveBack(x, r)
    BY <2>1, <2>2, <2>3 DEF GaveBack, Paid, Net
  <2> QED
    BY <2>2, <2>4 DEF x
<1>2. ASSUME NEW h \in DOMAIN w.holds
      PROVE  (\E r \in log : r.hold = h) \/ \A l \in LotIds : w.holds[h].back[l] = 0
  BY <1>2 DEF Settlement, Backs
<1> QED
  BY <1>1, <1>2 DEF Settlement

LEMMA SameBacks ==
  ASSUME NEW v, NEW w, w.holds = v.holds
  PROVE  Backs(v, w)
BY DEF Backs

LEMMA BacksChain ==
  ASSUME NEW u, NEW v, NEW w, Backs(u, v), Backs(v, w)
  PROVE  Backs(u, w)
BY DEF Backs

LEMMA ReleaseBacks ==
  ASSUME NEW v, NEW h \in DOMAIN v.holds, NEW reason, Sound(v)
  PROVE  Backs(v, Release(v, h, reason))
<1> DEFINE w == Release(v, h, reason)
           x == [v.holds[h] EXCEPT !.state = "released", !.reason = reason]
<1>1. Released(v, w, h, reason)
  BY ReleaseReleases
<1> SUFFICES Backs(v, w)
  OBVIOUS
<1> HIDE DEF w
<1>2. CASE v.holds[h].state # "held"
  BY <1>1, <1>2, SameBacks DEF Released
<1>3. CASE v.holds[h].state = "held"
  <2>1. w.holds = [v.holds EXCEPT ![h] = x] /\ x.back = v.holds[h].back
    BY <1>1, <1>3 DEF Released, HoldFields
  <2> HIDE DEF x
  <2>2. /\ DOMAIN w.holds = DOMAIN v.holds /\ w.holds[h] = x
        /\ \A i \in DOMAIN v.holds : i # h => w.holds[i] = v.holds[i]
    BY <2>1, HoldsExcept
  <2> QED
    BY <2>1, <2>2 DEF Backs
<1> QED
  BY <1>2, <1>3

LEMMA CaptureBacks ==
  ASSUME NEW v, NEW h \in DOMAIN v.holds, Sound(v)
  PROVE  Backs(v, Capture(v, h))
<1> DEFINE w == Capture(v, h)
           x == w.holds[h]
<1>1. Captured(v, w, h)
  BY CaptureCaptures
<1> SUFFICES Backs(v, w)
  OBVIOUS
<1> HIDE DEF w
<1>2. CASE v.holds[h].state = "captured" \/ Settled(v.holds[h])
  BY <1>1, <1>2, SameBacks DEF Captured
<1>3. CASE ~(v.holds[h].state = "captured" \/ Settled(v.holds[h]))
  <2>1. w.holds = [v.holds EXCEPT ![h] = x] /\ x.back = v.holds[h].back
    BY <1>1, <1>3 DEF Captured, HoldFields
  <2> HIDE DEF x
  <2>2. /\ DOMAIN w.holds = DOMAIN v.holds /\ w.holds[h] = x
        /\ \A i \in DOMAIN v.holds : i # h => w.holds[i] = v.holds[i]
    BY <2>1, HoldsExcept
  <2> QED
    BY <2>1, <2>2 DEF Backs
<1> QED
  BY <1>2, <1>3

LEMMA PutBacks ==
  ASSUME NEW v, NEW w, NEW hold, Put(v, w, hold), \A l \in LotIds : hold.back[l] = 0
  PROVE  Backs(v, w)
BY DEF Put, Backs, HoldFields

(* What a first refund does to the holds of a wallet: the charge is left what  *)
(* the policy leaves it.                                                       *)
Refunded(v, w, h, percent) ==
  LET old == v.holds[h]
      x   == w.holds[h]
  IN /\ OneChanged(v, w, h)
     /\ \A f \in HoldFields \ {"back", "forgiven"} : x[f] = old[f]
     /\ Net(x) = Total(old.taken) - (Total(old.taken) * percent) \div 100
     /\ Total(x.back) = (Total(old.taken) * percent) \div 100
     /\ x.forgiven = WrittenOff(v, old, percent)

LEMMA RefundGives ==
  ASSUME NEW v, NEW h \in DOMAIN v.holds, NEW percent \in 0 .. 100, Sound(v), Accounted(v),
         v.holds[h].kind = "credits", \A l \in LotIds : v.holds[h].back[l] = 0
  PROVE  Refunded(v, Refund(v, h, percent), h, percent)
<1> DEFINE w == Refund(v, h, percent)
           old == v.holds[h]
           give == Gives(v, old, percent)
<1>1. PICK r : Returned(v, r, h, percent) /\ w = SettleDebt(Trim(r, Used(old)))
  BY RefundReturns
<1> DEFINE x == r.holds[h]
<1>2. /\ r.holds = [v.holds EXCEPT ![h] = x] /\ DOMAIN r = WalletFields
      /\ x.taken = old.taken /\ x.back = [l \in LotIds |-> old.back[l] + give[l]]
      /\ x.forgiven = WrittenOff(v, old, percent)
      /\ \A f \in HoldFields \ {"back", "forgiven"} : x[f] = old[f]
  BY <1>1 DEF Returned, HoldFields
<1>3. w.holds = r.holds
  BY <1>1, <1>2, TrimSame, SettleSame, SameChain DEF Same
<1>4. /\ Balanced(v) /\ Charge(v, old) /\ IsFiniteSet(LotIds)
  BY LotsAreFew DEF Accounted, Balanced
<1>5. /\ give \in [LotIds -> Nat] /\ Total(give) \in Nat
      /\ Total(give) = (Total(Nets(old)) * percent) \div 100
  <2>1. percent \in Nat /\ percent <= 100
    OBVIOUS
  <2> QED
    BY <1>4, <2>1, GivesGives
<1>6. Nets(old) = old.taken
  <2>1. \A l \in LotIds : old.taken[l] - old.back[l] = old.taken[l]
    BY <1>4 DEF Charge
  <2>2. old.taken = [l \in LotIds |-> old.taken[l]]
    BY <1>4 DEF Charge
  <2> QED
    BY <2>1, <2>2 DEF Nets
<1> HIDE DEF w, x, give
<1>7. Net(x) = Total(old.taken) - Total(give)
  <2> DEFINE n == [l \in LotIds |-> x.taken[l] - x.back[l]]
  <2>1. \A l \in LotIds : x.back[l] = give[l] /\ give[l] \in Nat /\ old.taken[l] \in Nat
    BY <1>2, <1>4, <1>5 DEF Charge
  <2>2. \A l \in LotIds : n[l] = old.taken[l] - give[l]
    BY <1>2, <2>1
  <2>3. DOMAIN n = LotIds /\ DOMAIN give = LotIds /\ DOMAIN old.taken = LotIds /\ Net(x) = Total(n)
    BY <1>4, <1>5 DEF Net, Charge
  <2> HIDE DEF n
  <2>4. \A l \in LotIds : n[l] \in Int /\ give[l] \in Int /\ old.taken[l] = n[l] + give[l]
    BY <2>1, <2>2
  <2>5. Total(old.taken) = Total(n) + Total(give)
    BY <1>4, <2>3, <2>4, TotalPlus
  <2>6. Total(n) \in Int
    BY <1>4, <2>3, <2>4, TotalType
  <2> QED
    BY <1>5, <2>3, <2>5, <2>6
<1>8. /\ DOMAIN r.holds = DOMAIN v.holds /\ r.holds[h] = x
      /\ \A i \in DOMAIN v.holds : i # h => r.holds[i] = v.holds[i]
  BY <1>2, HoldsExcept
<1>9. Total(x.back) = Total(give)
  <2>1. \A l \in LotIds : x.back[l] = give[l] /\ give[l] \in Nat
    BY <1>2, <1>5
  <2>2. x.back = give
    BY <1>2, <1>5, <2>1
  <2> QED
    BY <2>2
<1> QED
  BY <1>2, <1>3, <1>5, <1>6, <1>7, <1>8, <1>9 DEF w, Refunded, OneChanged

-----------------------------------------------------------------------------
(* Time.                                                                       *)

(* Time alone: more periods come due, more lots lapse.                         *)
LEMMA QuotientGrows ==
  ASSUME NEW a \in Nat, NEW b \in Nat, a <= b, NEW e \in Nat \ {0}
  PROVE  a \div e <= b \div e
<1> DEFINE p == a \div e
           q == b \div e
<1>1. /\ p \in Int /\ q \in Int /\ e * p <= a /\ b < e * q + e
  OBVIOUS
<1> HIDE DEF p, q
<1>2. e * p < e * q + e
  BY <1>1
<1>3. ASSUME q < p PROVE FALSE
  <2>1. q + 1 <= p
    BY <1>1, <1>3
  <2>2. e * (q + 1) <= e * p
    BY <1>1, <2>1
  <2>3. e * (q + 1) = e * q + e
    BY <1>1
  <2> QED
    BY <1>1, <1>2, <2>2, <2>3
<1> QED
  BY <1>1, <1>3 DEF p, q

LEMMA PeriodsGrow ==
  ASSUME now \in Nat, now' = now + 1, NEW lot, LotTypes(lot)
  PROVE  LotTypes(lot)' /\ PeriodsDue(lot) <= PeriodsDue(lot)' /\ PeriodsDue(lot)' \in Nat
<1>1. LotTypes(lot)'
  BY DEF LotTypes
<1>2. CASE lot.percent = 0
  BY <1>1, <1>2 DEF PeriodsDue
<1>3. CASE lot.percent # 0
  <2> DEFINE a == (now - lot.granted) \div lot.every
             b == ((now + 1) - lot.granted) \div lot.every
             m == MaxPeriods(lot.percent)
  <2>1. /\ now - lot.granted \in Nat /\ (now + 1) - lot.granted \in Nat
        /\ now - lot.granted <= (now + 1) - lot.granted
        /\ lot.percent \in Nat \ {0} /\ lot.every \in Nat \ {0} /\ 100 + lot.percent - 1 \in Nat
    BY <1>3 DEF LotTypes
  <2>2. a \in Nat /\ b \in Nat /\ m \in Nat
    BY <2>1, QuotientType DEF MaxPeriods
  <2>3. a <= b
    BY <2>1, QuotientGrows
  <2>4. PeriodsDue(lot) = Min({a, m}) /\ PeriodsDue(lot)' = Min({b, m})
    BY <1>3 DEF PeriodsDue
  <2> HIDE DEF a, b, m
  <2>5. /\ Min({a, m}) = (IF a <= m THEN a ELSE m)
        /\ Min({b, m}) = (IF b <= m THEN b ELSE m)
    BY <2>2, MinMax
  <2> QED
    BY <1>1, <2>2, <2>3, <2>4, <2>5
<1> QED
  BY <1>2, <1>3

(* The books say the same of the next state, at the same time or one later.    *)
LEMMA BooksStay ==
  ASSUME now' = now, Accounted(wallet')
  PROVE  Accounted(wallet)'
BY DEF Accounted, Balanced, LotShape, LotTypes, PeriodsDue, Covered, Worn, Lapsed, Decayed, Charge,
       LotsListed, Credits, HeldCredits, Open, Out

LEMMA TickAccounts ==
  ASSUME Accounted(wallet), now' = now + 1, wallet' = wallet
  PROVE  Accounted(wallet)'
<1>1. now \in Nat /\ now' \in Nat
  BY DEF Accounted, Balanced
<1>2. \A l \in DOMAIN wallet.lots : LotShape(wallet.lots[l])'
  <2> SUFFICES ASSUME NEW l \in DOMAIN wallet.lots PROVE LotShape(wallet.lots[l])'
    OBVIOUS
  <2>1. PICK lot : lot = wallet.lots[l]
    OBVIOUS
  <2>2. LotTypes(lot) /\ lot.periods <= PeriodsDue(lot)
    BY <2>1 DEF Accounted, Balanced, LotShape
  <2>3. LotTypes(lot)' /\ PeriodsDue(lot) <= PeriodsDue(lot)' /\ PeriodsDue(lot)' \in Nat
    BY <1>1, <2>2, PeriodsGrow
  <2>4. lot.periods \in Nat /\ PeriodsDue(lot) \in Nat
    BY <1>1, <2>2, PeriodsType DEF LotTypes
  <2>5. lot.periods <= PeriodsDue(lot)'
    BY <2>2, <2>3, <2>4
  <2> QED
    BY <2>1, <2>3, <2>5 DEF LotShape, LotTypes, PeriodsDue
<1>3. Worn(wallet) => Worn(wallet)'
  BY <1>1 DEF Worn, Lapsed, Accounted, Balanced, LotShape, LotTypes
<1> QED
  BY <1>1, <1>2, <1>3 DEF Accounted, Balanced, Covered, Decayed

LEMMA InitAccounts ==
  ASSUME Init
  PROVE  Accounted(wallet)
<1>1. /\ now = 0 /\ wallet.lots = <<>> /\ wallet.holds = <<>>
      /\ wallet.balance = 0 /\ wallet.held = 0 /\ wallet.debt = 0
  BY DEF Init, WalletInit
<1>2. DOMAIN wallet.lots = {} /\ DOMAIN wallet.holds = {}
  BY <1>1
<1>3. LotsListed(wallet)
  BY <1>1, WalletAssumption DEF LotsListed
<1>4. Credits(wallet) = 0 /\ HeldCredits(wallet) = 0
  BY <1>2, TotalZero, FS_EmptySet DEF Credits, HeldCredits, Open
<1> QED
  BY <1>1, <1>2, <1>3, <1>4 DEF Accounted, Balanced, Covered

-----------------------------------------------------------------------------
(* Every step keeps the books.                                                 *)

(* The invariant of the credits, on top of that of the holds.                  *)
CInv ==
  /\ Accounted(wallet)
  /\ Settlement(wallet, refundLog)
  /\ \A e \in pending : e.percent \in 0 .. 100

LEMMA DueHere ==
  ASSUME IInv, CInv
  PROVE  /\ Sound(Due(wallet)) /\ Accounted(Due(wallet)) /\ Backs(wallet, Due(wallet))
         /\ Due(wallet).holds = wallet.holds /\ Keeps(wallet, Due(wallet))
BY DueIsFine, DueAccounts, SameBacks DEF Fine, IInv, CInv

LEMMA DueLots ==
  ASSUME NEW v, Sound(v), Accounted(v)
  PROVE  DOMAIN Due(v).lots = DOMAIN v.lots /\ Len(Due(v).lots) = Len(v.lots)
<1> DEFINE w == Due(v)
<1>1. DOMAIN w.lots = DOMAIN v.lots
  <2>1. DOMAIN v = WalletFields
    BY DEF Sound
  <2> QED
    BY <2>1 DEF Due, Draw, WalletFields
<1>2. LotsListed(v) /\ LotsListed(w)
  BY DueAccounts DEF Accounted, Balanced
<1> HIDE DEF w
<1>3. ASSUME NEW u, LotsListed(u) PROVE DOMAIN u.lots = 1 .. Len(u.lots) /\ Len(u.lots) \in Nat
  <2> DEFINE S == {u.lots[l] : l \in DOMAIN u.lots}
  <2>1. PICK n \in Nat : u.lots = [l \in 1 .. n |-> u.lots[l]]
    BY <1>3 DEF LotsListed
  <2>2. DOMAIN u.lots = 1 .. n
    BY <2>1
  <2>3. u.lots \in [1 .. n -> S]
    BY <2>1, <2>2
  <2> HIDE DEF S
  <2>4. u.lots \in Seq(S)
    BY <2>3, SeqDef
  <2> QED
    BY <2>4, LenProperties
<1>4. 1 .. Len(w.lots) = 1 .. Len(v.lots) /\ Len(w.lots) \in Nat /\ Len(v.lots) \in Nat
  BY <1>1, <1>2, <1>3
<1>5. \A m, n \in Nat : 1 .. m = 1 .. n => m = n
  <2> SUFFICES ASSUME NEW m \in Nat, NEW n \in Nat, 1 .. m = 1 .. n PROVE m = n
    OBVIOUS
  <2>1. (m >= 1 => m \in 1 .. n) /\ (n >= 1 => n \in 1 .. m)
    OBVIOUS
  <2> QED
    BY <2>1
<1> QED
  BY <1>1, <1>4, <1>5 DEF w

(* A step that refunds nothing.                                                *)
LEMMA CreditsGoOn ==
  ASSUME CInv, now' = now, Accounted(wallet'), Keeps(wallet, wallet'), Backs(wallet, wallet'),
         UNCHANGED refundLog, \A e \in pending' : e.percent \in 0 .. 100
  PROVE  CInv'
<1>1. Accounted(wallet)'
  BY BooksStay
<1>2. Settlement(wallet', refundLog)
  BY SettlementStays DEF CInv
<1> QED
  BY <1>1, <1>2 DEF CInv

LEMMA CallCredits ==
  ASSUME IInv, CInv, IInv', Keeps(wallet, wallet'), NEW c \in Calls, Call(c) \/ End(c)
  PROVE  CInv'
<1>1. ASSUME UNCHANGED wallet
      PROVE  Accounted(wallet') /\ Backs(wallet, wallet')
  BY <1>1, SameBacks DEF CInv
<1>2. CASE Replay(c) \/ CreateExists(c) \/ CreateFails(c) \/ CheckFailed(c) \/ Abandon(c)
  <2>1. UNCHANGED <<now, wallet, refundLog, pending>>
    BY <1>2 DEF Replay, CreateExists, CreateFails, CheckFailed, Abandon
  <2> QED
    BY <2>1, <1>1, CreditsGoOn DEF CInv
<1>3. CASE Quote(c)
  <2>1. wallet' = Due(wallet) /\ UNCHANGED <<now, refundLog, pending>>
    BY <1>3 DEF Quote
  <2> QED
    BY <2>1, DueHere, CreditsGoOn DEF CInv
<1>4. CASE ReleaseHold(c)
  <2>1. /\ wallet' = Release(Due(wallet), reserved[c], "released")
        /\ UNCHANGED <<now, refundLog, pending>> /\ pc[c] = "release"
    BY <1>4 DEF ReleaseHold
  <2>2. reserved[c] \in DOMAIN Due(wallet).holds
    BY <2>1, DueHere DEF IInv, Progress, Promised
  <2>3. Accounted(wallet') /\ Backs(Due(wallet), wallet')
    BY <2>1, <2>2, DueHere, ReleaseAccounts, ReleaseBacks
  <2>4. Backs(wallet, wallet')
    BY <2>3, DueHere, BacksChain
  <2> QED
    BY <2>1, <2>3, <2>4, CreditsGoOn DEF CInv
<1>5. CASE Reserve(c)
  <2> DEFINE due == Due(wallet)
             hold == NewHold(KeyOf[c], kind[c], Amount(c))
  <2>1. UNCHANGED <<now, refundLog, pending>>
    BY <1>5 DEF Reserve
  <2>2. \/ wallet' = wallet \/ wallet' = due
        \/ wallet' = PutHold(due, hold) /\ Affordable(due, kind[c], Amount(c))
    BY <1>5 DEF Reserve
  <2>3. ASSUME wallet' = PutHold(due, hold), Affordable(due, kind[c], Amount(c))
        PROVE  Accounted(wallet') /\ Backs(due, wallet')
    <3>1. Put(due, wallet', hold)
      BY <2>3, DueHere, PutHoldPuts
    <3>2. /\ hold.state = "held" /\ hold.kind = kind[c] /\ hold.amount = Amount(c)
          /\ hold.owed = 0 /\ hold.taken = [l \in LotIds |-> 0] /\ hold.back = [l \in LotIds |-> 0]
      BY DEF NewHold
    <3> HIDE DEF hold, due
    <3>3. Amount(c) \in Nat
      BY BillingAssumption DEF Amount
    <3>4. Charge(due, hold)
      BY <3>2, <3>3 DEF Charge
    <3>5. hold.kind = "credits" => hold.amount <= Available(due)
      <4>1. ASSUME kind[c] = "credits" PROVE Amount(c) <= Available(due)
        <5>1. Available(due) >= Amount(c) /\ Sound(due) /\ Balanced(due)
          BY <4>1, <2>3, DueHere DEF Affordable, due, Accounted
        <5>2. Available(due) \in Int
          BY <5>1, AvailableType
        <5> QED
          BY <3>3, <5>1, <5>2
      <4> QED
        BY <3>2, <4>1
    <3>6. Sound(wallet')
      BY DEF IInv
    <3>7. Sound(due) /\ Accounted(due)
      BY DueHere DEF due
    <3>8. Accounted(wallet')
      BY <3>1, <3>2, <3>4, <3>5, <3>6, <3>7, PutAccounts
    <3>9. \A l \in LotIds : hold.back[l] = 0
      BY <3>2
    <3> QED
      BY <3>1, <3>8, <3>9, PutBacks
  <2>4. Accounted(wallet') /\ Backs(wallet, wallet')
    BY <2>2, <2>3, <1>1, DueHere, BacksChain
  <2> QED
    BY <2>1, <2>4, CreditsGoOn DEF CInv
<1>6. CASE Create(c) \/ End(c)
  <2>1. UNCHANGED <<now, wallet, refundLog>>
    BY <1>6 DEF Create, End
  <2>2. \A e \in pending' : e \in pending \/ e.percent \in {0, 50, 100}
    BY <1>6 DEF Create, End, RefundPercent
  <2>3. \A e \in pending' : e.percent \in 0 .. 100
    BY <2>2 DEF CInv
  <2> QED
    BY <2>1, <2>3, <1>1, CreditsGoOn
<1> QED
  BY <1>2, <1>3, <1>4, <1>5, <1>6 DEF Call

LEMMA BooksCredits ==
  ASSUME IInv, CInv, Keeps(wallet, wallet'), Books
  PROVE  CInv'
<1> DEFINE due == Due(wallet)
<1>1. UNCHANGED <<refundLog, pending>> /\ (~Tick => now' = now)
  BY DEF Books, Grant, SweepDecayAndExpiry, SweepExpiredHold, RemoveCredits, StoreRefund, CloseWallet
<1>2. /\ Sound(due) /\ Accounted(due) /\ Balanced(due) /\ Backs(wallet, due) /\ due.holds = wallet.holds
      /\ DOMAIN due = WalletFields
  BY DueHere DEF Accounted, Sound
<1>3. ASSUME NEW w, Same(due, w) PROVE Backs(wallet, w)
  BY <1>2, <1>3, SameBacks DEF Same
<1>4. CASE Tick
  <2>1. Accounted(wallet)' /\ wallet' = wallet
    BY <1>4, TickAccounts DEF Tick, CInv
  <2> QED
    BY <1>1, <2>1 DEF CInv
<1>5. CASE ~Tick
  <2>1. Accounted(wallet') /\ Backs(wallet, wallet')
    <3>1. CASE Grant
      <4>1. PICK o \in Offers : wallet' = GrantLot(due, o) /\ Len(wallet.lots) < MaxLots
        BY <3>1 DEF Grant
      <4>2. Len(due.lots) = Len(wallet.lots)
        BY DueLots DEF IInv, CInv
      <4>3. Accounted(wallet')
        BY <1>2, <4>1, <4>2, GrantAccounts
      <4> QED
        BY <4>1, <4>3, <1>2, <1>3, GrantSame
    <3>2. CASE SweepDecayAndExpiry
      BY <3>2, <1>2 DEF SweepDecayAndExpiry
    <3>3. CASE \E h \in DOMAIN wallet.holds : SweepExpiredHold(h)
      <4>1. PICK h \in DOMAIN due.holds : wallet' = Release(due, h, "expired")
        BY <3>3, <1>2 DEF SweepExpiredHold
      <4>2. Accounted(wallet') /\ Backs(due, wallet')
        BY <4>1, <1>2, ReleaseAccounts, ReleaseBacks
      <4> QED
        BY <4>2, <1>2, BacksChain
    <3>4. CASE RemoveCredits
      <4>1. PICK n \in Amounts : n <= Available(due) /\ wallet' = Draw(due, Spend(due, n))
        BY <3>4 DEF RemoveCredits
      <4>2. n \in Nat
        BY WalletAssumption
      <4>3. Accounted(wallet')
        BY <4>1, <4>2, <1>2, RemoveAccounts
      <4> QED
        BY <4>1, <4>3, <1>2, <1>3, DrawSame
    <3>5. CASE StoreRefund
      <4>1. PICK l \in DOMAIN wallet.lots : wallet' = RevokeLot(due, l)
        BY <3>5 DEF StoreRefund
      <4>2. DOMAIN due.lots = DOMAIN wallet.lots
        BY DueLots DEF IInv, CInv
      <4>3. Accounted(wallet')
        BY <4>1, <4>2, <1>2, RevokeAccounts
      <4> QED
        BY <4>1, <4>3, <1>2, <1>3, RevokeSame
    <3>6. CASE CloseWallet
      <4>1. wallet' = [wallet EXCEPT !.closed = TRUE] /\ DOMAIN wallet = WalletFields
        BY <3>6 DEF CloseWallet, IInv, Sound
      <4>2. /\ wallet'.lots = wallet.lots /\ wallet'.holds = wallet.holds
            /\ wallet'.balance = wallet.balance /\ wallet'.held = wallet.held
            /\ wallet'.debt = wallet.debt
        BY <4>1 DEF WalletFields
      <4> QED
        BY <4>2, SameAccounts, SameBacks DEF CInv
    <3> QED
      BY <1>5, <3>1, <3>2, <3>3, <3>4, <3>5, <3>6 DEF Books
  <2> QED
    BY <1>1, <1>5, <2>1, CreditsGoOn DEF CInv
<1> QED
  BY <1>4, <1>5

(* The end of a meetup whose hold has no entry yet is entered with what it     *)
(* gave back.                                                                  *)
LEMMA RefundSettles ==
  ASSUME NEW v, NEW h \in DOMAIN v.holds, NEW percent \in 0 .. 100, NEW log, Sound(v), Accounted(v),
         Settlement(v, log), Paid(v.holds[h]), ~\E r \in log : r.hold = h
  PROVE  Settlement(Refund(v, h, percent),
                    log \cup {[hold |-> h, outcome |-> "refunded", percent |-> percent]})
<1> DEFINE w == Refund(v, h, percent)
           entry == [hold |-> h, outcome |-> "refunded", percent |-> percent]
<1>1. /\ \A l \in LotIds : v.holds[h].back[l] = 0
  BY DEF Settlement
<1>2. /\ DOMAIN w.holds = DOMAIN v.holds
      /\ \A i \in DOMAIN v.holds : i # h => w.holds[i] = v.holds[i]
      /\ v.holds[h].kind # "credits" => w.holds[h] = v.holds[h]
      /\ v.holds[h].kind = "credits" =>
           Net(w.holds[h]) = Total(w.holds[h].taken) - (Total(w.holds[h].taken) * percent) \div 100
  <2>1. CASE v.holds[h].kind = "credits"
    <3>1. Refunded(v, w, h, percent)
      BY <1>1, <2>1, RefundGives
    <3> HIDE DEF w
    <3>2. w.holds[h].taken = v.holds[h].taken
      BY <3>1 DEF Refunded, HoldFields
    <3> QED
      BY <2>1, <3>1, <3>2 DEF Refunded, OneChanged
  <2>2. CASE v.holds[h].kind # "credits"
    <3>1. DOMAIN v = WalletFields
      BY DEF Sound
    <3>2. w.holds = v.holds
      BY <2>2, <3>1 DEF Refund, AdjustQuota, WalletFields
    <3> QED
      BY <2>2, <3>2
  <2> QED
    BY <2>1, <2>2
<1>3. Paid(w.holds[h]) /\ w.holds[h].kind = v.holds[h].kind
  BY RefundIsFine DEF Fine, Keeps, Paid
<1> HIDE DEF w
<1>4. GaveBack(w.holds[h], entry)
  BY <1>2, <1>3 DEF GaveBack
<1>5. \A r \in log : /\ r.hold \in DOMAIN w.holds /\ r.hold # h
                     /\ w.holds[r.hold] = v.holds[r.hold]
                     /\ GaveBack(v.holds[r.hold], r)
  BY <1>2 DEF Settlement
<1>6. \A r \in log \cup {entry} : r.hold \in DOMAIN w.holds /\ GaveBack(w.holds[r.hold], r)
  BY <1>2, <1>4, <1>5
<1>7. \A i \in DOMAIN w.holds :
        (\E r \in log \cup {entry} : r.hold = i) \/ \A l \in LotIds : w.holds[i].back[l] = 0
  <2> SUFFICES ASSUME NEW i \in DOMAIN w.holds
               PROVE  \/ \E r \in log \cup {entry} : r.hold = i
                      \/ \A l \in LotIds : w.holds[i].back[l] = 0
    OBVIOUS
  <2>1. CASE i = h
    <3>1. entry.hold = h
      OBVIOUS
    <3> HIDE DEF entry
    <3> QED
      BY <2>1, <3>1
  <2>2. CASE i # h
    <3>1. i \in DOMAIN v.holds /\ w.holds[i] = v.holds[i]
      BY <2>2, <1>2
    <3> QED
      BY <3>1 DEF Settlement
  <2> QED
    BY <2>1, <2>2
<1> QED
  BY <1>6, <1>7 DEF Settlement, w

LEMMA EntryStays ==
  ASSUME NEW v, NEW log, NEW entry, Settlement(v, log), entry.hold \in DOMAIN v.holds,
         entry.outcome # "refunded"
  PROVE  Settlement(v, log \cup {entry})
BY DEF Settlement, GaveBack

LEMMA CaptureGoesOn ==
  ASSUME NEW v, NEW h \in DOMAIN v.holds, Sound(v), Accounted(v)
  PROVE  LET w == Capture(v, h)
         IN  /\ Accounted(w) /\ Backs(v, w) /\ Sound(w) /\ Keeps(v, w)
             /\ Paid(w.holds[h]) /\ h \in DOMAIN w.holds
<1> DEFINE w == Capture(v, h)
<1> SUFFICES /\ Accounted(w) /\ Backs(v, w) /\ Sound(w) /\ Keeps(v, w)
             /\ Paid(w.holds[h]) /\ h \in DOMAIN w.holds
  OBVIOUS
<1>1. Accounted(w)
  BY CaptureAccounts
<1>2. Backs(v, w)
  BY CaptureBacks
<1>3. Fine(v, w) /\ Paid(w.holds[h])
  BY CaptureIsFine
<1> HIDE DEF w
<1>4. Sound(w) /\ Keeps(v, w)
  BY <1>3 DEF Fine
<1>5. h \in DOMAIN w.holds
  BY <1>4 DEF Keeps
<1> QED
  BY <1>1, <1>2, <1>3, <1>4, <1>5

LEMMA ReleaseGoesOn ==
  ASSUME NEW v, NEW h \in DOMAIN v.holds, NEW reason, Sound(v), Accounted(v)
  PROVE  LET w == Release(v, h, reason)
         IN  Accounted(w) /\ Backs(v, w) /\ Keeps(v, w) /\ h \in DOMAIN w.holds
<1> DEFINE w == Release(v, h, reason)
<1> SUFFICES Accounted(w) /\ Backs(v, w) /\ Keeps(v, w) /\ h \in DOMAIN w.holds
  OBVIOUS
<1>1. Accounted(w)
  BY ReleaseAccounts
<1>2. Backs(v, w)
  BY ReleaseBacks
<1>3. Fine(v, w)
  BY ReleaseIsFine
<1> HIDE DEF w
<1>4. Keeps(v, w)
  BY <1>3 DEF Fine
<1>5. h \in DOMAIN w.holds
  BY <1>4 DEF Keeps
<1> QED
  BY <1>1, <1>2, <1>4, <1>5

LEMMA DeliverCredits ==
  ASSUME IInv, CInv, Keeps(wallet, wallet'), NEW e \in pending, Deliver(e)
  PROVE  CInv'
<1> DEFINE h == meetup[e.meetup].hold
           due == Due(wallet)
           paid == Capture(due, h)
<1>1. /\ Sound(due) /\ Accounted(due) /\ Backs(wallet, due) /\ Keeps(wallet, due)
      /\ due.holds = wallet.holds /\ h \in DOMAIN due.holds /\ e.percent \in 0 .. 100
  BY DueHere DEF IInv, EventShape, Progress, Promised, CInv
<1>2. /\ now' = now /\ pending' \subseteq pending
      /\ \/ CaptureCreated(h)
         \/ ~Logged(h) /\ SettleEnded(h, e.percent)
         \/ wallet' = due /\ UNCHANGED refundLog
  BY DEF Deliver
<1>3. \A f \in pending' : f.percent \in 0 .. 100
  BY <1>2 DEF CInv
<1>4. /\ Accounted(paid) /\ Backs(due, paid) /\ Sound(paid) /\ Keeps(due, paid)
      /\ Paid(paid.holds[h]) /\ h \in DOMAIN paid.holds
  <2> HIDE DEF due, h
  <2> QED
    BY <1>1, CaptureGoesOn
<1>5. /\ Backs(wallet, paid) /\ Keeps(wallet, paid)
  BY <1>1, <1>4, BacksChain, KeepsChain
<1>6. CASE CaptureCreated(h)
  <2>1. wallet' = paid /\ UNCHANGED refundLog
    BY <1>6 DEF CaptureCreated
  <2> QED
    BY <2>1, <1>2, <1>3, <1>4, <1>5, CreditsGoOn
<1>7. CASE wallet' = due /\ UNCHANGED refundLog
  BY <1>1, <1>2, <1>3, <1>7, CreditsGoOn
<1>8. CASE ~Logged(h) /\ SettleEnded(h, e.percent)
  <2> DEFINE entry(o) == [hold |-> h, outcome |-> o, percent |-> e.percent]
             freed == Release(due, h, "refunded_before_capture")
             given == Refund(paid, h, e.percent)
  <2>1. \/ wallet' = freed /\ refundLog' = refundLog \cup {entry("released")}
        \/ wallet' = given /\ refundLog' = refundLog \cup {entry("refunded")}
        \/ wallet' = paid /\ refundLog' = refundLog \cup {entry("no_refund")}
        \/ wallet' = paid /\ refundLog' = refundLog \cup {entry("skipped_cap")}
    <3> DEFINE refunds == {r \in refundLog : r.outcome \in {"refunded", "released"}}
               capped == e.percent > 0 /\ Cardinality(refunds) >= MaxRefunds
               letGo == due.holds[h].state # "captured" /\ e.percent = 100 /\ ~capped
               outcome == CASE letGo -> "released"
                            [] e.percent = 0 -> "no_refund"
                            [] capped -> "skipped_cap"
                            [] OTHER -> "refunded"
    <3>1. /\ wallet' = CASE outcome = "released" -> freed
                         [] outcome = "refunded" -> given
                         [] OTHER -> paid
          /\ refundLog' = refundLog \cup {entry(outcome)}
      BY <1>8 DEF SettleEnded
    <3>2. outcome \in {"released", "no_refund", "skipped_cap", "refunded"}
      OBVIOUS
    <3> HIDE DEF outcome, freed, given, paid, due, h
    <3> QED
      BY <3>1, <3>2
  <2>2. Settlement(wallet, refundLog) /\ ~\E r \in refundLog : r.hold = h
    BY <1>8 DEF CInv, Logged
  <2>3. Settlement(paid, refundLog)
    BY <2>2, <1>5, SettlementStays
  <2>4. Accounted(wallet') /\ Settlement(wallet', refundLog')
    <3>1. CASE wallet' = freed /\ refundLog' = refundLog \cup {entry("released")}
      <4>1. /\ Accounted(freed) /\ Backs(due, freed) /\ Keeps(due, freed)
            /\ h \in DOMAIN freed.holds
        <5> HIDE DEF due, h
        <5> QED
          BY <1>1, ReleaseGoesOn
      <4>2. Backs(wallet, freed) /\ Keeps(wallet, freed)
        <5> HIDE DEF due, freed
        <5> QED
          BY <4>1, <1>1, BacksChain, KeepsChain
      <4>3. Settlement(freed, refundLog)
        BY <4>2, <2>2, SettlementStays
      <4> HIDE DEF freed
      <4> QED
        BY <3>1, <4>1, <4>2, <4>3, EntryStays
    <3>2. CASE wallet' = given /\ refundLog' = refundLog \cup {entry("refunded")}
      <4>1. Accounted(given)
        <5>1. e.percent \in Nat
          BY <1>1
        <5> QED
          BY <5>1, <1>4, RefundAccounts
      <4>2. Settlement(given, refundLog \cup {entry("refunded")})
        BY <1>1, <1>4, <2>2, <2>3, RefundSettles
      <4> QED
        BY <3>2, <4>1, <4>2
    <3>3. CASE wallet' = paid /\ refundLog' = refundLog \cup {entry("no_refund")}
      <4> HIDE DEF paid
      <4> QED
        BY <3>3, <1>4, <2>3, EntryStays
    <3>4. CASE wallet' = paid /\ refundLog' = refundLog \cup {entry("skipped_cap")}
      <4> HIDE DEF paid
      <4> QED
        BY <3>4, <1>4, <2>3, EntryStays
    <3> QED
      BY <2>1, <3>1, <3>2, <3>3, <3>4
  <2>5. Accounted(wallet)'
    BY <2>4, <1>2, BooksStay
  <2> QED
    BY <1>3, <2>4, <2>5 DEF CInv
<1> QED
  BY <1>2, <1>6, <1>7, <1>8

LEMMA CInvHolds == Spec => []CInv
<1>1. Init => CInv
  <2> SUFFICES ASSUME Init PROVE CInv
    OBVIOUS
  <2>1. wallet.holds = <<>> /\ refundLog = {} /\ pending = {}
    BY DEF Init, WalletInit
  <2> QED
    BY <2>1, InitAccounts DEF CInv, Settlement
<1>2. IInv /\ CInv /\ [Next]_vars => CInv'
  <2> SUFFICES ASSUME IInv, CInv, [Next]_vars PROVE CInv'
    OBVIOUS
  <2>1. IInv' /\ Keeps(wallet, wallet')
    BY StepHolds
  <2>2. CASE UNCHANGED vars
    <3>1. UNCHANGED <<now, wallet, refundLog, pending>>
      BY <2>2 DEF vars
    <3>2. Accounted(wallet') /\ Backs(wallet, wallet')
      BY <3>1, SameBacks DEF CInv
    <3> QED
      BY <2>1, <3>1, <3>2, CreditsGoOn DEF CInv
  <2> QED
    BY <2>1, <2>2, CallCredits, BooksCredits, DeliverCredits DEF Next
<1> QED
  BY <1>1, <1>2, IInvHolds, PTL DEF Spec

(* After every transaction, in any order of grants, decay, expiry, charges,    *)
(* refunds and revocations, the balance is what the lots have left, the held   *)
(* figure what open holds promise, and no lot has more than it was granted or  *)
(* than decay leaves it (wallet.go; decay.go; capture.go; refunds.go).         *)
THEOREM BooksAlwaysReconcile == Spec => []Reconciled
<1>1. CInv => Reconciled
  <2> SUFFICES ASSUME CInv PROVE Reconciled
    OBVIOUS
  <2>1. Balanced(wallet) /\ \A l \in DOMAIN wallet.lots : Decayed(wallet.lots[l])
    BY DEF CInv, Accounted
  <2>2. \A l \in DOMAIN wallet.lots :
          /\ wallet.lots[l].remaining >= 0
          /\ wallet.lots[l].remaining = Capped(wallet.lots[l], wallet.lots[l].periods)
    <3> SUFFICES ASSUME NEW l \in DOMAIN wallet.lots
                 PROVE  /\ wallet.lots[l].remaining >= 0
                        /\ wallet.lots[l].remaining = Capped(wallet.lots[l], wallet.lots[l].periods)
      OBVIOUS
    <3>1. /\ LotShape(wallet.lots[l]) /\ Decayed(wallet.lots[l])
          /\ wallet.lots[l].remaining \in Nat /\ wallet.lots[l].periods \in Nat
      BY <2>1 DEF Balanced, LotShape, LotTypes
    <3>2. Capped(wallet.lots[l], wallet.lots[l].periods) = wallet.lots[l].remaining
      BY <3>1, CappedType DEF Decayed
    <3> QED
      BY <3>1, <3>2
  <2>3. NothingMinted
    BY <2>1, <2>2 DEF NothingMinted, Balanced, Out
  <2> QED
    BY <2>1, <2>3 DEF Reconciled, BooksAgree, Balanced
<1> QED
  BY CInvHolds, <1>1, PTL

(* What open holds promise is there to be spent, and nothing is owed, until a  *)
(* lot decays or ends or a hold that had been let go is charged (holds.go;     *)
(* capture.go).                                                                *)
THEOREM HoldsAreAlwaysCovered == Spec => []HoldsAreCovered
<1>1. IInv /\ CInv => HoldsAreCovered
  <2> SUFFICES ASSUME IInv, CInv, wallet.held > wallet.balance \/ wallet.debt > 0
               PROVE  Eroded
    BY DEF HoldsAreCovered
  <2>1. wallet.held \in Nat /\ wallet.balance \in Nat /\ wallet.debt \in Nat
    BY CreditsType, HeldType DEF IInv, CInv, Accounted, Balanced
  <2>2. Worn(wallet)
    BY <2>1 DEF CInv, Accounted, Covered
  <2> QED
    BY <2>2 DEF Worn, Eroded
<1> QED
  BY IInvHolds, CInvHolds, <1>1, PTL

(* However often the end of a meetup is delivered, its hold keeps exactly what *)
(* the first entry of the refund log left it (refunds.go).                     *)
THEOREM RefundsAreGivenOnce == Spec => []RefundedOnce
<1>1. CInv => RefundedOnce
  BY DEF CInv, Settlement, GaveBack, RefundedOnce
<1> QED
  BY CInvHolds, <1>1, PTL

-----------------------------------------------------------------------------
(* What each meetup costs: Fees, step by step.                                 *)

(* A hold's part in a fee is as it was.                                        *)
SameFee(x, y) ==
  /\ Status(y) = Status(x) /\ y.kind = x.kind /\ y.amount = x.amount
  /\ y.taken = x.taken /\ y.owed = x.owed /\ y.back = x.back /\ y.forgiven = x.forgiven

Unpaid(hold) == Status(hold) = "due" /\ hold.owed = 0 /\ hold.forgiven = 0

(* A transaction that charges, waives and gives back nothing.                  *)
Bills(v, w) ==
  /\ \A h \in DOMAIN v.holds : h \in DOMAIN w.holds /\ SameFee(v.holds[h], w.holds[h])
  /\ \A h \in DOMAIN w.holds \ DOMAIN v.holds : Unpaid(w.holds[h])

FeeFields == {"state", "kind", "price", "taken", "owed", "back", "forgiven", "settled"}

LEMMA FeeShape ==
  ASSUME NEW hold, NEW s
  PROVE  FeeOf(hold, s) = [i \in FeeFields |-> FeeOf(hold, s)[i]]
BY DEF FeeOf, FeeFields

LEMMA FeeIs ==
  ASSUME NEW hold, NEW s, NEW f, f = [i \in FeeFields |-> f[i]],
         f.state = Status(hold), f.kind = hold.kind, f.price = hold.amount,
         f.taken = Total(hold.taken), f.owed = hold.owed, f.back = Total(hold.back),
         f.forgiven = hold.forgiven, f.settled = s
  PROVE  FeeOf(hold, s) = f
BY DEF FeeOf, FeeFields

LEMMA SameBills ==
  ASSUME NEW v, NEW w, w.holds = v.holds
  PROVE  Bills(v, w)
BY DEF Bills, SameFee

LEMMA BillsFrom ==
  ASSUME NEW u, NEW v, NEW w, v.holds = u.holds, Bills(v, w)
  PROVE  Bills(u, w)
BY DEF Bills

(* A hold let go otherwise than for a refund in full may still be charged.     *)
LEMMA ReleaseBills ==
  ASSUME NEW v, NEW h \in DOMAIN v.holds, NEW reason, Sound(v), reason # "refunded_before_capture"
  PROVE  Bills(v, Release(v, h, reason))
<1> DEFINE w == Release(v, h, reason)
           old == v.holds[h]
           x == [old EXCEPT !.state = "released", !.reason = reason]
<1>1. Released(v, w, h, reason) /\ DOMAIN old = HoldFields
  BY ReleaseReleases DEF Sound, HoldShape
<1> SUFFICES Bills(v, w)
  OBVIOUS
<1> HIDE DEF w
<1>2. CASE old.state # "held"
  BY <1>1, <1>2, SameBills DEF Released
<1>3. CASE old.state = "held"
  <2>1. /\ w.holds = [v.holds EXCEPT ![h] = x] /\ x.state = "released" /\ x.reason = reason
        /\ x.kind = old.kind /\ x.amount = old.amount /\ x.taken = old.taken
        /\ x.owed = old.owed /\ x.back = old.back /\ x.forgiven = old.forgiven
    BY <1>1, <1>3 DEF Released, HoldFields
  <2> HIDE DEF x
  <2>2. SameFee(old, x)
    BY <1>3, <2>1 DEF SameFee, Status, Settled
  <2> HIDE DEF old
  <2>3. /\ DOMAIN w.holds = DOMAIN v.holds /\ w.holds[h] = x
        /\ \A i \in DOMAIN v.holds : i # h => w.holds[i] = v.holds[i]
    BY <2>1, HoldsExcept
  <2> QED
    BY <2>2, <2>3 DEF Bills, SameFee, old
<1> QED
  BY <1>2, <1>3

LEMMA PutBills ==
  ASSUME NEW v, NEW w, NEW hold, Put(v, w, hold), Unpaid(hold)
  PROVE  Bills(v, w)
<1>1. ASSUME NEW h \in DOMAIN v.holds PROVE h \in DOMAIN w.holds /\ SameFee(v.holds[h], w.holds[h])
  <2> DEFINE x == v.holds[h]
             y == w.holds[h]
  <2>1. h \in DOMAIN w.holds /\ \A f \in HoldFields \ {"key"} : y[f] = x[f]
    BY DEF Put
  <2> HIDE DEF x, y
  <2>2. /\ y.state = x.state /\ y.reason = x.reason /\ y.kind = x.kind /\ y.amount = x.amount
        /\ y.taken = x.taken /\ y.owed = x.owed /\ y.back = x.back /\ y.forgiven = x.forgiven
    BY <2>1 DEF HoldFields
  <2> QED
    BY <2>1, <2>2 DEF SameFee, Status, Settled, x, y
<1> QED
  BY <1>1 DEF Bills, Put

(* A charge is in full: what the lots do not give is owed.                     *)
LEMMA CaptureCharges ==
  ASSUME NEW v, NEW h \in DOMAIN v.holds, Sound(v), Accounted(v)
  PROVE  LET w   == Capture(v, h)
             old == v.holds[h]
         IN /\ OneChanged(v, w, h)
            /\ Status(old) # "due" => w = v
            /\ Status(old) = "due" =>
                 /\ w.holds[h].forgiven = old.forgiven /\ Status(w.holds[h]) = "charged"
                 /\ \A s \in BOOLEAN : FeeOf(w.holds[h], s) \in Bill!Charged(FeeOf(old, s))
<1> DEFINE w == Capture(v, h)
           old == v.holds[h]
           x == w.holds[h]
           spent == Spend(v, old.amount)
<1>1. Captured(v, w, h)
  BY CaptureCaptures
<1>2. Balanced(v) /\ Charge(v, old) /\ old.amount \in Nat
  BY DEF Accounted, Balanced, Charge
<1>3. Total(spent) \in Nat /\ Total(spent) <= old.amount
  BY <1>2, SpendDraws
<1>4. old.kind \in {"credits", "plan_quota"}
  BY DEF Sound, HoldShape
<1> SUFFICES /\ OneChanged(v, w, h)
             /\ Status(old) # "due" => w = v
             /\ Status(old) = "due" =>
                  /\ x.forgiven = old.forgiven /\ Status(x) = "charged"
                  /\ \A s \in BOOLEAN : FeeOf(x, s) \in Bill!Charged(FeeOf(old, s))
  OBVIOUS
<1> HIDE DEF w
<1>5. CASE Status(old) # "due"
  <2>1. w = v
    BY <1>1, <1>5 DEF Captured, Status
  <2> QED
    BY <1>5, <2>1 DEF OneChanged
<1>6. CASE Status(old) = "due"
  <2>1. /\ w.holds = [v.holds EXCEPT ![h] = x] /\ x.state = "captured"
        /\ x.kind = old.kind /\ x.amount = old.amount /\ x.back = old.back
        /\ x.forgiven = old.forgiven
        /\ old.kind = "credits" => x.taken = spent /\ x.owed = old.amount - Total(spent)
        /\ old.kind # "credits" => x.taken = old.taken /\ x.owed = old.owed
    BY <1>1, <1>6 DEF Captured, Status, HoldFields
  <2> HIDE DEF x, spent
  <2>2. OneChanged(v, w, h)
    BY <2>1, HoldsExcept DEF OneChanged
  <2> HIDE DEF old
  <2>3. Status(x) = "charged"
    BY <2>1 DEF Status
  <2>4. ASSUME NEW s \in BOOLEAN PROVE FeeOf(x, s) \in Bill!Charged(FeeOf(old, s))
    <3>1. CASE old.kind = "credits"
      <4> DEFINE n == Total(spent)
                 f == FeeOf(old, s)
      <4>1. n \in 0 .. f.price
        BY <1>2, <1>3 DEF FeeOf
      <4> DEFINE g == [f EXCEPT !.state = "charged", !.taken = n, !.owed = f.price - n]
      <4>2. FeeOf(x, s) = g
        <5>1. /\ x.taken = spent /\ x.owed = old.amount - n /\ x.kind = old.kind
              /\ x.amount = old.amount /\ x.back = old.back /\ x.forgiven = old.forgiven
          BY <2>1, <3>1
        <5>2. /\ f = [i \in FeeFields |-> f[i]] /\ f.kind = old.kind /\ f.price = old.amount
              /\ f.back = Total(old.back) /\ f.forgiven = old.forgiven /\ f.settled = s
          BY FeeShape DEF FeeOf
        <5> HIDE DEF f, x
        <5>3. /\ g = [i \in FeeFields |-> g[i]] /\ g.state = "charged" /\ g.taken = n
              /\ g.owed = f.price - n /\ g.kind = f.kind /\ g.price = f.price
              /\ g.back = f.back /\ g.forgiven = f.forgiven /\ g.settled = f.settled
          BY <5>2 DEF FeeFields
        <5> HIDE DEF g
        <5> QED
          BY <5>1, <5>2, <5>3, <2>3, FeeIs
      <4>3. f.kind # "plan_quota"
        BY <3>1 DEF FeeOf
      <4> HIDE DEF f, n
      <4>4. Bill!Charged(f) = {[f EXCEPT !.state = "charged", !.taken = k, !.owed = f.price - k] :
                               k \in 0 .. f.price}
        BY <4>3 DEF Bill!Charged
      <4> HIDE DEF x
      <4>5. FeeOf(x, s) \in Bill!Charged(f)
        BY <4>1, <4>2, <4>4
      <4> QED
        BY <4>5 DEF f
    <3>2. CASE old.kind = "plan_quota"
      BY <2>1, <2>3, <3>2 DEF Bill!Charged, FeeOf
    <3> QED
      BY <1>4, <3>1, <3>2 DEF old
  <2> QED
    BY <1>6, <2>1, <2>2, <2>3, <2>4
<1> QED
  BY <1>5, <1>6

(* The fee of a hold with and without an entry.                                *)
Entered(hold) == FeeOf(hold, TRUE)
NotEntered(hold) == FeeOf(hold, FALSE)

(* A settled charge differs by what went back and what was written off.        *)
LEMMA FeeSettles ==
  ASSUME NEW y, NEW x, NEW percent, Status(x) = Status(y),
         x.kind = y.kind, x.amount = y.amount, x.taken = y.taken, x.owed = y.owed,
         Total(x.back) = (Total(y.taken) * percent) \div 100,
         x.forgiven \in IF percent = 100 THEN 0 .. y.owed ELSE {0}
  PROVE  Entered(x) \in Bill!GivenBack(NotEntered(y), percent)
<1> DEFINE f == NotEntered(y)
           n == x.forgiven
           part == (Total(y.taken) * percent) \div 100
           g == [f EXCEPT !.settled = TRUE, !.back = (f.taken * percent) \div 100, !.forgiven = n]
<1>1. /\ f = [i \in FeeFields |-> f[i]] /\ f.state = Status(y) /\ f.kind = y.kind
      /\ f.price = y.amount /\ f.taken = Total(y.taken) /\ f.owed = y.owed
  BY FeeShape DEF FeeOf, NotEntered
<1>2. (f.taken * percent) \div 100 = part /\ part = Total(x.back)
  BY <1>1
<1> HIDE DEF f, part
<1>3. /\ g = [i \in FeeFields |-> g[i]] /\ g.state = f.state /\ g.taken = f.taken
      /\ g.owed = f.owed /\ g.kind = f.kind /\ g.price = f.price
      /\ g.back = part /\ g.forgiven = n /\ g.settled = TRUE
  BY <1>1, <1>2 DEF FeeFields
<1>4. g \in Bill!GivenBack(f, percent)
  BY <1>1 DEF Bill!GivenBack
<1> HIDE DEF g
<1>5. Entered(x) = g
  <2>1. /\ g.state = Status(x) /\ g.kind = x.kind /\ g.price = x.amount
        /\ g.taken = Total(x.taken) /\ g.owed = x.owed /\ g.back = Total(x.back)
        /\ g.forgiven = x.forgiven
    BY <1>1, <1>2, <1>3
  <2>2. FeeOf(x, TRUE) = g
    BY <1>3, <2>1, FeeIs
  <2> HIDE DEF n, part
  <2> QED
    BY <2>2, ZenonT(60) DEF Entered
<1> QED
  BY <1>4, <1>5 DEF f

LEMMA FeeWaives ==
  ASSUME NEW y, NEW x, Status(x) = "waived", x.kind = y.kind, x.amount = y.amount,
         x.taken = y.taken, x.owed = y.owed, x.back = y.back, x.forgiven = y.forgiven
  PROVE  Entered(x) = [NotEntered(y) EXCEPT !.state = "waived", !.settled = TRUE]
<1> DEFINE f == NotEntered(y)
           g == [f EXCEPT !.state = "waived", !.settled = TRUE]
<1>1. /\ f = [i \in FeeFields |-> f[i]] /\ f.kind = y.kind /\ f.price = y.amount
      /\ f.taken = Total(y.taken) /\ f.owed = y.owed /\ f.back = Total(y.back)
      /\ f.forgiven = y.forgiven
  BY FeeShape DEF FeeOf, NotEntered
<1> HIDE DEF f
<1>2. /\ g = [i \in FeeFields |-> g[i]] /\ g.state = "waived" /\ g.kind = f.kind
      /\ g.price = f.price /\ g.taken = f.taken /\ g.owed = f.owed /\ g.back = f.back
      /\ g.forgiven = f.forgiven /\ g.settled = TRUE
  BY <1>1 DEF FeeFields
<1> HIDE DEF g
<1>3. /\ g.state = Status(x) /\ g.kind = x.kind /\ g.price = x.amount
      /\ g.taken = Total(x.taken) /\ g.owed = x.owed /\ g.back = Total(x.back)
      /\ g.forgiven = x.forgiven
  BY <1>1, <1>2
<1>4. FeeOf(x, TRUE) = g
  BY <1>2, <1>3, FeeIs
<1>5. Entered(x) = g
  BY <1>4, Zenon DEF Entered
<1> QED
  BY <1>5 DEF f, g

(* What is true of a charge whose hold has no entry in the refund log.         *)
Fresh(v, hold) ==
  /\ Charge(v, hold) /\ IsFiniteSet(LotIds) /\ hold.kind \in {"credits", "plan_quota"}
  /\ \A l \in LotIds : hold.back[l] = 0
  /\ hold.forgiven = 0

LEMMA FreshTotals ==
  ASSUME NEW v, NEW hold, Fresh(v, hold)
  PROVE  /\ Total(hold.back) = 0 /\ Total(hold.taken) \in Nat /\ hold.owed \in Nat
         /\ hold.kind = "plan_quota" \/ hold.state # "captured" => Total(hold.taken) = 0
<1>1. /\ DOMAIN hold.back = LotIds /\ DOMAIN hold.taken = LotIds /\ IsFiniteSet(LotIds)
      /\ \A l \in LotIds : hold.back[l] = 0 /\ hold.taken[l] \in Nat
      /\ hold.owed \in Nat
  BY DEF Fresh, Charge
<1>2. ASSUME hold.kind = "plan_quota" \/ hold.state # "captured"
      PROVE  \A l \in LotIds : hold.taken[l] = 0
  BY <1>1, <1>2 DEF Fresh, Charge
<1> QED
  BY <1>1, <1>2, TotalZero, TotalType

(* A charge that is left as it is settles for nothing.                         *)
LEMMA KeptSettles ==
  ASSUME NEW v, NEW hold, Fresh(v, hold)
  PROVE  Entered(hold) \in Bill!GivenBack(NotEntered(hold), 0)
<1>1. Total(hold.back) = 0 /\ Total(hold.taken) \in Nat /\ hold.forgiven = 0
  BY FreshTotals DEF Fresh
<1>2. Total(hold.back) = (Total(hold.taken) * 0) \div 100
  BY <1>1
<1>3. hold.forgiven \in IF 0 = 100 THEN 0 .. hold.owed ELSE {0}
  BY <1>1
<1> QED
  BY <1>2, <1>3, FeeSettles

LEMMA EnteredAnyway ==
  ASSUME NEW hold
  PROVE  Entered(hold) = [NotEntered(hold) EXCEPT !.settled = TRUE]
<1> DEFINE f == NotEntered(hold)
           g == [f EXCEPT !.settled = TRUE]
<1>1. /\ f = [i \in FeeFields |-> f[i]] /\ f.state = Status(hold) /\ f.kind = hold.kind
      /\ f.price = hold.amount /\ f.taken = Total(hold.taken) /\ f.owed = hold.owed
      /\ f.back = Total(hold.back) /\ f.forgiven = hold.forgiven
  BY FeeShape DEF FeeOf, NotEntered
<1> HIDE DEF f
<1>2. /\ g = [i \in FeeFields |-> g[i]] /\ g.state = f.state /\ g.kind = f.kind
      /\ g.price = f.price /\ g.taken = f.taken /\ g.owed = f.owed /\ g.back = f.back
      /\ g.forgiven = f.forgiven /\ g.settled = TRUE
  BY <1>1 DEF FeeFields
<1> HIDE DEF g
<1>3. /\ g.state = Status(hold) /\ g.kind = hold.kind /\ g.price = hold.amount
      /\ g.taken = Total(hold.taken) /\ g.owed = hold.owed /\ g.back = Total(hold.back)
      /\ g.forgiven = hold.forgiven
  BY <1>1, <1>2
<1>4. FeeOf(hold, TRUE) = g
  BY <1>2, <1>3, FeeIs
<1>5. Entered(hold) = g
  BY <1>4, Zenon DEF Entered
<1> QED
  BY <1>5 DEF f, g

LEMMA RefundGivesBack ==
  ASSUME NEW v, NEW h \in DOMAIN v.holds, NEW percent \in {50, 100}, Sound(v), Accounted(v),
         Fresh(v, v.holds[h]), NEW w, w = Refund(v, h, percent)
  PROVE  /\ OneChanged(v, w, h) /\ Status(w.holds[h]) = Status(v.holds[h])
         /\ Entered(w.holds[h]) \in Bill!GivenBack(NotEntered(v.holds[h]), percent)
<1> DEFINE old == v.holds[h]
           x == w.holds[h]
<1>1. Total(old.back) = 0 /\ Total(old.taken) \in Nat /\ old.owed \in Nat /\ old.forgiven = 0
  BY FreshTotals DEF Fresh
<1>2. CASE old.kind = "credits"
  <2>1. Refunded(v, w, h, percent)
    <3>1. percent \in 0 .. 100
      OBVIOUS
    <3>2. \A l \in LotIds : old.back[l] = 0
      BY DEF Fresh
    <3> QED
      BY <1>2, <3>1, <3>2, RefundGives
  <2> HIDE DEF x
  <2>2. /\ x.state = old.state /\ x.reason = old.reason /\ x.kind = old.kind
        /\ x.amount = old.amount /\ x.taken = old.taken /\ x.owed = old.owed
        /\ Total(x.back) = (Total(old.taken) * percent) \div 100
        /\ x.forgiven = WrittenOff(v, old, percent)
    BY <2>1 DEF HoldFields, Refunded, x
  <2>3. x.forgiven \in IF percent = 100 THEN 0 .. old.owed ELSE {0}
    <3>1. Min({old.owed, v.debt}) = IF old.owed <= v.debt THEN old.owed ELSE v.debt
      BY <1>1, MinMax DEF Accounted, Balanced
    <3>2. v.debt \in Nat
      BY DEF Accounted, Balanced
    <3> HIDE DEF old
    <3> QED
      BY <1>1, <2>2, <3>1, <3>2 DEF WrittenOff
  <2>4. Status(x) = Status(old)
    BY <2>2 DEF Status, Settled
  <2>5. Entered(x) \in Bill!GivenBack(NotEntered(old), percent)
    BY <2>2, <2>3, <2>4, FeeSettles, SMTT(30)
  <2> QED
    BY <2>1, <2>4, <2>5 DEF Refunded, x
<1>3. CASE old.kind # "credits"
  <2>1. DOMAIN v = WalletFields /\ old.kind = "plan_quota"
    BY <1>3 DEF Sound, Fresh
  <2>2. w.holds = v.holds
    BY <1>3, <2>1 DEF Refund, AdjustQuota, WalletFields
  <2>3. Total(old.taken) = 0
    BY <2>1, FreshTotals
  <2>4. /\ Total(old.back) = (Total(old.taken) * percent) \div 100
        /\ old.forgiven \in IF percent = 100 THEN 0 .. old.owed ELSE {0}
    <3> HIDE DEF old
    <3> QED
      BY <1>1, <2>3
  <2>5. Entered(old) \in Bill!GivenBack(NotEntered(old), percent)
    <3> HIDE DEF old
    <3> QED
      BY <2>4, FeeSettles
  <2> QED
    BY <2>2, <2>5 DEF OneChanged
<1> QED
  BY <1>2, <1>3

-----------------------------------------------------------------------------
Made(h) == \E m \in Calls : meetup[m].state # "none" /\ meetup[m].hold = h

(* What a fee rests on, beside the books: nothing is owed before a charge, and *)
(* written off or waived before an entry, and only the hold of a meetup is     *)
(* charged or entered.                                                         *)
FInv ==
  /\ \A h \in DOMAIN wallet.holds :
       /\ Status(wallet.holds[h]) # "charged" => wallet.holds[h].owed = 0
       /\ ~Logged(h) => wallet.holds[h].forgiven = 0 /\ Status(wallet.holds[h]) # "waived"
       /\ Status(wallet.holds[h]) # "due" \/ Logged(h) => Made(h)
  /\ \A e \in pending : e.percent \in {0, 50, 100}

(* Which meetups there are and what holds they have is as it was.              *)
SameMade ==
  \A m \in Calls : /\ meetup'[m].hold = meetup[m].hold
                   /\ meetup'[m].state = "none" <=> meetup[m].state = "none"

LEMMA BillsStay ==
  ASSUME IInv, CInv, FInv, Bills(wallet, wallet'), UNCHANGED refundLog, SameMade,
         \A e \in pending' : e.percent \in {0, 50, 100}
  PROVE  FInv' /\ feeOf' = feeOf
<1>1. \A h : Logged(h)' <=> Logged(h)
  BY DEF Logged
<1>2. ASSUME NEW h, Made(h) PROVE Made(h)'
  <2>1. PICK m \in Calls : meetup[m].state # "none" /\ meetup[m].hold = h
    BY <1>2 DEF Made
  <2>2. meetup'[m].state # "none" /\ meetup'[m].hold = h
    BY <2>1 DEF SameMade
  <2> QED
    BY <2>2 DEF Made
<1>3. ASSUME NEW h \in DOMAIN wallet'.holds
      PROVE  /\ Status(wallet'.holds[h]) # "charged" => wallet'.holds[h].owed = 0
             /\ ~Logged(h) => wallet'.holds[h].forgiven = 0 /\ Status(wallet'.holds[h]) # "waived"
             /\ Status(wallet'.holds[h]) # "due" \/ Logged(h) => Made(h)'
  <2>1. CASE h \in DOMAIN wallet.holds
    BY <2>1, <1>2 DEF Bills, SameFee, FInv
  <2>2. CASE h \notin DOMAIN wallet.holds
    <3>1. ~Logged(h)
      BY <2>2 DEF CInv, Settlement, Logged
    <3> QED
      BY <2>2, <3>1 DEF Bills, Unpaid
  <2> QED
    BY <2>1, <2>2
<1>4. FInv'
  BY <1>1, <1>3 DEF FInv
<1>5. ASSUME NEW m \in Calls, meetup[m].state # "none"
      PROVE  FeeOf(wallet'.holds[meetup[m].hold], Logged(meetup[m].hold)) =
             FeeOf(wallet.holds[meetup[m].hold], Logged(meetup[m].hold))
  <2>1. meetup[m].hold \in DOMAIN wallet.holds
    BY <1>5 DEF IInv, Progress, Promised
  <2> QED
    BY <2>1 DEF Bills, SameFee, FeeOf
<1>6. feeOf' = feeOf
  <2>1. ASSUME NEW m \in Calls PROVE Logged(meetup[m].hold)' = Logged(meetup[m].hold)
    <3>1. meetup'[m].hold = meetup[m].hold /\ refundLog' = refundLog
      BY DEF SameMade
    <3>2. Logged(meetup[m].hold)' <=> Logged(meetup[m].hold)
      BY <3>1 DEF Logged
    <3>3. Logged(meetup[m].hold)' \in BOOLEAN /\ Logged(meetup[m].hold) \in BOOLEAN
      BY DEF Logged
    <3> QED
      BY <3>2, <3>3
  <2>2. ASSUME NEW m \in Calls
        PROVE  (IF meetup'[m].state = "none" THEN NoFee
                ELSE FeeOf(wallet'.holds[meetup'[m].hold], Logged(meetup[m].hold)')) =
               (IF meetup[m].state = "none" THEN NoFee
                ELSE FeeOf(wallet.holds[meetup[m].hold], Logged(meetup[m].hold)))
    BY <1>5, <2>1 DEF SameMade
  <2> QED
    BY <2>2 DEF feeOf
<1> QED
  BY <1>4, <1>6

(* One meetup's hold is charged or settled: no other meetup's fee changes.     *)
LEMMA OneFee ==
  ASSUME IInv, CInv, FInv, NEW m \in Calls, NEW h, NEW s \in BOOLEAN,
         NEW f, f = FeeOf(wallet'.holds[h], s),
         meetup[m].state # "none", meetup[m].hold = h, OneChanged(wallet, wallet', h),
         UNCHANGED meetup, Logged(h)' = s, \A i : i # h => (Logged(i)' <=> Logged(i)),
         \A e \in pending' : e.percent \in {0, 50, 100},
         Status(wallet'.holds[h]) # "charged" => wallet'.holds[h].owed = 0,
         ~s => wallet'.holds[h].forgiven = 0 /\ Status(wallet'.holds[h]) # "waived"
  PROVE  FInv' /\ Bill!Set(m, f)
<1>1. \A i : Made(i)' <=> Made(i)
  BY DEF Made
<1>2. Made(h)
  BY DEF Made
<1>3. ASSUME NEW i \in DOMAIN wallet'.holds
      PROVE  /\ Status(wallet'.holds[i]) # "charged" => wallet'.holds[i].owed = 0
             /\ ~Logged(i)' => wallet'.holds[i].forgiven = 0 /\ Status(wallet'.holds[i]) # "waived"
             /\ Status(wallet'.holds[i]) # "due" \/ Logged(i)' => Made(i)'
  <2>1. CASE i = h
    BY <2>1, <1>1, <1>2
  <2>2. CASE i # h
    <3>1. i \in DOMAIN wallet.holds /\ wallet'.holds[i] = wallet.holds[i]
      BY <2>2 DEF OneChanged
    <3>2. Logged(i)' <=> Logged(i)
      BY <2>2
    <3> QED
      BY <3>1, <3>2, <1>1 DEF FInv
  <2> QED
    BY <2>1, <2>2
<1>4. FInv'
  BY <1>3 DEF FInv
<1>5. ASSUME NEW n \in Calls
      PROVE  (IF meetup'[n].state = "none" THEN NoFee
              ELSE FeeOf(wallet'.holds[meetup'[n].hold], Logged(meetup[n].hold)')) =
             [feeOf EXCEPT ![m] = f][n]
  <2>1. CASE n = m
    <3>1. Logged(meetup[n].hold)' = s
      BY <2>1 DEF Logged
    <3>2. [feeOf EXCEPT ![m] = f][n] = FeeOf(wallet'.holds[h], s)
      BY <2>1 DEF feeOf
    <3> QED
      BY <2>1, <3>1, <3>2
  <2>2. CASE n # m
    <3>1. [feeOf EXCEPT ![m] = f][n] =
            IF meetup[n].state = "none" THEN NoFee
            ELSE FeeOf(wallet.holds[meetup[n].hold], Logged(meetup[n].hold))
      BY <2>2 DEF feeOf
    <3>2. CASE meetup[n].state = "none"
      BY <3>1, <3>2
    <3>3. CASE meetup[n].state # "none"
      <4> PICK i : i = meetup[n].hold
        OBVIOUS
      <4>1. i # h
        BY <2>2, <3>3 DEF IInv, PaidOnce, ChargedOnce
      <4>2. wallet'.holds[i] = wallet.holds[i]
        BY <4>1, <3>3 DEF OneChanged, IInv, Progress, Promised
      <4>3. Logged(i)' <=> Logged(i)
        BY <4>1
      <4>4. Logged(meetup[n].hold)' = Logged(meetup[n].hold)
        <5>1. Logged(meetup[n].hold)' <=> Logged(meetup[n].hold)
          BY <4>3 DEF Logged
        <5>2. Logged(meetup[n].hold)' \in BOOLEAN /\ Logged(meetup[n].hold) \in BOOLEAN
          BY DEF Logged
        <5> QED
          BY <5>1, <5>2
      <4> QED
        BY <3>1, <3>3, <4>2, <4>4
    <3> QED
      BY <3>2, <3>3
  <2> QED
    BY <2>1, <2>2
<1>6. feeOf' = [feeOf EXCEPT ![m] = f]
  <2> DEFINE g == [feeOf EXCEPT ![m] = f]
  <2>1. g = [n \in Calls |-> g[n]]
    BY DEF feeOf
  <2>2. feeOf' = [n \in Calls |->
                    IF meetup'[n].state = "none" THEN NoFee
                    ELSE FeeOf(wallet'.holds[meetup'[n].hold], Logged(meetup[n].hold)')]
    BY DEF feeOf
  <2> HIDE DEF g
  <2> QED
    BY <1>5, <2>1, <2>2 DEF g
<1> QED
  BY <1>4, <1>6 DEF Bill!Set

(* A step of Fees, or one that no fee shows.                                   *)
Billed == Bill!Next \/ feeOf' = feeOf

LEMMA FeeHere ==
  ASSUME IInv, NEW m \in Calls, meetup[m].state # "none"
  PROVE  /\ meetup[m].hold \in DOMAIN wallet.holds
         /\ feeOf[m] = FeeOf(wallet.holds[meetup[m].hold], Logged(meetup[m].hold))
         /\ feeOf[m].state = Status(wallet.holds[meetup[m].hold])
         /\ feeOf[m].settled = Logged(meetup[m].hold)
<1>1. feeOf[m] = FeeOf(wallet.holds[meetup[m].hold], Logged(meetup[m].hold))
  BY DEF feeOf
<1>2. meetup[m].hold \in DOMAIN wallet.holds
  BY DEF IInv, Progress, Promised
<1> QED
  BY <1>1, <1>2 DEF FeeOf

(* The hold of a call that is about to make its meetup is nobody else's, and   *)
(* has neither been charged nor entered.                                       *)
LEMMA CreateBills ==
  ASSUME IInv, CInv, FInv, NEW c \in Calls, Create(c)
  PROVE  FInv' /\ Billed
<1> DEFINE h == reserved[c]
           hold == wallet.holds[h]
<1>0. /\ pc[c] = "create" /\ ~Found(c) /\ UNCHANGED <<wallet, kind, reserved, refundLog>>
      /\ meetup' = [meetup EXCEPT ![c] = [state |-> "open", hold |-> h]]
      /\ pending' = pending \cup {[meetup |-> c, topic |-> "created", percent |-> 0]}
  BY DEF Create
<1>1. h # 0 /\ h \in DOMAIN wallet.holds /\ SameCharge(hold, c) /\ meetup[c].state = "none"
  BY <1>0 DEF IInv, Progress, Promised
<1>2. /\ meetup'[c].state = "open" /\ meetup'[c].hold = h
      /\ \A m \in Calls : m # c => meetup'[m] = meetup[m]
  BY <1>0 DEF IInv, CallTypes
<1>3. \A m \in Calls : meetup[m].state # "none" => KeyOf[m] # KeyOf[c] /\ meetup[m].hold # h
  <2> SUFFICES ASSUME NEW m \in Calls, meetup[m].state # "none",
                      KeyOf[m] = KeyOf[c] \/ meetup[m].hold = h
               PROVE  FALSE
    OBVIOUS
  <2>1. KeyOf[m] = KeyOf[c] /\ m # c
    BY <1>1 DEF IInv, Progress, OneKey
  <2>2. c \in Keyed
    BY <2>1, BillingAssumption
  <2> QED
    BY <2>1, <2>2, <1>0 DEF Found
<1>4. ~Made(h)
  BY <1>3 DEF Made
<1>5. Status(hold) = "due" /\ ~Logged(h) /\ hold.owed = 0 /\ hold.forgiven = 0
  BY <1>1, <1>4 DEF FInv
<1>6. Total(hold.taken) = 0 /\ Total(hold.back) = 0
  <2>1. Fresh(wallet, hold)
    <3>1. Charge(wallet, hold) /\ IsFiniteSet(LotIds)
      BY <1>1, LotsAreFew DEF CInv, Accounted, Balanced
    <3>2. \A l \in LotIds : hold.back[l] = 0
      BY <1>1, <1>5 DEF CInv, Settlement, Logged
    <3>3. hold.kind \in {"credits", "plan_quota"}
      BY <1>1 DEF IInv, Sound, HoldShape
    <3> QED
      BY <1>5, <3>1, <3>2, <3>3 DEF Fresh
  <2>2. hold.state # "captured"
    BY <1>5 DEF Status
  <2> QED
    BY <2>1, <2>2, FreshTotals
<1>7. FeeOf(hold, FALSE) = Bill!Quoted(c, kind[c])
  <2> DEFINE f == Bill!Quoted(c, kind[c])
  <2>1. /\ f = [i \in FeeFields |-> f[i]] /\ f.state = "due" /\ f.kind = kind[c]
        /\ f.price = Amount(c) /\ f.taken = 0 /\ f.owed = 0 /\ f.back = 0 /\ f.forgiven = 0
        /\ f.settled = FALSE
    BY DEF Bill!Quoted, Bill!NoFee, Amount, FeeFields
  <2> HIDE DEF f
  <2>2. /\ f.state = Status(hold) /\ f.kind = hold.kind /\ f.price = hold.amount
        /\ f.taken = Total(hold.taken) /\ f.owed = hold.owed /\ f.back = Total(hold.back)
        /\ f.forgiven = hold.forgiven
    BY <2>1, <1>1, <1>5, <1>6 DEF SameCharge
  <2> HIDE DEF hold
  <2> QED
    BY <2>1, <2>2, FeeIs DEF f
<1>8. FInv'
  <2>1. ASSUME NEW i, Made(i) PROVE Made(i)'
    <3>1. PICK m \in Calls : meetup[m].state # "none" /\ meetup[m].hold = i
      BY <2>1 DEF Made
    <3>2. meetup'[m] = meetup[m]
      BY <1>1, <1>2, <3>1
    <3> QED
      BY <3>1, <3>2 DEF Made
  <2>2. \A i : Logged(i)' <=> Logged(i)
    BY <1>0 DEF Logged
  <2>3. \A e \in pending' : e.percent \in {0, 50, 100}
    BY <1>0 DEF FInv
  <2>4. wallet' = wallet
    BY <1>0
  <2> QED
    BY <2>1, <2>2, <2>3, <2>4 DEF FInv
<1>9. \A d \in Calls : KeyOf[d] = KeyOf[c] => feeOf[d].state = "none"
  BY <1>3 DEF feeOf, NoFee
<1>10. feeOf' = [feeOf EXCEPT ![c] = FeeOf(hold, FALSE)]
  <2> DEFINE g == [feeOf EXCEPT ![c] = FeeOf(hold, FALSE)]
  <2>1. g = [n \in Calls |-> g[n]]
    BY DEF feeOf
  <2>2. feeOf' = [n \in Calls |->
                    IF meetup'[n].state = "none" THEN NoFee
                    ELSE FeeOf(wallet'.holds[meetup'[n].hold], Logged(meetup[n].hold)')]
    BY DEF feeOf
  <2>3. ASSUME NEW n \in Calls
        PROVE  (IF meetup'[n].state = "none" THEN NoFee
                ELSE FeeOf(wallet'.holds[meetup'[n].hold], Logged(meetup[n].hold)')) = g[n]
    <3>1. CASE n = c
      <4>1. Logged(meetup[n].hold)' = FALSE
        BY <3>1, <1>0, <1>2, <1>5 DEF Logged
      <4>2. g[n] = FeeOf(hold, FALSE)
        BY <3>1 DEF feeOf
      <4> HIDE DEF g
      <4> QED
        BY <3>1, <4>1, <4>2, <1>0, <1>2
    <3>2. CASE n # c
      <4>1. meetup'[n] = meetup[n] /\ refundLog' = refundLog /\ wallet' = wallet
        BY <3>2, <1>0, <1>2
      <4>2. Logged(meetup[n].hold)' = Logged(meetup[n].hold)
        BY <4>1, Zenon DEF Logged
      <4>3. g[n] = feeOf[n]
        BY <3>2 DEF feeOf
      <4> HIDE DEF g
      <4> QED
        BY <4>1, <4>2, <4>3 DEF feeOf
    <3> QED
      BY <3>1, <3>2
  <2> HIDE DEF g
  <2> QED
    BY <2>1, <2>2, <2>3 DEF g
<1>11. Bill!Make(c)
  <2>1. kind[c] \in {"credits", "plan_quota"}
    BY DEF IInv, CallTypes
  <2>2. Bill!Set(c, Bill!Quoted(c, kind[c]))
    BY <1>7, <1>10 DEF Bill!Set
  <2> QED
    BY <2>1, <2>2, <1>9 DEF Bill!Make
<1> QED
  BY <1>8, <1>11 DEF Billed, Bill!Next

(* The created event charges what is still due.                                *)
LEMMA CreatedBills ==
  ASSUME IInv, CInv, FInv, NEW m \in Calls, NEW h, meetup[m].state # "none", meetup[m].hold = h,
         CaptureCreated(h), UNCHANGED meetup, \A e \in pending' : e.percent \in {0, 50, 100}
  PROVE  FInv' /\ Billed
<1> DEFINE due == Due(wallet)
           old == wallet.holds[h]
           x == wallet'.holds[h]
<1>1. h \in DOMAIN wallet.holds /\ h \in DOMAIN due.holds /\ due.holds = wallet.holds
      /\ Sound(due) /\ Accounted(due)
  BY FeeHere, DueHere
<1>2. wallet' = Capture(due, h) /\ UNCHANGED refundLog
  BY DEF CaptureCreated
<1> HIDE DEF due
<1>3. /\ OneChanged(due, wallet', h)
      /\ Status(old) # "due" => wallet' = due
      /\ Status(old) = "due" =>
           /\ x.forgiven = old.forgiven /\ Status(x) = "charged"
           /\ \A s \in BOOLEAN : FeeOf(x, s) \in Bill!Charged(FeeOf(old, s))
  BY <1>1, <1>2, CaptureCharges
<1>4. CASE Status(old) # "due"
  <2>1. Bills(wallet, wallet')
    BY <1>1, <1>3, <1>4, SameBills
  <2>2. SameMade
    BY DEF SameMade
  <2> QED
    BY <2>1, <2>2, <1>2, BillsStay DEF Billed
<1>5. CASE Status(old) = "due"
  <2> DEFINE s == Logged(h)
  <2>1. s \in BOOLEAN /\ Logged(h)' = s /\ \A i : Logged(i)' <=> Logged(i)
    <3>1. Logged(h)' = s
      BY <1>2, Zenon DEF Logged
    <3>2. s \in BOOLEAN /\ \A i : Logged(i)' <=> Logged(i)
      BY <1>2 DEF Logged
    <3> QED
      BY <3>1, <3>2
  <2>2. ~s => x.forgiven = 0
    BY <1>1, <1>3, <1>5 DEF FInv
  <2>3. OneChanged(wallet, wallet', h)
    BY <1>1, <1>3 DEF OneChanged
  <2>4. feeOf[m] = FeeOf(old, s) /\ feeOf[m].state = "due"
    BY <1>5, FeeHere
  <2> HIDE DEF s, x, old
  <2>5. FInv' /\ Bill!Set(m, FeeOf(x, s))
    <3> PICK f : f = FeeOf(wallet'.holds[h], s)
      OBVIOUS
    <3>1. FInv' /\ Bill!Set(m, f)
      BY <2>1, <2>2, <2>3, <1>3, <1>5, OneFee DEF x
    <3> QED
      BY <3>1 DEF x
  <2>6. FeeOf(x, s) \in Bill!Charged(feeOf[m])
    BY <2>1, <2>4, <1>3, <1>5
  <2>7. Bill!Charge(m)
    BY <2>4, <2>5, <2>6 DEF Bill!Charge
  <2> QED
    BY <2>5, <2>7 DEF Billed, Bill!Next
<1> QED
  BY <1>4, <1>5

(* The first delivery of a meetup's end settles its fee.                       *)
LEMMA EndedBills ==
  ASSUME IInv, CInv, FInv, NEW m \in Calls, NEW h, NEW percent \in {0, 50, 100},
         meetup[m].state # "none", meetup[m].hold = h, ~Logged(h), SettleEnded(h, percent),
         UNCHANGED meetup, \A e \in pending' : e.percent \in {0, 50, 100}
  PROVE  FInv' /\ Billed
<1> DEFINE due == Due(wallet)
           paid == Capture(due, h)
           old == wallet.holds[h]
           y == paid.holds[h]
           x == wallet'.holds[h]
           freed == Release(due, h, "refunded_before_capture")
           given == Refund(paid, h, percent)
<1>1. h \in DOMAIN wallet.holds /\ h \in DOMAIN due.holds /\ due.holds = wallet.holds
      /\ Sound(due) /\ Accounted(due)
  BY FeeHere, DueHere
<1>2. /\ \/ wallet' = freed /\ old.state # "captured"
         \/ wallet' = given /\ percent \in {50, 100}
         \/ wallet' = paid
      /\ \E r : refundLog' = refundLog \cup {r} /\ r.hold = h
  <2> DEFINE refunds == {r \in refundLog : r.outcome \in {"refunded", "released"}}
             capped == percent > 0 /\ Cardinality(refunds) >= MaxRefunds
             letGo == due.holds[h].state # "captured" /\ percent = 100 /\ ~capped
             outcome == CASE letGo -> "released"
                          [] percent = 0 -> "no_refund"
                          [] capped -> "skipped_cap"
                          [] OTHER -> "refunded"
  <2>1. /\ wallet' = CASE outcome = "released" -> freed
                       [] outcome = "refunded" -> given
                       [] OTHER -> paid
        /\ refundLog' = refundLog \cup {[hold |-> h, outcome |-> outcome, percent |-> percent]}
    BY DEF SettleEnded
  <2>2. /\ outcome = "released" => letGo
        /\ outcome = "refunded" => percent # 0
        /\ outcome \in {"released", "refunded", "no_refund", "skipped_cap"}
    OBVIOUS
  <2>3. outcome = "released" => old.state # "captured"
    BY <2>2, <1>1
  <2> HIDE DEF outcome, freed, given, paid, old, due, letGo
  <2>4. \E r : refundLog' = refundLog \cup {r} /\ r.hold = h
    <3> DEFINE r == [hold |-> h, outcome |-> outcome, percent |-> percent]
    <3>1. refundLog' = refundLog \cup {r} /\ r.hold = h
      BY <2>1
    <3> HIDE DEF r
    <3> QED
      BY <3>1
  <2> QED
    BY <2>1, <2>2, <2>3, <2>4
<1>3. /\ Accounted(paid) /\ Sound(paid) /\ Backs(due, paid) /\ h \in DOMAIN paid.holds
      /\ OneChanged(due, paid, h)
      /\ Status(old) # "due" => paid = due
      /\ Status(old) = "due" =>
           /\ y.forgiven = old.forgiven /\ Status(y) = "charged"
           /\ \A s \in BOOLEAN : FeeOf(y, s) \in Bill!Charged(FeeOf(old, s))
  <2> HIDE DEF due
  <2>1. Accounted(paid) /\ Sound(paid) /\ Backs(due, paid) /\ h \in DOMAIN paid.holds
    BY <1>1, CaptureGoesOn
  <2> QED
    BY <1>1, <2>1, CaptureCharges
<1>4. Logged(h)' = TRUE /\ \A i : i # h => (Logged(i)' <=> Logged(i))
  BY <1>2 DEF Logged
<1> HIDE DEF due, paid
<1>5. Status(old) # "waived" /\ old.forgiven = 0 /\ Status(old) \in {"due", "charged", "waived"}
  BY <1>1 DEF FInv, Status
<1>6. /\ feeOf[m] = NotEntered(old) /\ feeOf[m].state = Status(old) /\ feeOf[m].settled = FALSE
  <2>1. Logged(meetup[m].hold) = FALSE
    BY DEF Logged
  <2>2. /\ feeOf[m] = FeeOf(old, Logged(meetup[m].hold)) /\ feeOf[m].state = Status(old)
        /\ feeOf[m].settled = Logged(meetup[m].hold)
    BY FeeHere
  <2>3. feeOf[m] = NotEntered(old)
    BY <2>1, <2>2, Zenon DEF NotEntered
  <2> QED
    BY <2>1, <2>2, <2>3
<1>7. ASSUME OneChanged(wallet, wallet', h), Status(x) # "charged" => x.owed = 0
      PROVE  FInv' /\ Bill!Set(m, Entered(x))
  <2> PICK s \in BOOLEAN : s = TRUE
    OBVIOUS
  <2>1. /\ Logged(h)' = s
        /\ ~s => wallet'.holds[h].forgiven = 0 /\ Status(wallet'.holds[h]) # "waived"
    BY <1>4
  <2> PICK f : f = Entered(x)
    OBVIOUS
  <2>2. f = FeeOf(wallet'.holds[h], s)
    BY Zenon DEF Entered
  <2>3. FInv' /\ Bill!Set(m, f)
    BY <1>4, <1>7, <2>1, <2>2, OneFee
  <2> HIDE DEF x
  <2> QED
    BY <2>3, ZenonT(60)
<1>8. CASE wallet' = freed /\ old.state # "captured"
  <2>1. Status(old) = "due"
    BY <1>5, <1>8 DEF Status
  <2>2. Released(due, wallet', h, "refunded_before_capture") /\ DOMAIN old = HoldFields
    BY <1>1, <1>8, ReleaseReleases DEF Sound, HoldShape
  <2>3. CASE old.state = "held"
    <3> DEFINE z == [old EXCEPT !.state = "released", !.reason = "refunded_before_capture"]
    <3>1. wallet'.holds = [due.holds EXCEPT ![h] = z]
      BY <2>2, <2>3, <1>1 DEF Released
    <3>2. /\ z.state = "released" /\ z.reason = "refunded_before_capture"
          /\ z.kind = old.kind /\ z.amount = old.amount /\ z.taken = old.taken
          /\ z.owed = old.owed /\ z.back = old.back /\ z.forgiven = old.forgiven
      BY <2>2 DEF HoldFields
    <3> HIDE DEF z, old
    <3>3. OneChanged(wallet, wallet', h) /\ x = z
      BY <3>1, <1>1, HoldsExcept DEF OneChanged
    <3>4. Status(z) = "waived"
      BY <3>2 DEF Status, Settled
    <3>5. old.owed = 0
      BY <2>1, <1>1 DEF FInv, old
    <3>6. FInv' /\ Bill!Set(m, Entered(z))
      BY <3>2, <3>3, <3>5, <1>7
    <3>7. Entered(z) = [feeOf[m] EXCEPT !.state = "waived", !.settled = TRUE]
      <4>1. Entered(z) = [NotEntered(old) EXCEPT !.state = "waived", !.settled = TRUE]
        BY <3>2, <3>4, FeeWaives
      <4> QED
        BY <4>1, <1>6
    <3>8. Bill!Waive(m)
      BY <3>6, <3>7, <2>1, <1>6 DEF Bill!Waive
    <3> QED
      BY <3>6, <3>8 DEF Billed, Bill!Next
  <2>4. CASE old.state # "held"
    <3>1. wallet'.holds = wallet.holds
      BY <2>2, <2>4, <1>1 DEF Released
    <3>2. OneChanged(wallet, wallet', h) /\ x = old
      BY <3>1, <1>1 DEF OneChanged
    <3>3. old.owed = 0
      BY <2>1, <1>1 DEF FInv
    <3>4. FInv' /\ Bill!Set(m, Entered(old))
      BY <3>2, <3>3, <1>7
    <3>5. Entered(old) = [feeOf[m] EXCEPT !.settled = TRUE]
      <4>1. Entered(old) = [NotEntered(old) EXCEPT !.settled = TRUE]
        <5> HIDE DEF old
        <5> QED
          BY EnteredAnyway
      <4> QED
        BY <4>1, <1>6
    <3>6. Bill!Overlook(m)
      BY <3>4, <3>5, <2>1, <1>6 DEF Bill!Overlook
    <3> QED
      BY <3>4, <3>6 DEF Billed, Bill!Next
  <2> QED
    BY <2>3, <2>4
<1>9. /\ Fresh(paid, y) /\ Status(y) = "charged" /\ OneChanged(wallet, paid, h)
      /\ NotEntered(y) \in IF Status(old) = "due" THEN Bill!Charged(NotEntered(old))
                              ELSE {NotEntered(old)}
  <2>1. y.forgiven = 0 /\ Status(y) = "charged"
    BY <1>1, <1>3, <1>5
  <2>2. \A l \in LotIds : y.back[l] = 0
    BY <1>1, <1>3 DEF Backs, CInv, Settlement, Logged
  <2>3. Charge(paid, y) /\ IsFiniteSet(LotIds) /\ y.kind \in {"credits", "plan_quota"}
    BY <1>3, LotsAreFew DEF Accounted, Balanced, Sound, HoldShape
  <2>4. OneChanged(wallet, paid, h)
    BY <1>1, <1>3 DEF OneChanged
  <2>5. NotEntered(y) \in IF Status(old) = "due" THEN Bill!Charged(NotEntered(old))
                            ELSE {NotEntered(old)}
    <3>1. Status(old) = "due" => FeeOf(y, FALSE) \in Bill!Charged(FeeOf(old, FALSE))
      BY <1>3, Zenon
    <3>2. Status(old) = "due" => NotEntered(y) \in Bill!Charged(NotEntered(old))
      BY <3>1, Zenon DEF NotEntered
    <3>3. Status(old) # "due" => y = old
      BY <1>1, <1>3
    <3> HIDE DEF y, old
    <3> QED
      BY <3>2, <3>3
  <2> QED
    BY <2>1, <2>2, <2>3, <2>4, <2>5 DEF Fresh
<1>10. ASSUME OneChanged(wallet, wallet', h), Status(x) = "charged", NEW q \in {0, 50, 100},
              Entered(x) \in Bill!GivenBack(NotEntered(y), q)
       PROVE  FInv' /\ Billed
  <2>1. FInv' /\ Bill!Set(m, Entered(x))
    BY <1>7, <1>10
  <2> DEFINE f == NotEntered(y)
             g == Entered(x)
             S == IF feeOf[m].state = "due" THEN Bill!Charged(feeOf[m]) ELSE {feeOf[m]}
  <2>2. f \in S
    BY <1>6, <1>9
  <2>3. g \in Bill!GivenBack(f, q) /\ Bill!Set(m, g)
    BY <2>1, <1>10
  <2> HIDE DEF f, g, S
  <2>4. \E f1 \in S : \E p \in {0, 50, 100} : \E g1 \in Bill!GivenBack(f1, p) : Bill!Set(m, g1)
    BY <2>2, <2>3, <1>10
  <2>5. feeOf[m].state \in {"due", "charged"} /\ ~feeOf[m].settled
    BY <1>5, <1>6
  <2>6. Bill!Settle(m)
    BY <2>4, <2>5 DEF Bill!Settle, S
  <2> QED
    BY <2>1, <2>6 DEF Billed, Bill!Next
<1>11. CASE wallet' = given /\ percent \in {50, 100}
  <2>1. /\ OneChanged(paid, given, h) /\ Status(given.holds[h]) = Status(y)
        /\ Entered(given.holds[h]) \in Bill!GivenBack(NotEntered(y), percent)
    <3>1. Sound(paid) /\ Accounted(paid) /\ Fresh(paid, paid.holds[h]) /\ h \in DOMAIN paid.holds
      BY <1>3, <1>9
    <3>2. percent \in {50, 100} /\ given = Refund(paid, h, percent)
      BY <1>11
    <3> HIDE DEF given, y
    <3>3. /\ OneChanged(paid, given, h) /\ Status(given.holds[h]) = Status(paid.holds[h])
          /\ Entered(given.holds[h]) \in Bill!GivenBack(NotEntered(paid.holds[h]), percent)
      BY <3>1, <3>2, RefundGivesBack
    <3> QED
      BY <3>3 DEF y
  <2>2. OneChanged(wallet, given, h)
    BY <2>1, <1>9 DEF OneChanged
  <2> QED
    BY <2>1, <2>2, <1>9, <1>10, <1>11
<1>12. CASE wallet' = paid
  <2>1. Entered(y) \in Bill!GivenBack(NotEntered(y), 0)
    BY <1>9, KeptSettles
  <2> QED
    BY <2>1, <1>9, <1>10, <1>12
<1> QED
  BY <1>2, <1>8, <1>11, <1>12

LEMMA DeliverBills ==
  ASSUME IInv, CInv, FInv, NEW e \in pending, Deliver(e)
  PROVE  FInv' /\ Billed
<1>1. e.meetup \in Calls /\ meetup[e.meetup].state # "none"
  BY DEF IInv, EventShape
<1> PICK m \in Calls : m = e.meetup
  BY <1>1
<1> PICK h : h = meetup[m].hold
  OBVIOUS
<1>2. /\ UNCHANGED meetup /\ pending' \subseteq pending
      /\ \/ CaptureCreated(h)
         \/ ~Logged(h) /\ SettleEnded(h, e.percent)
         \/ wallet' = Due(wallet) /\ UNCHANGED refundLog
  BY DEF Deliver
<1>3. meetup[m].state # "none" /\ meetup[m].hold = h
  BY <1>1
<1>4. e.percent \in {0, 50, 100} /\ \A f \in pending' : f.percent \in {0, 50, 100}
  BY <1>2 DEF FInv
<1>5. CASE CaptureCreated(h)
  BY <1>2, <1>3, <1>4, <1>5, CreatedBills
<1>6. CASE ~Logged(h) /\ SettleEnded(h, e.percent)
  <2> PICK percent \in {0, 50, 100} : percent = e.percent
    BY <1>4
  <2>1. SettleEnded(h, percent)
    BY <1>6
  <2> QED
    BY <2>1, <1>2, <1>3, <1>4, <1>6, EndedBills
<1>7. CASE wallet' = Due(wallet) /\ UNCHANGED refundLog
  <2>1. Bills(wallet, wallet')
    BY <1>7, DueHere, SameBills
  <2>2. SameMade
    BY <1>2 DEF SameMade
  <2> QED
    BY <2>1, <2>2, <1>4, <1>7, BillsStay DEF Billed
<1> QED
  BY <1>2, <1>5, <1>6, <1>7

(* What a call and its retries do before and after the meetup is made bills    *)
(* nobody.                                                                     *)
LEMMA CallBills ==
  ASSUME IInv, CInv, FInv, NEW c \in Calls, Call(c) \/ End(c)
  PROVE  FInv' /\ Billed
<1> DEFINE due == Due(wallet)
<1>1. Sound(due) /\ Accounted(due) /\ due.holds = wallet.holds
  BY DueHere
<1>2. ASSUME Bills(wallet, wallet'), UNCHANGED <<meetup, pending, refundLog>>
      PROVE  FInv' /\ Billed
  <2>1. SameMade /\ \A e \in pending' : e.percent \in {0, 50, 100}
    BY <1>2 DEF SameMade, FInv
  <2> QED
    BY <2>1, <1>2, BillsStay DEF Billed
<1>3. CASE Replay(c) \/ CreateExists(c) \/ CreateFails(c) \/ CheckFailed(c) \/ Abandon(c)
  <2>1. UNCHANGED <<wallet, meetup, pending, refundLog>>
    BY <1>3 DEF Replay, CreateExists, CreateFails, CheckFailed, Abandon
  <2>2. Bills(wallet, wallet')
    BY <2>1, SameBills
  <2> QED
    BY <2>1, <2>2, <1>2
<1>4. CASE Quote(c)
  <2>1. wallet' = due /\ UNCHANGED <<meetup, pending, refundLog>>
    BY <1>4 DEF Quote
  <2>2. Bills(wallet, wallet')
    BY <2>1, <1>1, SameBills
  <2> QED
    BY <2>1, <2>2, <1>2
<1>5. CASE Reserve(c)
  <2> DEFINE hold == NewHold(KeyOf[c], kind[c], Amount(c))
  <2>1. /\ UNCHANGED <<meetup, pending, refundLog>>
        /\ wallet' = wallet \/ wallet' = due \/ wallet' = PutHold(due, hold)
    BY <1>5 DEF Reserve
  <2>2. Unpaid(hold)
    BY DEF Unpaid, NewHold, Status, Settled
  <2> HIDE DEF hold, due
  <2>3. CASE wallet' = PutHold(due, hold)
    <3>1. Bills(due, wallet')
      BY <2>2, <2>3, <1>1, PutHoldPuts, PutBills
    <3> QED
      BY <3>1, <2>1, <1>1, <1>2, BillsFrom
  <2>4. CASE wallet' = wallet \/ wallet' = due
    BY <2>1, <2>4, <1>1, <1>2, SameBills
  <2> QED
    BY <2>1, <2>3, <2>4
<1>6. CASE ReleaseHold(c)
  <2>1. /\ wallet' = Release(due, reserved[c], "released")
        /\ UNCHANGED <<meetup, pending, refundLog>> /\ pc[c] = "release"
    BY <1>6 DEF ReleaseHold
  <2>2. reserved[c] \in DOMAIN due.holds
    BY <2>1, <1>1 DEF IInv, Progress, Promised
  <2> HIDE DEF due
  <2>3. Bills(due, wallet')
    BY <2>1, <2>2, <1>1, ReleaseBills
  <2> QED
    BY <2>1, <2>3, <1>1, <1>2, BillsFrom
<1>7. CASE End(c)
  <2>1. PICK topic \in {"cancelled", "closed"}, favourable \in BOOLEAN :
          /\ meetup[c].state = "open" /\ meetup' = [meetup EXCEPT ![c].state = topic]
          /\ pending' = pending \cup {[meetup |-> c, topic |-> topic,
                                       percent |-> RefundPercent(topic, favourable)]}
    BY <1>7 DEF End
  <2>2. UNCHANGED <<wallet, refundLog>>
    BY <1>7 DEF End
  <2>3. RefundPercent(topic, favourable) \in {0, 50, 100}
    BY DEF RefundPercent
  <2>4. \A e \in pending' : e.percent \in {0, 50, 100}
    <3> DEFINE n == RefundPercent(topic, favourable)
    <3> HIDE DEF n
    <3> QED
      BY <2>1, <2>3 DEF FInv, n
  <2>5. SameMade
    <3>1. meetup \in [Calls -> [state : {"none", "open", "cancelled", "closed"}, hold : Nat]]
      BY DEF IInv, CallTypes
    <3> QED
      BY <2>1, <3>1 DEF SameMade
  <2> QED
    BY <2>2, <2>4, <2>5, SameBills, BillsStay DEF Billed
<1>8. CASE Create(c)
  BY <1>8, CreateBills
<1> QED
  BY <1>3, <1>4, <1>5, <1>6, <1>7, <1>8 DEF Call

(* Nor do the transactions that no meetup takes part in.                       *)
LEMMA BooksBills ==
  ASSUME IInv, CInv, FInv, Books
  PROVE  FInv' /\ Billed
<1> DEFINE due == Due(wallet)
<1>1. /\ Sound(due) /\ Accounted(due) /\ due.holds = wallet.holds /\ DOMAIN due = WalletFields
      /\ DOMAIN wallet = WalletFields
  BY DueHere DEF Sound, IInv
<1>2. UNCHANGED <<meetup, pending, refundLog>>
  BY DEF Books
<1>3. Bills(wallet, wallet')
  <2>1. CASE Grant
    <3>1. PICK o \in Offers : wallet' = GrantLot(due, o)
      BY <2>1 DEF Grant
    <3>2. Same(due, wallet')
      BY <3>1, <1>1, GrantSame
    <3> QED
      BY <3>2, <1>1, SameBills DEF Same
  <2>2. CASE SweepDecayAndExpiry
    BY <2>2, <1>1, SameBills DEF SweepDecayAndExpiry
  <2>3. CASE Tick
    BY <2>3, SameBills DEF Tick
  <2>4. CASE \E h \in DOMAIN wallet.holds : SweepExpiredHold(h)
    <3>1. PICK h \in DOMAIN due.holds : wallet' = Release(due, h, "expired")
      BY <2>4, <1>1 DEF SweepExpiredHold
    <3> HIDE DEF due
    <3>2. Bills(due, wallet')
      BY <3>1, <1>1, ReleaseBills
    <3> QED
      BY <3>2, <1>1, BillsFrom
  <2>5. CASE RemoveCredits
    <3>1. PICK n \in Amounts : wallet' = Draw(due, Spend(due, n))
      BY <2>5 DEF RemoveCredits
    <3>2. Same(due, wallet')
      BY <3>1, <1>1, DrawSame
    <3> QED
      BY <3>2, <1>1, SameBills DEF Same
  <2>6. CASE StoreRefund
    <3>1. PICK l : wallet' = RevokeLot(due, l)
      BY <2>6 DEF StoreRefund
    <3>2. Same(due, wallet')
      BY <3>1, <1>1, RevokeSame
    <3> QED
      BY <3>2, <1>1, SameBills DEF Same
  <2>7. CASE CloseWallet
    <3>1. wallet' = [wallet EXCEPT !.closed = TRUE]
      BY <2>7 DEF CloseWallet
    <3>2. wallet'.holds = wallet.holds
      BY <3>1, <1>1 DEF WalletFields
    <3> QED
      BY <3>2, SameBills
  <2> QED
    BY <2>1, <2>2, <2>3, <2>4, <2>5, <2>6, <2>7 DEF Books
<1>4. SameMade /\ \A e \in pending' : e.percent \in {0, 50, 100}
  BY <1>2 DEF SameMade, FInv
<1> QED
  BY <1>2, <1>3, <1>4, BillsStay DEF Billed

LEMMA StepBills ==
  ASSUME IInv, CInv, FInv, [Next]_vars
  PROVE  FInv' /\ Billed
<1>1. CASE UNCHANGED vars
  <2>1. UNCHANGED <<wallet, meetup, pending, refundLog>>
    BY <1>1 DEF vars
  <2>2. SameMade /\ \A e \in pending' : e.percent \in {0, 50, 100}
    BY <2>1 DEF SameMade, FInv
  <2> QED
    BY <2>1, <2>2, SameBills, BillsStay DEF Billed
<1> QED
  BY <1>1, CallBills, BooksBills, DeliverBills DEF Next

LEMMA NothingIsBilled ==
  ASSUME Init
  PROVE  FInv /\ Bill!Init
<1>1. wallet.holds = <<>> /\ pending = {} /\ meetup = [c \in Calls |-> Unmade]
  BY DEF Init, WalletInit
<1>2. FInv
  BY <1>1 DEF FInv
<1>3. feeOf = [c \in Calls |-> NoFee]
  BY <1>1 DEF feeOf, Unmade
<1> QED
  BY <1>2, <1>3 DEF Bill!Init, Bill!NoFee, NoFee

(* Over every interleaving of calls, retries, sweeps, deliveries and the       *)
(* wallet's own transactions, a meetup's fee moves only as Fees allows: made   *)
(* due at its quoted price once per key, charged once and in full, and settled *)
(* once, with all, half or none of what was taken given back (create.go;       *)
(* events.go; capture.go; refunds.go).                                         *)
THEOREM MeetupsCostTheirFee == Spec => CostsItsFee
<1>1. Init => FInv /\ Bill!Init
  BY NothingIsBilled
<1>2. IInv /\ CInv /\ FInv /\ [Next]_vars => FInv' /\ [Bill!Next]_feeOf
  BY StepBills DEF Billed
<1> QED
  BY <1>1, <1>2, IInvHolds, CInvHolds, PTL DEF Spec, Bill!Spec, CostsItsFee
=============================================================================
