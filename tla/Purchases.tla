----------------------------- MODULE Purchases -----------------------------
(* Store purchases of one account: credit packs and subscriptions bought from  *)
(* Apple or Google, verified when the app says so, and followed afterwards by  *)
(* the notifications the stores send, late, repeated and in any order.         *)
(*                                                                             *)
(* What the store knows (shop) moves on its own.  The server reads it once per *)
(* call, before it takes the wallet's lock, and writes what it read later.     *)
EXTENDS Naturals, Sequences, FiniteSets

CONSTANTS
  Packs,        \* Credit packs that can be bought.
  Subs,         \* Subscriptions that can be bought.
  OnAndroid,    \* Those of them sold by Google; the others Apple sells.
  Nothing,      \* Stands for no purchase.
  Operator,     \* Where a plan comes from that an operator sets.
  Calls,        \* Calls that can be under way at once.
  Scenarios,    \* What an account may be given (purchases, an operator's plan),
                \*   and bounds: the calls at once and the notifications sent.
  Period,       \* How long a subscription is paid for at a time.
  Horizon       \* Bound: the last moment.

Items == Packs \cup Subs

ASSUME PurchasesAssumption ==
  /\ Packs \cap Subs = {} /\ OnAndroid \subseteq Items
  /\ Nothing \notin Items \cup {Operator} /\ Operator \notin Items
  /\ Scenarios \subseteq [gets : SUBSET (Items \cup {Operator}), calls : Nat, notices : Nat]
  /\ IsFiniteSet(Calls) /\ Period \in Nat \ {0} /\ Horizon \in Nat

VARIABLES
  now,
  scenario,
  shop,         \* The store's truth: state, the end it reports, and of access.
  sent,         \* The notifications the stores have sent, oldest first.
  bought,       \* billing.store_purchases: the purchases verified,
  lots,         \*   how many lots each was granted,
  taken,        \*   how often its lot was revoked,
  finish,       \*   and whether Google has been told: pending_finish_token.
  queued,       \* store.finish rows of the billing outbox.
  sub,          \* The account's row of billing.subscriptions.
  handled,      \* billing.processed_store_notifications.
  events,       \* subscription.* rows of the billing outbox,
  clock,        \*   and the time of the last, taken under the wallet's lock.
  cache,        \* meetup.subscription_cache.
  job,          \* The calls under way and what they have read.
  slipped,      \* History: purchases that were written out of date.
  manual        \* History: an operator has set a plan.

purchases == <<bought, lots, taken, finish, queued>>
plan == <<sub, events, clock>>
server == <<purchases, plan, handled, cache, job, slipped, manual>>
store == <<scenario, shop, sent>>
vars == <<now, store, server>>

Later(a, b) == IF a > b THEN a ELSE b

Idle == [pc |-> "idle", item |-> Nothing, note |-> 0, end |-> 0, at |-> 0]

Init ==
  /\ now = 0
  /\ scenario \in Scenarios
  /\ shop = [i \in Items |-> [state |-> "none", end |-> 0, until |-> 0]]
  /\ sent = <<>>
  /\ bought = {} /\ queued = {}
  /\ lots = [i \in Items |-> 0] /\ taken = [i \in Items |-> 0]
  /\ finish = [i \in Items |-> "none"]
  /\ sub = [of |-> Nothing, status |-> "lapsed", end |-> 0, grace |-> 0]
  /\ handled = {} /\ events = {} /\ clock = 0
  /\ cache = [on |-> FALSE, at |-> 0]
  /\ job = [c \in Calls |-> Idle]
  /\ slipped = {} /\ manual = FALSE

Return(c) == job' = [job EXCEPT ![c] = Idle]

----------------------------------------------------------------------------
(* The stores.  A notification carries its kind, and Apple's the dates it is   *)
(* about: the end of its period and the end of access.                         *)
Announce(i, kind) ==
  /\ Len(sent) < scenario.notices
  /\ sent' = Append(sent, [item |-> i, kind |-> kind,
                           end |-> shop'[i].end, until |-> shop'[i].until])

Move(i, state, end, until) ==
  shop' = [shop EXCEPT ![i] = [state |-> state, end |-> end, until |-> until]]

Buy(i) ==
  /\ i \in scenario.gets /\ shop[i].state = "none"
  /\ IF i \in Packs
       THEN Move(i, "paid", 0, 0) /\ UNCHANGED sent
       ELSE Move(i, "paid", now + Period, now + Period) /\ Announce(i, "renewed")
  /\ UNCHANGED <<now, scenario, server>>

(* The next period begins at the end of the last or, if that has passed, now.  *)
(* With Apple a subscription that has ended can be taken up again.             *)
Renew(s) ==
  /\ \/ shop[s].state \in {"paid", "grace", "hold"} /\ shop[s].end <= now + 1
     \/ /\ shop[s].state \in {"ended", "revoked"} /\ s \notin OnAndroid
        /\ now + Period > shop[s].end
  /\ LET end == IF shop[s].state \in {"ended", "revoked"}
                  THEN now + Period ELSE Later(shop[s].end, now) + Period
     IN Move(s, "paid", end, end)
  /\ Announce(s, "renewed")
  /\ UNCHANGED <<now, scenario, server>>

(* A renewal fails: access goes on for a while or stops.  Google moves the     *)
(* end of the period to the end of the grace.                                  *)
FailToRenew(s) ==
  /\ shop[s].state = "paid" /\ shop[s].end <= now
  /\ \/ /\ Move(s, "grace", IF s \in OnAndroid THEN now + 1 ELSE shop[s].end, now + 1)
        /\ Announce(s, "grace")
     \/ /\ Move(s, "hold", shop[s].end, shop[s].end)
        /\ Announce(s, "hold")
  /\ UNCHANGED <<now, scenario, server>>

Lapse(s) ==
  /\ shop[s].state \in {"paid", "grace", "hold"} /\ shop[s].until <= now
  /\ Move(s, "ended", shop[s].end, shop[s].until)
  /\ Announce(s, "ended")
  /\ UNCHANGED <<now, scenario, server>>

(* A refund.  Google ends the period with it; Apple keeps its date.  A pack's  *)
(* may be announced again, under another id.                                   *)
Refund(i) ==
  /\ \/ shop[i].state \in {"paid", "grace", "hold"}
     \/ i \in Packs /\ shop[i].state = "revoked"
  /\ IF i \in Packs THEN Move(i, "revoked", 0, 0)
     ELSE Move(i, "revoked", IF i \in OnAndroid THEN now ELSE shop[i].end, now)
  /\ Announce(i, "revoked")
  /\ UNCHANGED <<now, scenario, server>>

PaidFor(s) == shop[s].state \in {"paid", "grace"} /\ shop[s].until > now

Tick ==
  /\ now < Horizon
  /\ now' = now + 1
  /\ UNCHANGED <<store, server>>

----------------------------------------------------------------------------
(* The subscription row and what follows from writing it.                      *)

(* entitledAt.                                                                 *)
Entitled(row) ==
  \/ row.status = "active" /\ row.end > now
  \/ row.status = "grace" /\ Later(row.end, row.grace) > now

(* writeSubscription: a change of entitlement is queued with the row.          *)
WriteSubscription(next) ==
  /\ sub' = next
  /\ IF Entitled(sub) = Entitled(next)
       THEN UNCHANGED <<events, clock>>
       ELSE /\ clock' = clock + 1
            /\ events' = events \cup {[on |-> Entitled(next), at |-> clock + 1]}

(* A notification of item i sent after position n, of one of these kinds, has  *)
(* been handled already.                                                       *)
Overtaken(i, n, kinds) ==
  \E k \in handled : k > n /\ sent[k].item = i /\ sent[k].kind \in kinds

----------------------------------------------------------------------------
(* Another call may come in.                                                   *)
Room(c) ==
  /\ job[c].pc = "idle"
  /\ Cardinality({d \in Calls : job[d].pc # "idle"}) < scenario.calls

(* VerifyPurchase: the store is asked, and its answer held against the claim.  *)
Verify(c, i) ==
  /\ Room(c)
  /\ shop[i].state \notin {"none", "revoked"}
  /\ i \in Subs => shop[i].end > now
  /\ job' = [job EXCEPT ![c] = [pc |-> IF i \in Packs THEN "grant" ELSE "activate",
               item |-> i, note |-> 0, end |-> shop[i].end, at |-> Len(sent)]]
  /\ UNCHANGED <<now, store, purchases, plan, handled, cache, slipped, manual>>

(* finishPurchase: nothing to do unless a finish is pending.                   *)
FinishPurchase(i, first) ==
  IF first \/ finish[i] = "pending" THEN [finish EXCEPT ![i] = "done"] ELSE finish

(* recordPurchase, and what follows the commit.  Google waits to be told that a *)
(* purchase is done with: at once if that succeeds, else from the outbox.      *)
RecordPurchase(i) ==
  /\ bought' = bought \cup {i}
  /\ queued' = IF i \in OnAndroid \ bought THEN queued \cup {i} ELSE queued
  /\ \/ i \in OnAndroid /\ finish' = FinishPurchase(i, i \notin bought)
     \/ i \in OnAndroid /\ finish' = [finish EXCEPT ![i] = IF i \in bought THEN @ ELSE "pending"]
     \/ i \notin OnAndroid /\ UNCHANGED finish

(* grantPack.                                                                  *)
Grant(c) ==
  LET i == job[c].item IN
  /\ job[c].pc = "grant"
  /\ RecordPurchase(i)
  /\ lots' = IF i \notin bought THEN [lots EXCEPT ![i] = @ + 1] ELSE lots
  /\ slipped' = IF Overtaken(i, job[c].at, {"revoked"}) THEN slipped \cup {i} ELSE slipped
  /\ Return(c)
  /\ UNCHANGED <<now, store, taken, plan, handled, cache, manual>>

(* Mutant: the end of another subscription is kept, too.                       *)
EndOfAny(s, end) == Later(sub.end, end)

(* The period a verified subscription is stored with: never moved back.        *)
EndToStore(s, end) == IF sub.of = s THEN Later(sub.end, end) ELSE end

(* Kinds after which an older answer must not be written: it would undo them.  *)
Undone == {"grace", "revoked"}

(* activateSubscription.                                                       *)
Activate(c) ==
  LET s == job[c].item IN
  /\ job[c].pc = "activate"
  /\ RecordPurchase(s)
  /\ WriteSubscription([of |-> s, status |-> "active",
                        end |-> EndToStore(s, job[c].end), grace |-> 0])
  /\ slipped' = IF \/ Overtaken(s, job[c].at, Undone)
                   \/ sub.of # s /\ Overtaken(s, job[c].at, {"renewed"})
                  THEN slipped \cup {s} ELSE slipped
  /\ Return(c)
  /\ UNCHANGED <<now, store, lots, taken, handled, cache, manual>>

(* HandleOutboxEvent: finishPurchase again, until it succeeds.                 *)
FinishQueued(i) ==
  /\ i \in queued
  /\ finish' = FinishPurchase(i, FALSE)
  /\ queued' = queued \ {i}
  /\ UNCHANGED <<now, store, bought, lots, taken, plan, handled, cache, job, slipped, manual>>

(* The call dies, or the store or a statement of it fails.                     *)
Fail(c) ==
  /\ job[c].pc # "idle"
  /\ Return(c)
  /\ UNCHANGED <<now, store, purchases, plan, handled, cache, slipped, manual>>

----------------------------------------------------------------------------
(* Notifications.                                                              *)

(* recordOnly, or a notification handled before.                               *)
RecordOnly(n) == handled' = handled \cup {n} /\ UNCHANGED <<purchases, plan, slipped>>

(* Mutant: the lot is revoked whenever a refund is announced.                  *)
RevocableAlways(p) == TRUE

(* What refundPack finds when it has locked the purchase.                      *)
Revocable(p) == taken[p] = 0

(* refundPack.                                                                 *)
RefundPack(n, p) ==
  /\ handled' = handled \cup {n}
  /\ IF Revocable(p)
       THEN /\ taken' = [taken EXCEPT ![p] = @ + 1]
            /\ finish' = [finish EXCEPT ![p] = IF @ = "pending" THEN "none" ELSE @]
       ELSE UNCHANGED <<taken, finish>>
  /\ UNCHANGED <<bought, lots, queued, plan, slipped>>

(* A change to a subscription: its status and, where the store gives them, its *)
(* end, the end of its grace and the end of the period it is about.            *)
NoDate == 0

(* appleChange.                                                                *)
AppleChange(note) ==
  CASE note.kind = "renewed" ->
         [status |-> "active", end |-> note.end, grace |-> NoDate, asOf |-> NoDate]
    [] note.kind = "grace" ->
         [status |-> "grace", end |-> NoDate, grace |-> note.until, asOf |-> note.end]
    [] OTHER ->
         [status |-> "lapsed", end |-> NoDate, grace |-> NoDate, asOf |-> note.end]

(* googleSubscription: the types that extend access take the end Google gave.  *)
GoogleChange(kind, end) ==
  CASE kind = "renewed" ->
         [status |-> "active", end |-> end, grace |-> NoDate, asOf |-> NoDate]
    [] kind = "grace" ->
         [status |-> "grace", end |-> end, grace |-> end, asOf |-> NoDate]
    [] OTHER ->
         [status |-> "lapsed", end |-> NoDate, grace |-> NoDate, asOf |-> NoDate]

(* Mutant: a notification is never found to be overtaken.                      *)
StaleNever(change) == FALSE

(* A change that ends access is stale when a later period is already stored.   *)
Stale(change) ==
  change.asOf # NoDate /\ change.status # "active" /\ change.asOf < sub.end

(* applySubscriptionChange, on notification n; late says what overtook it.     *)
ApplySubscriptionChange(n, s, change, late) ==
  IF n \in handled \/ s \notin bought \/ sub.of # s \/ Stale(change)
    THEN RecordOnly(n)
    ELSE /\ handled' = handled \cup {n}
         /\ WriteSubscription([of |-> s, status |-> change.status,
              end |-> Later(sub.end, change.end),
              grace |-> IF change.grace # NoDate THEN change.grace
                        ELSE IF change.status = "grace" THEN sub.grace ELSE 0])
         /\ slipped' = IF late THEN slipped \cup {s} ELSE slipped
         /\ UNCHANGED purchases

(* HandleAppleNotification.  When the purchase cannot be read, a pack's refund *)
(* is taken for a subscription's, finds none, and is recorded as ignored.      *)
AppleNotice(n) ==
  LET note == sent[n] IN
  /\ note.item \notin OnAndroid
  /\ IF note.item \in Packs /\ note.item \in bought /\ n \notin handled
       THEN \/ RefundPack(n, note.item)
            \/ /\ handled' = handled \cup {n}
               /\ slipped' = slipped \cup {note.item}
               /\ UNCHANGED <<purchases, plan>>
       ELSE IF note.item \in Packs THEN RecordOnly(n)
       ELSE ApplySubscriptionChange(n, note.item, AppleChange(note),
              \/ note.kind = "renewed" /\ Overtaken(note.item, n, Undone)
              \/ note.kind = "grace" /\ Overtaken(note.item, n, {"revoked"}))
  /\ UNCHANGED <<now, store, cache, job, manual>>

(* googleVoided, and a subscription that Google revoked.                       *)
GoogleRevoked(n) ==
  LET note == sent[n] IN
  /\ note.item \in OnAndroid /\ note.kind = "revoked"
  /\ IF note.item \in Packs
       THEN IF n \in handled \/ note.item \notin bought
              THEN RecordOnly(n) ELSE RefundPack(n, note.item)
       ELSE ApplySubscriptionChange(n, note.item, GoogleChange("revoked", NoDate), FALSE)
  /\ UNCHANGED <<now, store, cache, job, manual>>

(* googleSubscription asks Google first, unless it has seen the notification.  *)
(* Access that goes on makes one that ends it stale.                           *)
GoogleRead(c, n) ==
  LET note == sent[n] IN
  /\ note.item \in OnAndroid \cap Subs /\ note.kind # "revoked"
  /\ Room(c) /\ n \notin handled
  /\ job' = [job EXCEPT ![c] =
       [pc |-> IF note.kind \in {"hold", "ended"} /\ shop[note.item].end > now
                 THEN "stale" ELSE "apply",
        item |-> note.item, note |-> n, end |-> shop[note.item].end, at |-> Len(sent)]]
  /\ UNCHANGED <<now, store, purchases, plan, handled, cache, slipped, manual>>

GoogleApply(c) ==
  LET j == job[c]
      kind == sent[j.note].kind
  IN
  /\ \/ j.pc = "stale" /\ RecordOnly(j.note)
     \/ /\ j.pc = "apply"
        /\ ApplySubscriptionChange(j.note, j.item, GoogleChange(kind, j.end),
             IF kind \in {"renewed", "grace"}
               THEN Overtaken(j.item, j.note, {"revoked"})
               ELSE Overtaken(j.item, j.at, {"renewed", "grace"}))
  /\ Return(c)
  /\ UNCHANGED <<now, store, cache, manual>>

----------------------------------------------------------------------------
(* AdminSetPlan: an operator's plan replaces the row, link and all, and no     *)
(* event is queued.                                                            *)
SetPlan ==
  /\ Operator \in scenario.gets /\ ~ manual
  /\ manual' = TRUE
  /\ sub' = [of |-> Operator, status |-> "active", end |-> now + Period, grace |-> 0]
  /\ UNCHANGED <<now, store, purchases, events, clock, handled, cache, job, slipped>>

(* Removing it replaces the row too.                                           *)
ClearPlan ==
  /\ manual /\ sub.of = Operator
  /\ sub' = [of |-> Operator, status |-> "lapsed", end |-> now + 1, grace |-> 0]
  /\ UNCHANGED <<now, store, purchases, events, clock, handled, cache, job, slipped, manual>>

(* Mutant: the last event delivered is believed.                               *)
NewerOrNot(e) == TRUE

(* UpsertSubscriptionCache's guard.                                            *)
Newer(e) == e.at > cache.at

(* subscriptionCacheConsumer: from the outbox, which may deliver again.        *)
Deliver(e) ==
  /\ cache' = IF Newer(e) THEN e ELSE cache
  /\ \/ events' = events \ {e}
     \/ UNCHANGED events
  /\ UNCHANGED <<now, store, purchases, sub, clock, handled, job, slipped, manual>>

----------------------------------------------------------------------------
StoreStep(i) ==
  \/ Buy(i)
  \/ Refund(i)
  \/ i \in Subs /\ (Renew(i) \/ FailToRenew(i) \/ Lapse(i))

CallStep(c) ==
  Grant(c) \/ Activate(c) \/ GoogleApply(c) \/ Fail(c)

Next ==
  \/ Tick
  \/ \E i \in Items : StoreStep(i) \/ FinishQueued(i)
  \/ \E c \in Calls : CallStep(c) \/ \E i \in Items : Verify(c, i)
  \/ \E n \in 1 .. Len(sent) :
       AppleNotice(n) \/ GoogleRevoked(n) \/ \E c \in Calls : GoogleRead(c, n)
  \/ SetPlan \/ ClearPlan
  \/ \E e \in events : Deliver(e)

Spec == Init /\ [][Next]_vars

----------------------------------------------------------------------------
Dates == 0 .. Horizon + 2 * Period + 1

TypeOK ==
  /\ now \in 0 .. Horizon /\ scenario \in Scenarios
  /\ shop \in [Items -> [state : {"none", "paid", "grace", "hold", "ended", "revoked"},
                         end : Dates, until : Dates]]
  /\ Len(sent) <= scenario.notices
  /\ bought \subseteq scenario.gets /\ queued \subseteq bought
  /\ lots \in [Items -> Nat] /\ taken \in [Items -> Nat]
  /\ finish \in [Items -> {"none", "pending", "done"}]
  /\ sub \in [of : Subs \cup {Nothing, Operator}, status : {"active", "grace", "lapsed"},
              end : Dates, grace : Dates]
  /\ handled \subseteq 1 .. Len(sent)
  /\ events \subseteq [on : BOOLEAN, at : 1 .. clock] /\ clock \in Nat
  /\ cache \in [on : BOOLEAN, at : 0 .. clock]
  /\ \A c \in Calls : job[c].item \in Items \cup {Nothing} /\ job[c].end \in Dates
  /\ slipped \subseteq Items /\ manual \in BOOLEAN

(* Every notification of i so far has been handled, none of them out of date.  *)
Followed(i) ==
  /\ i \notin slipped
  /\ \A n \in 1 .. Len(sent) : sent[n].item = i => n \in handled

(* A purchase is granted once however often it is verified, and its lot is     *)
(* taken back once, when the store refunded it, however often that is said.    *)
(* Google is told of every purchase, or a row remembers to (purchases.go,      *)
(* VerifyPurchase "exactly once"; notifications.go, refundPack).               *)
PurchasesSettleOnce ==
  \A i \in Items :
    /\ lots[i] <= 1 /\ taken[i] <= lots[i]
    /\ taken[i] = 1 => shop[i].state = "revoked"
    /\ lots[i] = 1 /\ shop[i].state = "revoked" /\ Followed(i) => taken[i] = 1
    /\ finish[i] = "pending" => i \in queued

(* When the notifications of a subscription have all arrived, in whatever      *)
(* order, the account is entitled exactly while the store says it has paid:    *)
(* unless one that grants access was applied after one that ends it            *)
(* (notifications.go, applySubscriptionChange).                                *)
StoreIsFollowed ==
  \A s \in Subs : sub.of = s /\ Followed(s) => (Entitled(sub) <=> PaidFor(s))

(* When its events have all been delivered, in whatever order, the meetup      *)
(* module's cache does not deny a plan that applies, unless an operator gave   *)
(* it (subscription_cache.sql, UpsertSubscriptionCache).                       *)
CacheNeverDenies == events = {} /\ ~ manual /\ Entitled(sub) => cache.on

=============================================================================
