# A verification project for the meetup backend

The repository is the backend (Go, PostgreSQL) and the app of a service on which
professionals host small meetups: a host posts a meetup with a window and a number of
seats, others ask to join, the host answers, everyone is notified, and hosting is paid
with credits. This directory holds TLA+ modules of the parts whose behaviour is decided
by interleavings, crashes and retries, the TLC configurations that check them, and
proofs of their main properties for every size.

Paths below are relative to `src/backend/internal/` unless they start with `src/`.

## 1. Inventory

One process, the *monolith*, holds all the modules below; several instances of it run
against one PostgreSQL, so every guarantee is made by transactions, row locks, advisory
locks and unique indexes, and never by memory. A *gateway* turns HTTP into gRPC.

| component | state | operations | what is hard | what makes it correct |
|---|---|---|---|---|
| outbox (`platform/outbox`, six tables) | rows with `attempts`, `next_attempt_at`, `processed_at`, `dead_lettered_at`; each poller's batch | insert with a business write, nudge, claim, renew, deliver, record, sweep | crashes between effect and mark, slow batches reclaimed, several claimers | at least once, overlap and repetition only for named causes, every row settles |
| meetup requests (`modules/meetup/requests.go`, `repository/meetup_requests_postgres.go`) | `meetups.status`, `meetup_requests.status` | join, accept, reject, withdraw, cancel-pending | reads before locks, READ COMMITTED snapshots, unique index and foreign-key waits | seats never oversold, one live request, decided stays decided |
| meetup lifecycle (`service_lifecycle.go`, `repository/meetups_lifecycle_postgres.go`) | `meetups.status`, reminders | create, cancel, close, auto-close, starting-soon | sweep against host against accept | whoever is seated at the end is told, every meetup ends |
| schedule guard (`schedule_conflict.go`) | a per-user advisory lock | check inside create and join | two writes of one user | nobody is in two overlapping live meetups |
| account purge (`service_events.go`, `meetups_member_postgres.go`) | the account's rows in the meetup schema | check, cancel hosted, purge | purge against calls in flight, partial failure and retry | the pipeline converges, nothing of the person is left |
| wallet and holds (`modules/billing/repository`, `wallet`) | lots, balance, debt, holds, ledger | grant, decay, reserve, release, capture, refund, revoke | two modules and an outbox between reserve and capture, expiry, replays | balances reconcile, one charge per meetup, no refund above the charge |
| meetup charging (`modules/meetup/charging.go`, `modules/billing/refunds.go`) | a hold per creation key, the meetup's billing events | quote, reserve, create, capture, refund | events out of order, TTL sweep against capture | a meetup is charged once, a failed create is not |
| purchases and subscriptions (`modules/billing/purchases.go`, `notifications.go`, `subscriptions.go`) | store purchases, the subscription row, handled notifications, the meetup module's cache | verify, finish at Google, apply a notification, set a plan by hand | store answers read before the wallet's lock, notifications repeated and out of order | a purchase grants once and is taken back once; the plan follows the store |
| sessions (`modules/auth/service_session.go`, `repository/refresh_tokens_postgres.go`) | refresh tokens in chains | sign in, rotate, reuse response, sign out, sweep | two refreshes with one token, the reuse response against a rotation, a self-referencing foreign key | a sign-in never forks, what ended stays ended, the table empties |
| accounts (`modules/auth/identity_resolution.go`, `verification.go`, `sweeper.go`, `repository/users_postgres.go`) | users, identities, trust level; the display cache in another module | sign up, verify, link, rename, delete, sweep guests, announce | calls of several statements that may stop between any two, sweep against link, publication against write | a level is earned, a deletion is announced once, only guests are swept |
| one-time codes (`modules/auth/service_email.go`, `otp_budget.go`, `repository/verification_codes_postgres.go`) | one pending code, daily budgets | start, guess, consume, hand back | every statement commits alone | attempts and budgets are bounded, a code is accepted once |
| ratings and reviews (`rating.go`, `review.go`, `repository/ratings_postgres.go`, `review_postgres.go`) | ratings, completed reviews, a cached average in auth | rate, review, publish | advisory locks of several people, publication after the commit | a review is whole, no standoff, the average catches up |
| completed counts (`completedrecompute.go`) | a cached number in auth | recount by outbox, publish | repeated and out-of-order deliveries | the number catches up with the rows |
| safety check-in (`safety.go`) | one row per participant | create at accept, check in, decline | both read before either writes | exclusive terminal states |
| notifications (`modules/notification`) | device tokens, delivered notifications | register, send, prune | one token, two accounts | a device belongs to one account |
| event bus (`eventbus`) | subscribers | publish | handler failure, order | best effort, never the only path |
| platform (`ratelimit`, `breaker`, `flags`, `jwt`, ...) | counters | | boundary of a window, half-open probes | limits hold |
| analytics, gateway, gRPC layer, generated code, app | none that decides | | | |

How they interact: a call of a module writes its tables and, in the same transaction,
rows of an outbox; after the commit it nudges the poller of its own instance. Pollers
deliver rows to the push provider, to another module's handler (billing, deleted users,
completed counts, subscriptions) or to analytics. Facts that only a display needs go over
the event bus after the commit, at most once, stamped with the time of their publication.
Modules call each other directly only to read or, for charging, to reserve.

## 2. Plan

Ordered by what would hurt most if it were wrong and is least reachable by tests.

1. **Outbox** over **Delivery** (modelled, proved): everything else relies on it.
2. **MeetupRequests** over **Seats** (modelled, proved): the product itself.
3. **Wallet** (modelled, proved): lots, holds, capture, refund, debt and their reconciliation.
4. **MeetupBilling** over **Fees** (modelled, proved): composes the creation of
   a meetup, its hold, the billing outbox (an unordered at-least-once channel, by the
   guarantees of Delivery) and the sweep of holds.
5. **Sessions** over **Lineage** (modelled, proved).
6. **Purchases** (modelled, proved).
7. **Accounts**, **Reputation**, **Otp** (modelled, proved).
8. Left: **SafetyGate** (check-in against decline: both read before either writes, and the
   row an accept may fail to create); device tokens of two accounts; the recipients' side of
   a notification; **RateLimiter** and **Breaker**; pricing as a pure function.
9. Left to prove: nothing that the prover can reach. Every safety property of the runs and
   every refinement is a theorem; Purchases, Accounts, Reputation and Otp have no abstract
   specification of their own.

Each component's theorems stand in a module of their own (`<Component>Proofs`), each
module that is proved about has no RECURSIVE operator, one action per operation or per
step between locks, and constants with named assumptions.

## 3. Modules

| module | models |
|---|---|
| `Outbox` | `platform/outbox/outbox.go` over one table, with the store's queries (`meetup/repository/queries/notification_outbox.sql`, `billing/repository/queries/ops.sql`) |
| `Delivery` | what an outbox promises its callers: a stored row is done only after its effect, and settled rows stay settled |
| `MeetupRequests` | a meetup's seats: everything that creates, fills, frees and ends one |
| `Seats` | what a meetup promises about its seats |
| `Wallet` | one user's credits (`billing/wallet/*.go`, the sweeps, operator and store transactions) |
| `MeetupBilling` | extends `Wallet`: create calls, the billing events and what billing makes of them |
| `Fees` | what a meetup promises to cost: one price, one charge in full, one settlement |
| `Purchases` | one account's purchases at two stores, their notifications and the plan that follows |
| `Sessions` | the refresh tokens of some accounts |
| `Lineage` | what a sign-in promises: one token that can be spent, handed on, over for good |
| `Accounts` | accounts from sign-up to deletion, their trust level and their display elsewhere |
| `Reputation` | ratings, reviews and completed meetups, and what profiles show of them |
| `Otp` | one-time codes for one address and the budgets they are taken from |
| `MC<Module>` | instances for TLC of each module that runs |
| `<Module>Proofs` | theorems about `Outbox`, `MeetupRequests`, `MeetupBilling`, `Purchases`, `Sessions`, `Accounts`, `Reputation`, `Otp` |

Some modules also hold the mutated form of a definition, a comment away from it
(`ClaimableTwice` beside `Claimable`): PROJECT.json pairs each property with the mutation
that breaks it.

### Outbox

A row's columns are sets and functions over row ids (`stored`, `processed`, `dead`,
`attempts`, `wait` = `next_attempt_at - now`). Each poller walks through `idle`,
`claiming`, `working` (a claimed batch), `delivering` (inside `process`) and
`recording`. `Leased` chooses between the notification table, whose store implements
`Leaser` (renewal before every delivery, marks compared with the lease), and the others.
A faulty step (a crash, a database error, a deadline that passes while its claimer still
has the row) costs one of `MaxFaults`. Crash loses the poller's memory and every nudge
of its instance, before or after the side effect happened. `effects`, `late`, `overran`
(rows whose lease ran out inside `process`) and `unrecorded` are history variables. Left out: the pending-rows gauge, logging, payloads.

### MeetupRequests

A row `<<m, u, k>>` is the k-th request of user u for meetup m, with the column `status`;
`unused` and `deleted` stand for no row. Meetups have `mstatus`. Time is a number;
`Over(m)` is `window_end <= now()`.

Everything a transaction does under the meetup's row lock (`SELECT ... FOR UPDATE`, or the
single UPDATE that decides) is one action: `Accept`, `Withdraw`, `Cancel`, `Close`,
`AutoClose`. What is read earlier is an action of its own, because the code then acts on
a stale value:

* `JoinAsk` is RequestToJoin's reads; `JoinCheck` takes the user's advisory lock, runs the
  schedule guard and evaluates the conditional INSERT's subqueries; `JoinWrite` is the
  same INSERT meeting the unique index and the foreign key's lock and committing. Between
  the last two another transaction may commit: under READ COMMITTED the INSERT's
  `NOT EXISTS` and `EXISTS` are not evaluated again, the unique index is.
* `WithdrawRead` reads the request and chooses between `CancelPending` and `Withdraw`. The
  window is compared with `now()`, the transaction's start, so its check is in the read.
* `HostCheck`/`HostWrite` are CreateMeetup's schedule guard and insert, under the host's
  advisory lock (`Locked`). Neither asks whether the account still exists: a token outlives
  it, and a create may come after the purge.
* `Leave`, `Delete` and `Purge` are the deletability check, the auth module's transaction
  and this module's purge; `CancelForDeleted` is the handler's first half. The purge
  takes the schedule lock, fails while a live meetup is still hosted, and is retried.

The notifications of these transactions are rows of the notification outbox (see Outbox);
here `told` keeps only who was told that a meetup ended. Not modelled: the radius, gender
and trust gates of RequestToJoin (they refuse, which `JoinAbort` covers), creation limits
and charging, idempotency keys, the starting-soon reminder, listing and display.

In `Seats`, `gone` is the people whose account was purged: theirs are the only seats that
are lost without a withdrawal.

### Wallet and MeetupBilling

`wallet` is the row of `billing.wallets` with what hangs on it: `lots` in the order they
were granted (their `id` and `granted_at`), `holds` with the allocations `taken` and
`back` per lot, and the plan's usage. `Ledger.Do` locks that row, so a transaction is one
step, and its operations are operators from the loaded wallet to the one written back:
`Deliver` of a cancellation is `Due`, then `Capture`, then `Refund` with `Trim` and
`SettleDebt`, as in the code. Loops over lots are stated by what each lot gives (`Spend`,
`Refund`) instead of one by one; ledger rows are reduced to the figures they change. A
transaction the code rolls back (a negative figure, a refused reservation) changes nothing.

A call walks through `idle` (the lookup by key, then the quote), `reserve`, `create` (the
insert under the schedule lock), `failed` and `release`. `pending` is the undelivered rows
of `meetup.billing_outbox`, in no order; a row whose mark is lost stays. A failed create
may be one whose commit's answer was lost; the lookup before the release may fail, and is
then taken for nothing found, as in the code. A call may stop anywhere: at the cost of a
fault it is abandoned, and without one it may simply never go on.

Abstracted: the lookup and the quote of one call are one step (the insert repeats the
lookup under the lock); the price version is part of the amount; limits and prices the app
did not show only end the call; whether a cancellation is early or a close found nobody is
chosen freely (`favourable`); the thirty days of the refund cap are longer than the
horizon; operator commands and receipts replayed under their key change nothing and are
left out; one plan period.

`Fees` knows no wallet, hold or event: a `fee` per create call falls due at the quoted price
(`Make`, once per key), is charged once and in full (`Charge`: what credits there are, the rest
owed), and is settled once (`Settle`, with a charge that comes late and a part given back;
`Waive`, when a refund in full came before the charge; `Overlook`, when that refund found the
hold let go and the charge still comes, see section 5). MeetupBilling maps its state to it
with `feeOf`: the meetup of a call says whether there is a fee, its hold what was charged and
given back, the refund log whether it is settled. Everything else, reservations, replays,
expiry, decay, grants, repeated deliveries, must leave every fee as it is.

### Sessions

A row of `auth.refresh_tokens` is a token's user, `expires_at`, `revoked_at` (as a flag)
and `replaced_by`; tokens are numbered as they are minted. A refresh is `Present` (the read
outside any transaction) and then `Answer` by what it read, `Claim` (the child's INSERT and
the UPDATE that claims the parent, whose WHERE is evaluated again after a wait), `LoseClaim`,
`Commit` or `GiveUp`. The reuse response is `StartRevoking`, which takes the statement's
snapshot, and `RevokeAll`, which waits for rows a rotation has locked; between them new tokens
may be committed, which it does not see. A child becomes a row at `Commit`; until then its
expiry is `due`. `Sweep` deletes a batch of rows that are revoked, or have been expired for
longer than the retention, and that no row names; `DeleteUser` cascades. `Logout` revokes one. History: `family` and `ended`.
Left out: hashing, the access token, the client's retries.

### Accounts

A call is a script of statements (`create`, one write, `identity`, `session`, `delete`) that
can fail before any of them. A verification locks the row (`Lock`), computes the level from
what it locked and writes both (`Commit`). A publication is stamped (`Stamp`) and then delivered (`Deliver`): in between another
may overtake it, and the cache's guarded upsert (`Upsert`) keeps the newer. `StartSweep` takes
the snapshot of DeleteAbandonedGuests, and `FinishSweep` deletes what was chosen from it: an
account written to meanwhile is only looked up by its id again (`overtaken` names these);
`Delete` and the sweep put the account into `due`, whose delivery (`Erase`) tells the modules
one after the other and starts again at the first when one fails (`told` is how far it has
come at most). Trust levels 0 to 3 are
computed from the set of proofs; which company or name was entered is not kept, nor which of
Apple and Google an identity is from: linking one succeeds or is a conflict.

### Reputation

`LockKey` is the hash that becomes an advisory lock's key: two people may share one. A review
takes the locks of everybody it rates in the order of their ids (`TakeLock`), which is not the
order of the keys, inserts its
ratings and computes the aggregates (`Write`), and commits. Every publication is stamped after
the commit and delivered once (`Stamp`, `Deliver`), so a later commit can be stamped first:
`doubtful` names the people whose average may then be wrong until the next rating. A completed
meetup leaves a row in `due`; `Recount` reads the number of each participant and `Apply` raises
the cached one, never lowers it. Who may rate and what the stars are is not modelled; an
aggregate is the set of people it counts.

### Otp

Every statement is an action: nothing holds the row between two of them. A start takes a unit
of the requester's and of the address's budget (`TakeSend`), and stores the code in place of the
old one (`Store`). A guess takes a unit of both (`TakeGuess`), claims an attempt by one UPDATE
(`Claim`) or finds out why it could not (`Explain`), compares what it claimed (`Compare`),
consumes the code if it still is the one it read (`Consume`), and hands the units back when it
was right (`Refund`, each of which may fail without the other). A call that finds the attempts
spent leaves the row alone, and one that finds it expired clears it, as does the wrong guess
with the last attempt (`Clear`, by address). `Age` makes a code older, `Midnight` starts a day's budgets. Deliveries of
the message, test addresses and the wording of refusals are left out.

### Purchases

`shop` is what the stores know and moves on its own: bought, renewed, not renewed, lapsed,
refunded, each with a notification in `sent` that may arrive late, twice and in any order.
`Verify` reads the store before the wallet's lock is taken; `Grant` and `Activate` write what
was read. A notification of Apple carries its dates and is one transaction (`AppleNotice`);
Google's must be looked up first (`GoogleRead`, `GoogleApply`). `FinishPurchase` tells Google
after the commit, and `FinishQueued` is the outbox row that remembers to. The meetup module's
cache takes an event only if it is newer than the last (`Newer`). `slipped` names purchases
about which something out of date was written. Event times are taken under the wallet's lock
and increase strictly; signatures, the sandbox, account tokens, the auto-renew flag and the
catalog are left out, and an event is delivered in the end.

## 4. Runs

Bounds are the CONSTANTS of each `.cfg`. All runs say CHECK_DEADLOCK FALSE: the history
is finite (every row settles, every meetup ends, tokens and versions run out, time stops
at the horizon) and the system may then rest.

| run | states | instance | shows |
|---|---|---|---|
| `outbox_leased` | 418,436 | one row, two pollers, leases, two faults, three attempts | two pollers are in one row at once only after a lease ran out inside `process`; the promise of Delivery; every row settles |
| `outbox_plain` | 2,007,796 | two rows, batches of one, no leases, one fault | overlap and repetition only for the named causes; no nudge is lost to a drain under way |
| `requests_again` | 250,952 | one seat, one person who may ask three times, both accounts may be deleted | a rejected person stands at most once more; decided stays decided; open and full follow the seats, the end is told; the promise of Seats; every meetup ends and every deletion converges |
| `requests_pair` | 920,928 | two meetups of one seat with overlapping windows, hosted by two of three people, each wanted by the two who do not host it | nobody is in both; two who want one seat never both get it |
| `billing` | 713,152 | a call and its retry, a bought lot and a decaying one, three instants, one rare event | the reconciliation's identities, no credits from nothing; charged once and never free; one refund; what is held is covered |
| `billing_plan` | 521,250 | a call, its retry and an unkeyed call, a plan with one meetup, one lot, two instants, no faults | a reused key pays its own price; the quota is kept |
| `billing_ends` | 58,659 | a call and its retry, a bought lot, an operator's removals, two instants, two rare events | the promise of Fees; every hold ends; every meetup is paid for |
| `purchases` | 2,369,093 | seven scenes: a pack or a subscription of either store; a subscription of each; a subscription and an operator's plan; one or two calls, three or four notifications | granted and taken back once; the plan follows the store, also when another comes between; the cache never denies a plan that applies |
| `sessions` | 149,270 | one user, two refreshes, three tokens, three instants | chains are whole; the promise of Lineage: no family forks or revives; the table empties, requests end |
| `accounts` | 1,140,471 | one account (new, or two proofs short of the top), two calls, two modules, three writes | levels are earned; deletions are carried out; the display cache is true; the sweep takes only guests |
| `reputation` | 250,197 | three people, two of them reviewers who share a lock key, two calls, two meetups | profiles catch up; a review is whole; no standoff without a collision |
| `otp` | 1,930,641 | one requester, two calls, two codes of two attempts, caps of two and three, one midnight | attempts and acceptances bounded; budgets kept; a right guess is heard |

Why the bounds suffice. Outbox: the races are between two claimers of one row; two faults allow
a crash after an overrun; one row is enough for the lease, two are needed for nudges and
batches (a batch of one makes `full` true). Requests: every race involves one request or two of
a meetup, or one person's requests for two meetups. In `requests_pair` two people want the one
seat of each meetup, so the final accept rejects somebody; in `requests_again` three requests of
one person exercise the index and the rule about asking again while the purge of either account takes a request, a seat or the
host away. The seat rules are checked in both, and proved for any number of people and seats.
The horizon reaches one instant past the window's end. Billing: with one key there is one hold
at a time and at most one meetup, so two calls are every race of a retry; two lots make the
spend order, the refund order and decay under a refund matter (half of a price of three
rounds); holds live one instant, so they run out before, during and after their create. One
rare event (crash, lost answer, repeated delivery, removal, store refund, closure) at a time is
the bound `MaxFaults` of `billing`. `billing_plan` has none, because a third call already
crowds the plan and a call can stop without one; `billing_ends` has two, so that a crash and a
lost answer meet in one creation and credits can be removed under a hold whose events are
repeated, and has bought credits alone, so that no decay hides what a refund gives. With three
instants the welcome lot decays once and then ends. Purchases: what races is one store answer
in hand against what arrives meanwhile, so two calls; three notifications are a grant, its end
and one between them in every order, and a subscription may be renewed once within the horizon.
Sessions: three tokens are a chain of two rotations, or a chain and a second sign-in, and two
refreshes are every race for one token. Accounts: two calls and a sweep are three writers of
one row; starting two proofs short lets both calls raise the level. Reputation: two calls that
rate the same two others (one review submitted twice) are the smallest circle, and the two
reviewers, whose ids collide in the hash, make the smallest circle of a collision; two meetups
make deliveries overtake each other. Otp: a cap of two that somebody else has nearly used up is
reached by the first code; two codes and two attempts let a guess at the old one meet the new
one, and a right guess in the last attempt meet a bystander who finds the attempts spent. Symmetry is
used only in runs without liveness and permutes people, calls (or rows and pollers) no constant
tells apart.

Fairness. `Outbox!FairSpec`: the ticker fires whatever happens, a drain runs on, `process`
returns (it has a deadline) and time passes: weak fairness of each poller's step and of
the clock; faults are finite. `MeetupRequests!FairSpec`: time passes, calls in progress
return, the lifecycle poller ticks, and the deleted-user outbox redelivers until its
handler succeeds (which is `EveryRowSettles` for a handler that fails fewer times than
the ceiling). Nobody has to join, answer, withdraw, cancel or leave.
`MeetupBilling!FairSpec`: time passes, the sweep (every tick of the server's sweeper)
releases what has run out, and the outbox delivers in the end what it holds, which is
`EveryRowSettles` for a handler that does not exhaust its attempts. No call has to return.
`Sessions!FairSpec`: time passes, the sweeper ticks, a request under way goes on, and the
UPDATE of the reuse response is fair even if it is blocked again and again (strong fairness),
because a waiting UPDATE is queued on the row's lock and its turn comes. The other modules
state safety only.

## 5. Observed divergences

Where a comment, a document or the evident intention says more than the code does. None has
a run; the first group is stated as a property, and putting that property into a `.cfg` with the
constants given shows the trace.

| property | constants | what happens |
|---|---|---|
| `Outbox!FullRetryBudget` | `outbox_leased.cfg` with one poller, `Visibility = 1`, `MaxFaults = 0` | the claim increments `attempts` and `deliver` adds one again, so rows are given up after `MaxAttempts - 1` deliveries and the first backoff is doubled |
| `Outbox!OneTerminalState` | `outbox_leased.cfg` with `Visibility = 1`, `MaxDelay = 1`, `MaxAttempts = 2`, `MaxFaults = 1` | MarkDeadLettered goes by id alone: a claimer that lost the row can dead-letter a delivered notification |
| `MeetupRequests!NoSecondAsk` | `requests_again.cfg` with `Leavers = {}` | the re-ask rule is in a subquery with the statement's snapshot; a reject that commits while the INSERT waits at the unique index lets the rejected user in as pending; `AskedAgainOnce` says that it happens once and not again |
| `MeetupBilling!LetGoIsFree` | `billing.cfg` with `Calls` and `Keyed` = `{first}`, `MaxFaults = 0` | the hold of a meetup whose created event is late runs out as `expired`; the cancellation then "releases" it, which does nothing, and the created event charges it; no refund follows, for the log has an entry |
| `MeetupBilling!FullRefundIsFree` | the same with `MaxFaults = 1` | a capture leaves debt; a purchase pays it; the full refund writes off the smaller of the capture's debt and the wallet's, which is now nothing |
| `Sessions!NothingSlipsPast` | `sessions.cfg` | the comment above RevokeAllForUser says a refresh under way cannot slip a new token past it; the UPDATE waits for the rotation, but its snapshot does not hold the child |
| `Accounts!RealAccountsAreSafe` | `accounts.cfg` | "hard exclusion" in DeleteAbandonedGuests: the DELETE waits for a row that meanwhile becomes a real account, and after the wait compares only its id again: the exclusion stands in the subquery, which keeps its snapshot |
| `Reputation!NoStandoff` | `reputation.cfg` | the locks are sorted by id and taken by hash, so a collision costs more than the "brief false serialisation and nothing else" of `ratings.sql`, line 159: two reviews can wait for each other. `StandoffNeedsCollision` states what holds |

Met while modelling, without a property of their own:

* A row that kills its process is claimed for ever, because the ceiling is compared only after
  `process` returns an error (`queries/notification_outbox.sql`, ClaimNotificationOutboxBatch).
* A join whose INSERT read `status = 'open'` before it waited at the foreign key for the accept
  that fills the meetup leaves a pending request nobody auto-rejected
  (`queries/meetup_requests.sql`); a join waiting for the schedule lock held by its user's purge
  inserts afterwards (`meetup_requests_postgres.go`), and so does a create: the person who is gone
  hosts a live meetup, and can be asked to join it, until the sweep closes it.
* A retry of the call that holds the plan's last unit is quoted the credit price, because its
  own hold counts as used (`billing/quote.go`, planUsed), so the same key does not get the same
  hold until it runs out.
* A subscription that simply lapses queues no `subscription.deactivated`, and neither does a plan
  an operator sets: the meetup module's cache goes on saying entitled, against
  `src/docs/api/billing.md:302`. `CacheNeverDenies` states the direction that holds.
* A late SUBSCRIBED, DID_RENEW or RENEWED after a revocation activates the plan again
  (`notifications.go:45`), and a store answer read before the lock undoes what a notification did
  in between: `slipped` in `Followed` names exactly these purchases.
* The read error of GetStorePurchase in the pack's refund is dropped (`notifications.go`, about
  line 126), and the refund recorded as ignored: the credits stay.
* The last wrong guess clears the row while a right guess with an earlier attempt is still
  comparing, which the comment of explainUnclaimableAttempt (`verification.go`, lines 578 to 586)
  calls a live bug when a bystander does it, and a clear by address can take a newer code:
  `RightGuessIsHeard` names both; two starts can both pass the sixty seconds' check; units handed
  back after midnight go to the new day's budget (`crossed`).
* A token that expires between the read and the claim is reported as reused.
* An account between the two statements of a link stays a guest with an identity if the second
  fails (`halfway`); a sign-up whose publication or session fails leaves an account nobody is
  signed in to; a publication delivered after the purge puts a deleted person back into the display
  cache (`overlap`).
* Check-in and decline each read the other's column before they write
  (`safety.go:109` calls them exclusive), so both can be set.

Two more behaviours are stated as what does hold: a full meetup with a free seat lost it
to the purge of an account, which deletes a request without reopening the meetup
(`SeatLostOnlyToPurge`); and two pollers work on one row at once exactly when a deadline
was overrun (`OverlapOnlyWhenLate`), although the poller's contract says that nothing is
processed twice concurrently.

## 6. Proofs

The theorems hold for every number of rows, pollers, users, meetups, requests, calls, codes
and tokens, every capacity, price and cap, and unbounded time where the module does not bound
it. Each proof module assumes only the named assumptions of the module it is about (finite sets
of ids, natural numbers, windows that start before they end, names that differ). Every safety
proof follows one line: an inductive invariant `IInv` that contains the properties, one
lemma per action, and PTL at the end.

**OutboxProofs**: `TypeCorrect`, `ProcessedIsDelivered`, `OverlapIsLateness`,
`RepetitionIsTrouble`, `TroubleAlone`, `NudgesAreNotLost`, `LeasesKeepApart`,
`OutboxKeepsPromise`. The inductive invariant adds to the
properties what each program counter implies about batch, current row and result
(`PollerShape`), that marks are on stored rows (`TableShape`), that a claimer that is not late
holds the stamp and the stamp is in the future (`ClaimLive`), and where the one effect of an
untroubled row is accounted for (`EffectShape`). For the nudge, `Unclaimed` says that a row nobody
ever claimed is due at once and in no batch, so that whoever takes it from under a roused poller
has claimed it. For the leases, a poller inside `process` whose row has not overrun holds the
row's stamp, and the stamp is in the future (`LeaseHeld`); the effect, however long `process`
takes, finds it still there (`LeaseEffect`), so nobody else can have claimed the row.

**MeetupRequestsProofs**: `TypeCorrect`, `SeatsFollowTheRules`, `OneAskPastARejection`,
`EndIsTold`, `DecisionsStay`, `RequestsKeepSeats`, `OneMeetupAtATime`. The invariants are not
inductive alone: `CallShape` adds that an insert's row is unused until it commits, that a meetup
not yet inserted has no rows, and that only ends are told. Capacity follows from counting under
the lock (`AcceptSeats` says that an accept adds exactly its row); the refinement needs
`OneLiveRequest` (`LiveRequestIsUnique`), for otherwise one person could hold two rows and giving one back would not free
the seat. `OneBeside` says that while an INSERT is under way at most one row of its
user stands, so that a request let in past a rejection is the only one. For the schedule, `OneHolder` says that a user's lock has one holder and `Checked` that
what the holder is about to write conflicts with nothing its user is committed to;
`NewCommitment` shows that only a create or a join commits anyone, so a checked write stays
checked until it commits.

**MeetupBillingProofs**: `MeetupsArePaidOnce`, `MeetupsPayTheirPrice`, `PlansCoverTheirQuota`,
`NothingUndoesACharge`, `BooksAlwaysReconcile`, `HoldsAreAlwaysCovered`, `RefundsAreGivenOnce`,
`MeetupsCostTheirFee`.
The first four are about the state machine of the holds (`IInv`). `Sound` is what every transaction preserves of a wallet: `quotaHeld`
counts the plan's held holds, and the plan goes over its quota only with a late charge. `Keeps`
is what no transaction does to a hold. One lemma per operator shows both, and they chain as the
code chains operators in a transaction. On top, `Promised` ties a call to its hold and `OneKey`
says that calls with one hold have one key, although the key itself moves on to a newer hold;
with the lookup under the schedule lock that makes two meetups with one hold impossible.
The next three are about the credits (`CInv`, on top of `IInv`). `Accounted` says of a wallet that
the balance and the held figure are the sums over lots and open holds, that a lot has been given
out no more than it was granted, counting what refunds brought back (`Balanced`), that no lot has
more than its decay leaves it (`Decayed`), and that the balance covers the holds until something
wore it down (`Covered`). `Settlement` ties what a hold gave back to its entry of the refund log. Here
too there is one lemma per operator of Wallet: what it does to the lots (`Drawn` and its like),
and that it keeps the books. Sums over finite sets and the pouring of an amount over lots in
order are induction over data; the library's induction theorems cannot be used, so each such
lemma takes a smallest set that fails it (`SmallestBad`, by the well-foundedness of the strict
subset ordering on finite sets) and removes one element.
`MeetupsCostTheirFee` is the refinement of Fees. `FInv` adds what a fee rests on beside the
books: a hold owes nothing before its charge, has no debt written off and is not waived before
its entry in the refund log, and only the hold of a meetup is charged or entered; events carry
one of the policy's three percentages. Transactions are of two kinds: those that bill nobody (`Bills`:
holds keep their part in a fee, new ones are unpaid) leave every fee as it was (`BillsStay`),
and those that change one hold change one fee (`OneFee`, which needs `ChargedOnce`: a hold that
two meetups shared would move two fees at once). For the latter, `CaptureCharges`, `FeeWaives` and
`RefundGivesBack` show, operator by operator, that the new fee is one Fees allows; the last uses
the exact sum `RefundGives` proves a refund to hand back.

**SessionsProofs**: `TypesHold`, `SignInsNeverFork`, `EndedFamiliesStayEnded`,
`ForeignKeysHold`, `NoSessionOutlivesItsAccount`, `SessionsImplementLineage`. The invariant adds
that tokens are minted in order and replaced by younger ones of the same user and family
(`Numbering`, `SameUser`), that a rotation under way has its parent, still unspent, to itself
(`Claims`), and that stored rows have stored accounts (`Stores`). The refinement maps a family to the set of its
unspent tokens, which `NoFork` keeps a singleton at most; a step of the reuse response is the end
of several families at once.

**PurchasesProofs**: `SettlesOnce`, `PlansAreNotDenied`, `StoreIsAlwaysFollowed`. The invariant ties each receipt to its
lot and each lot to what took it (`LotsAreGranted`, `LotsAreTaken`, `PacksAreRefunded`), what a
call has read to what it will do (`JobShape`: a pack found paid had not been refunded when the
call began), and an unfinished purchase to its outbox row (`FinishIsQueued`). For the cache, `NewestSaysOn` says that the newest of the cache and the
events on their way says on whenever the plan applies, which out-of-order delivery preserves
because the cache compares times. For the store's side of a subscription (`SInv`), `StoreTells`,
`StoreDates` and `PeriodTold` say how the store's state, its dates and the notifications it sent
belong together, `ReadAt` what a call under way has read of them, true when it was read and older
than what was sent since, and `RowFollows` what the row keeps of it: its dates never pass the
store's, and its status is the store's when what it was taken from is the newest. Each step
of the store is shown to keep the first three and each write of a call to lead from `ReadAt` to
`RowFollows`.

**AccountsProofs**: `TypesHold`, `LevelsAreEarned`, `DeletionsHappenOnce`, `GuestsAreSwept`,
`CacheShowsTheRow`. The
row lock makes the level right: `CallShape` says that what a call locked is what the row still
says until it commits. `Erased` ties announcements, outbox rows and told modules together, and
`Guests` says that a guest has proved nothing, that one with a provider is halfway through a link,
and that what the sweep has chosen is a guest until it is written to. For the display cache (`PInv`),
an account outside `overlap` has one call publishing (`OnePublishes`), which carries the row as
it is and a time the cache has not seen (`TrueIsPublished`, `Stamps`).

**ReputationProofs**: `TypesHold`, `ReviewsAreWhole`, `ProfilesAreTrue`,
`OnlyCollisionsStandOff`. `LockShape` says that locks are taken upwards, are exclusive and are
kept to the commit: unless two of the people concerned collide in the hash, the call that waits
for the highest person waits for nobody. `RatingShape` says that a published aggregate
is the rows' and the newest unless two publications of one person overlapped, and `CountShape`
that whoever lacks a meetup in the cached number is owed it by a row or by a delivery that has
counted everything.

**OtpProofs**: `TypesHold`, `CodesHold`, `BudgetsAreKept`, `RightGuessesAreHeard`. `Counted` says that a pending code is the
newest and that its row counts its comparisons, `Spent` that an accepted code is not pending any
more, `Reads` what a call may have read of the row and why it may clear it, `Distinct` that no two
calls have the same attempt at a code (so a right guess in the last one has no rival), `Asked` that calls
under way belong to requesters, and `Charged` that what was used, with what calls still have, is
covered by what was taken, except for what was taken before midnight (`crossed`).

Only model-checked: the liveness properties (`EveryRowSettles`, `EveryMeetupEnds`,
`DeletionConverges`, `EveryHoldEnds`, `EveryMeetupIsPaid`, `TableEmpties`, `RequestsEnd`), which
need fairness and ENABLED, out of the prover's reach. No module has a RECURSIVE operator. Every
invariant, every action property and all four refinements (`KeepsPromise`, `KeepsSeats`,
`ChainSpec`, `CostsItsFee`) of the runs are stated by a theorem. Two properties are proved and have
no run of their own, because a refinement that has one says as much: `ChargesStay` (Fees never
takes a charge or a waiver back) and `EndedStaysEnded` (Lineage never reopens a family).

## 7. Not modelled

PROJECT.json gives a reason for every component. Safety check-in, device tokens and the rate
limiter have state worth modelling and come next. The circuit breaker, runtime flags and the event
bus keep one value each, which the modules that use them see only as a call that may fail.
Profiles, photos, legal texts, SOS, listing and display read, or write one row no other row
depends on. The gateway, the gRPC layer, analytics, telemetry, geometry, the HTTP clients and the
app keep no state that decides. What the modelled components leave out is named with each of them
above and in the components' notes.

About 32,000 of the 75,000 lines of the backend are generated (protobuf stubs and sqlc query
functions). The queries the modules translate are mapped at the SQL or the function that runs
them; the rest of that code is type declarations, getters and row scanning, and stands for no
state change. The map covers some 7,300 lines, which are the code of the modelled components.
