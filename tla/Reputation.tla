----------------------------- MODULE Reputation -----------------------------
(* What others think of a person, kept twice.  The meetup module owns the      *)
(* ratings and the completed meetups; the auth module shows, on each profile,  *)
(* a cached average and a cached number of meetups.  Ratings reach the cache   *)
(* through the bus, right after they are committed and at most once; numbers   *)
(* of meetups through an outbox, at least once and out of order.               *)
(*                                                                             *)
(* A call is a review of everybody at one meetup, the rating of one person, or *)
(* one delivery of the outbox.                                                 *)
EXTENDS Naturals, FiniteSets

CONSTANTS
  People,       \* Who took part, numbered in the order of their ids.
  Reviewers,    \* Bound: who of them rates the others.
  NoOne,        \* The person a call works for while there is none.
  LockKey,      \* hashtext of a person's id, the key of the advisory lock.
  Calls,        \* Calls that can be under way at once.
  Meetups,      \* Meetups that may be completed.
  NoMeetup,     \* The outbox row of a call that delivers none.
  Attends,      \* Who took part in each of them.
  Starts        \* Who has reviewed the others, and what is over, at the start.

ASSUME ReputationAssumption ==
  /\ People \subseteq Nat /\ IsFiniteSet(People)
  /\ Reviewers \subseteq People
  /\ LockKey \in [People -> Nat]
  /\ IsFiniteSet(Meetups)
  /\ Attends \in [Meetups -> SUBSET People]
  /\ \A s \in Starts : s.reviewed \subseteq People /\ s.ended \subseteq Meetups
  /\ NoOne \notin People /\ NoMeetup \notin Meetups

VARIABLES
  ratings,      \* meetup_user_ratings: who rated whom.
  reviewed,     \* Whose review is complete: review_completed_at is set.
  shown,        \* The cached rating: whose ratings it counts, and since when.
  ended,        \* The meetups that are completed.
  due,          \* The undelivered rows of meetups_completed_outbox.
  total,        \* The cached number of completed meetups.
  clock,        \* When the rating of each person was last published.
  pc,           \* What a call does next.
  rater,        \* Who calls.
  wanted,       \* Whom the call rates.
  whole,        \* Whether it is a review.
  got,          \* Whose lock it holds.
  seen,         \* The aggregate it computed for each of them.
  job,          \* The outbox row it delivers.
  left,         \* Whom it still has to publish or apply.
  now,          \* Whom it is publishing.
  at,           \* OccurredAt of that publication.
  doubtful,     \* History: whose rating was published twice at once, or was not.
  missed        \* History: a number of meetups the consumer failed to store.

tables == <<ratings, reviewed, ended, due>>
caches == <<shown, total>>
call == <<pc, rater, wanted, whole, got, seen, job, left, now, at>>
history == <<doubtful, missed>>
vars == <<tables, caches, clock, call, history>>

----------------------------------------------------------------------------
Raters(p) == {r \in People : <<r, p>> \in ratings}

(* How many meetups a person completed.                                        *)
Completed(p) == Cardinality({m \in ended : p \in Attends[m]})

(* Committed, and not yet told to the auth module.                             *)
Publishing(p) == \E c \in Calls : pc[c] \in {"publishing", "stamped"} /\ p \in left[c]

(* A call holds the advisory lock of p, or of somebody with the same hash.     *)
Holds(c, p) == \E q \in got[c] : LockKey[q] = LockKey[p]

(* Mutant: locks are taken in the order the client listed people.              *)
LockableAnyOrder(c) == wanted[c] \ got[c]

(* The lock a call takes next: the lowest id it does not hold.                 *)
Lockable(c) ==
  {p \in wanted[c] \ got[c] : \A q \in wanted[c] \ got[c] : p <= q}

Init ==
  /\ \E s \in Starts : reviewed = s.reviewed /\ ended = s.ended
  /\ ratings = {rp \in reviewed \X People : rp[1] # rp[2]}
  /\ due = {}
  /\ shown = [p \in People |-> [by |-> Raters(p), at |-> 0]]
  /\ total = [p \in People |-> Completed(p)]
  /\ clock = [p \in People |-> 0]
  /\ pc = [c \in Calls |-> "idle"]
  /\ rater = [c \in Calls |-> NoOne]
  /\ wanted = [c \in Calls |-> {}]
  /\ whole = [c \in Calls |-> FALSE]
  /\ got = [c \in Calls |-> {}]
  /\ seen = [c \in Calls |-> [p \in People |-> {}]]
  /\ job = [c \in Calls |-> NoMeetup]
  /\ left = [c \in Calls |-> {}]
  /\ now = [c \in Calls |-> NoOne]
  /\ at = [c \in Calls |-> 0]
  /\ doubtful = {} /\ missed = {}

(* A call ends, by any road.                                                   *)
Return(c) ==
  /\ pc' = [pc EXCEPT ![c] = "idle"]
  /\ rater' = [rater EXCEPT ![c] = NoOne]
  /\ wanted' = [wanted EXCEPT ![c] = {}]
  /\ whole' = [whole EXCEPT ![c] = FALSE]
  /\ got' = [got EXCEPT ![c] = {}]
  /\ seen' = [seen EXCEPT ![c] = [p \in People |-> {}]]
  /\ job' = [job EXCEPT ![c] = NoMeetup]
  /\ left' = [left EXCEPT ![c] = {}]
  /\ now' = [now EXCEPT ![c] = NoOne]
  /\ at' = [at EXCEPT ![c] = 0]

----------------------------------------------------------------------------
(* A call that rates the people of W is let in.                                *)
Start(c, r, W, review) ==
  /\ pc[c] = "idle"
  /\ pc' = [pc EXCEPT ![c] = "locking"]
  /\ rater' = [rater EXCEPT ![c] = r]
  /\ wanted' = [wanted EXCEPT ![c] = W]
  /\ whole' = [whole EXCEPT ![c] = review]
  /\ UNCHANGED <<tables, caches, clock, got, seen, job, left, now, at, history>>

(* SubmitMeetupReview: once, and for everybody not rated yet, as it read them. *)
StartReview(c, r) ==
  /\ r \notin reviewed
  /\ Start(c, r, {p \in People \ {r} : <<r, p>> \notin ratings}, TRUE)

(* SubmitRating: one person, rated before or not.                              *)
StartRating(c, r, p) == r # p /\ Start(c, r, {p}, FALSE)

(* LockUserRatingAggregate waits for whoever holds the lock.                   *)
TakeLock(c) ==
  /\ pc[c] = "locking"
  /\ \E p \in Lockable(c) :
       /\ \A d \in Calls \ {c} : ~Holds(d, p)
       /\ got' = [got EXCEPT ![c] = @ \cup {p}]
  /\ UNCHANGED <<tables, caches, clock, pc, rater, wanted, whole, seen, job, left, now,
                 at, history>>

(* Mutant: no lock, and so no waiting.                                         *)
WriteUnlocked(c) ==
  /\ pc[c] = "locking"
  /\ IF \E p \in wanted[c] : <<rater[c], p>> \in ratings
       THEN Return(c)
       ELSE /\ pc' = [pc EXCEPT ![c] = "written"]
            /\ seen' = [seen EXCEPT ![c] = [p \in People |->
                 IF p \in wanted[c] THEN Raters(p) \cup {rater[c]} ELSE {}]]
            /\ UNCHANGED <<rater, wanted, whole, got, job, left, now, at>>
  /\ UNCHANGED <<tables, caches, clock, history>>

(* Mutant: the review is stamped complete outside the transaction.             *)
WriteStamping(c) ==
  /\ pc[c] = "locking"
  /\ got[c] = wanted[c]
  /\ reviewed' = IF whole[c] THEN reviewed \cup {rater[c]} ELSE reviewed
  /\ IF \E p \in wanted[c] : <<rater[c], p>> \in ratings
       THEN Return(c)
       ELSE /\ pc' = [pc EXCEPT ![c] = "written"]
            /\ seen' = [seen EXCEPT ![c] = [p \in People |->
                 IF p \in wanted[c] THEN Raters(p) \cup {rater[c]} ELSE {}]]
            /\ UNCHANGED <<rater, wanted, whole, got, job, left, now, at>>
  /\ UNCHANGED <<ratings, ended, due, caches, clock, history>>

(* All locks held: the rows are inserted, each with the aggregate it leaves.   *)
(* One person rated before is a conflict, and everything is rolled back.       *)
Write(c) ==
  /\ pc[c] = "locking"
  /\ got[c] = wanted[c]
  /\ IF \E p \in wanted[c] : <<rater[c], p>> \in ratings
       THEN Return(c)
       ELSE /\ pc' = [pc EXCEPT ![c] = "written"]
            /\ seen' = [seen EXCEPT ![c] = [p \in People |->
                 IF p \in wanted[c] THEN Raters(p) \cup {rater[c]} ELSE {}]]
            /\ UNCHANGED <<rater, wanted, whole, got, job, left, now, at>>
  /\ UNCHANGED <<tables, caches, clock, history>>

(* The commit makes it visible and releases the locks.                         *)
Commit(c) ==
  /\ pc[c] = "written"
  /\ ratings' = ratings \cup {<<rater[c], p>> : p \in wanted[c]}
  /\ reviewed' = IF whole[c] THEN reviewed \cup {rater[c]} ELSE reviewed
  /\ doubtful' = doubtful \cup {p \in wanted[c] : Publishing(p)}
  /\ pc' = [pc EXCEPT ![c] = "publishing"]
  /\ got' = [got EXCEPT ![c] = {}]
  /\ left' = [left EXCEPT ![c] = wanted[c]]
  /\ wanted' = [wanted EXCEPT ![c] = {}]
  /\ rater' = [rater EXCEPT ![c] = NoOne]
  /\ whole' = [whole EXCEPT ![c] = FALSE]
  /\ UNCHANGED <<ended, due, caches, clock, seen, job, now, at, missed>>

(* rating-updated is published for one person after the other, in no order.    *)
Stamp(c) ==
  /\ pc[c] = "publishing"
  /\ \E p \in left[c] :
       /\ now' = [now EXCEPT ![c] = p]
       /\ clock' = [clock EXCEPT ![p] = @ + 1]
       /\ at' = [at EXCEPT ![c] = clock[p] + 1]
  /\ pc' = [pc EXCEPT ![c] = "stamped"]
  /\ UNCHANGED <<tables, caches, rater, wanted, whole, got, seen, job, left, history>>

(* UpsertUserRatingCache: only a later publication replaces what is shown.     *)
Show(p, by, t) ==
  shown' = IF t > shown[p].at THEN [shown EXCEPT ![p] = [by |-> by, at |-> t]] ELSE shown

(* The consumer stores it, or fails and nobody hears of it.                    *)
Deliver(c) ==
  /\ pc[c] = "stamped"
  /\ \/ Show(now[c], seen[c][now[c]], at[c]) /\ UNCHANGED doubtful
     \/ doubtful' = doubtful \cup {now[c]} /\ UNCHANGED shown
  /\ pc' = [pc EXCEPT ![c] = "publishing"]
  /\ left' = [left EXCEPT ![c] = @ \ {now[c]}]
  /\ seen' = [seen EXCEPT ![c][now[c]] = {}]
  /\ now' = [now EXCEPT ![c] = NoOne]
  /\ at' = [at EXCEPT ![c] = 0]
  /\ UNCHANGED <<tables, total, clock, rater, wanted, whole, got, job, missed>>

Finish(c) ==
  /\ pc[c] = "publishing"
  /\ left[c] = {}
  /\ Return(c)
  /\ UNCHANGED <<tables, caches, clock, history>>

(* The call dies, or its transaction fails; an outbox row stays due.           *)
Fail(c) ==
  /\ pc[c] # "idle"
  /\ doubtful' = IF pc[c] \in {"publishing", "stamped"} THEN doubtful \cup left[c]
                                                       ELSE doubtful
  /\ Return(c)
  /\ UNCHANGED <<tables, caches, clock, missed>>

----------------------------------------------------------------------------
(* Close and the sweep: completion and outbox row in one transaction.          *)
Complete(m) ==
  /\ m \in Meetups \ ended
  /\ ended' = ended \cup {m}
  /\ due' = due \cup {m}
  /\ UNCHANGED <<ratings, reviewed, caches, clock, call, history>>

(* RecomputeForMeetups: one statement counts for everybody who took part.      *)
(* The outbox may have two pollers on one row.                                 *)
Recount(c, m) ==
  /\ pc[c] = "idle"
  /\ m \in due
  /\ pc' = [pc EXCEPT ![c] = "counted"]
  /\ job' = [job EXCEPT ![c] = m]
  /\ left' = [left EXCEPT ![c] = Attends[m]]
  /\ seen' = [seen EXCEPT ![c] = [p \in People |-> {n \in ended : p \in Attends[n]}]]
  /\ UNCHANGED <<tables, caches, clock, rater, wanted, whole, got, now, at, history>>

(* UpsertUserMeetupsCompletedCache: the number only ever rises.                *)
Raise(p, n) == total' = IF n > total[p] THEN [total EXCEPT ![p] = n] ELSE total

(* One person's number is applied, or its consumer fails: Process goes on.     *)
Apply(c) ==
  /\ pc[c] = "counted"
  /\ \E p \in left[c] :
       /\ left' = [left EXCEPT ![c] = @ \ {p}]
       /\ seen' = [seen EXCEPT ![c][p] = {}]
       /\ \/ Raise(p, Cardinality(seen[c][p])) /\ UNCHANGED missed
          \/ missed' = missed \cup {p} /\ UNCHANGED total
  /\ UNCHANGED <<tables, shown, clock, pc, rater, wanted, whole, got, job, now, at,
                 doubtful>>

(* Everybody was told, and the row is marked; or it could not be, and stays.   *)
Settle(c) ==
  /\ pc[c] = "counted"
  /\ left[c] = {}
  /\ due' \in {due, due \ {job[c]}}
  /\ Return(c)
  /\ UNCHANGED <<ratings, reviewed, ended, caches, clock, history>>

CallStep(c) ==
  \/ TakeLock(c) \/ Write(c) \/ Commit(c) \/ Stamp(c) \/ Deliver(c) \/ Finish(c)
  \/ Apply(c) \/ Settle(c) \/ Fail(c)

Next ==
  \/ \E c \in Calls, r \in Reviewers :
       StartReview(c, r) \/ \E p \in People : StartRating(c, r, p)
  \/ \E c \in Calls, m \in Meetups : Recount(c, m)
  \/ \E m \in Meetups : Complete(m)
  \/ \E c \in Calls : CallStep(c)

Spec == Init /\ [][Next]_vars

----------------------------------------------------------------------------
Stages == {"idle", "locking", "written", "publishing", "stamped", "counted"}

TypeOK ==
  /\ ratings \subseteq People \X People /\ reviewed \subseteq People
  /\ ended \subseteq Meetups /\ due \subseteq ended
  /\ shown \in [People -> [by : SUBSET People, at : Nat]]
  /\ total \in [People -> Nat]
  /\ clock \in [People -> Nat]
  /\ pc \in [Calls -> Stages]
  /\ rater \in [Calls -> People \cup {NoOne}]
  /\ wanted \in [Calls -> SUBSET People] /\ whole \in [Calls -> BOOLEAN]
  /\ got \in [Calls -> SUBSET People] /\ left \in [Calls -> SUBSET People]
  /\ seen \in [Calls -> [People -> SUBSET (People \cup Meetups)]]
  /\ job \in [Calls -> Meetups \cup {NoMeetup}]
  /\ now \in [Calls -> People \cup {NoOne}]
  /\ at \in [Calls -> Nat]
  /\ doubtful \subseteq People /\ missed \subseteq People

(* Between publications the rating on a profile counts every committed rating  *)
(* of that person, although raters race each other; unless a publication was   *)
(* lost, or two of the same person were under way at once (ratings.sql,        *)
(* LockUserRatingAggregate; tracker #86).                                      *)
RatingsCatchUp ==
  \A p \in People \ doubtful : ~Publishing(p) => shown[p].by = Raters(p)

(* The number of meetups on a profile never runs ahead of the truth, and is    *)
(* the truth once every completion of that person is delivered, however late,  *)
(* repeated and disordered; unless a consumer failed, which is not retried     *)
(* (users.sql, UpsertUserMeetupsCompletedCache).                               *)
TalliesCatchUp ==
  \A p \in People :
    /\ total[p] <= Completed(p)
    /\ p \notin missed /\ (\A m \in due : p \notin Attends[m]) => total[p] = Completed(p)

(* What a profile shows of a person's reputation is true once things are quiet.*)
ProfilesCatchUp == RatingsCatchUp /\ TalliesCatchUp

(* A completed review has rated everybody, also when the same person rates one *)
(* of them in a second call meanwhile: all of it is committed or none          *)
(* (review_postgres.go, SubmitReview).                                         *)
ReviewIsWhole ==
  \A r \in reviewed : \A p \in People \ {r} : <<r, p>> \in ratings

(* c waits for a lock that d holds.                                            *)
WaitsFor(c, d) ==
  /\ pc[c] = "locking"
  /\ c # d
  /\ \E p \in Lockable(c) : Holds(d, p)

(* The calls of W all wait for each other.                                     *)
Standoff(W) == W # {} /\ \A c \in W : \E d \in W : WaitsFor(c, d)

(* Two of the people those calls rate have the same hash.                      *)
Collide(W) ==
  \E p, q \in UNION {wanted[c] : c \in W} : p # q /\ LockKey[p] = LockKey[q]

(* Calls that rate the same people, each in the order of its client, never     *)
(* wait for each other in a circle, unless two people they rate collide in the *)
(* hash (review_postgres.go, the sorted loop).  A collision can, against       *)
(* ratings.sql:159-161: "costs a brief false serialisation and nothing else".  *)
StandoffNeedsCollision ==
  \A W \in SUBSET Calls : Standoff(W) => Collide(W)

(* What that comment says: no calls wait for each other in a circle.           *)
NoStandoff == \A W \in SUBSET Calls : ~Standoff(W)

=============================================================================
