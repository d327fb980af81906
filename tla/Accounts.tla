------------------------------ MODULE Accounts ------------------------------
(* The life of an account: signed up as a guest or through a provider, raised  *)
(* in trust by verifications that race each other, shown to the meetup module  *)
(* through the display cache it keeps, deleted by its owner or swept as an     *)
(* abandoned guest, and erased from the modules that were told.                *)
(*                                                                             *)
(* A call is a short script: each step of it is a statement or a transaction   *)
(* of its own, and the call may fail before any of them and leave the rest     *)
(* undone.                                                                     *)
EXTENDS Naturals, Sequences, FiniteSets

CONSTANTS
  Users,        \* Accounts, by the id they are given at sign-up.
  NoUser,       \* The account of a call that is not under way.
  Calls,        \* Calls that can be under way at once.
  Modules,      \* Who is told of a deletion, in order; the first keeps the cache.
  Pasts,        \* What the accounts that exist at the start may have proved.
  MaxVersion    \* Bound: writes to one account's row.

(* What a person can prove about themselves.                                   *)
Proofs == {"linkedin", "phone", "email", "legalName", "work"}

ASSUME AccountsAssumption ==
  /\ NoUser \notin Users
  /\ Modules \in Seq(STRING) /\ Len(Modules) > 0
  /\ Pasts \subseteq SUBSET Proofs
  /\ MaxVersion \in Nat \ {0}

(* The writes of one row of auth.users: a proof gained, a company nobody knows *)
(* entered in place of a known one, the guest flag cleared, or a new name.     *)
Writes == Proofs \cup {"unknownCompany", "clearGuest", "name"}

Steps == Writes \cup {"create", "identity", "session", "delete"}

VARIABLES
  born,         \* The users whose row was ever created.
  alive,        \* The users whose row exists.
  row,          \* auth.users: who they are, what they proved, their level.
  version,      \* How often the row was written.
  linked,       \* The users with a row in auth.user_identities.
  signedIn,     \* The users with a row in auth.refresh_tokens.
  access,       \* The users who were given an access token.
  idle,         \* The users whose updated_at is older than the retention.
  pc,           \* Where a call stands in its current step.
  who,          \* The account it works on.
  todo,         \* The steps it has left, the current one first.
  read,         \* The row it locked.
  copy,         \* The version it is about to publish.
  at,           \* OccurredAt of what it publishes.
  clock,        \* The time of the last publication.
  marked,       \* The rows a running DeleteAbandonedGuests has chosen.
  cache,        \* meetup.user_display_cache: a version and when it occurred.
  due,          \* The users with an undelivered row in user_deleted_outbox.
  told,         \* How many of the modules have erased a user's data.
  announced,    \* History: deletions announced for a user.
  overlap,      \* History: a write or a deletion during a publication.
  lost,         \* History: a publication that failed or never happened.
  halfway,      \* History: guests linked to a provider and still guests.
  overtaken     \* History: users written to while marked for the sweep.

account == <<born, alive, row, version, linked, signedIn, access, idle>>
call == <<pc, who, todo, read, copy, at>>
erasure == <<due, told, announced>>
history == <<overlap, lost, halfway, overtaken>>
vars == <<account, call, clock, marked, cache, erasure, history>>

Row == [guest : BOOLEAN, proofs : SUBSET Proofs, level : 0 .. 3]
NoRow == [guest |-> FALSE, proofs |-> {}, level |-> 0]
Absent == [version |-> 0, at |-> 0]

----------------------------------------------------------------------------
(* computeTrustLevel.                                                          *)
Level2 == {"linkedin", "phone", "email", "legalName"}

TrustLevel(r) ==
  CASE Level2 \cup {"work"} \subseteq r.proofs -> 3
    [] Level2 \subseteq r.proofs /\ "work" \notin r.proofs -> 2
    [] ~(Level2 \subseteq r.proofs) /\ ~r.guest -> 1
    [] OTHER -> 0

(* The row after write w: whatever was verified, nobody is a guest any more.   *)
Written(r, w) ==
  [r EXCEPT !.guest = (w = "name" /\ r.guest),
            !.proofs = CASE w \in Proofs -> r.proofs \cup {w}
                         [] w = "unknownCompany" -> r.proofs \ {"work"}
                         [] OTHER -> r.proofs]

(* The step a call is at.                                                      *)
Step(c) == IF todo[c] = <<>> THEN "end" ELSE Head(todo[c])

(* Somebody holds the row lock of u.                                           *)
Locked(u) == \E c \in Calls : pc[c] = "locked" /\ who[c] = u

(* A write to u is committed and the cache has not heard of it yet.            *)
Publishing(u) == \E c \in Calls : pc[c] \in {"committed", "stamped"} /\ who[c] = u

(* What DeleteAbandonedGuests selects.                                         *)
Abandoned(u) ==
  u \in alive /\ row[u].guest /\ u \in idle /\ u \notin signedIn

(* The accounts there are at the start: none, or one with a past.              *)
Settled(P) == [guest |-> FALSE, proofs |-> P,
               level |-> TrustLevel([guest |-> FALSE, proofs |-> P])]

Init ==
  /\ born \in SUBSET Users
  /\ alive = born
  /\ row \in [Users -> {NoRow} \cup {Settled(P) : P \in Pasts}]
  /\ \A u \in Users : row[u] = NoRow <=> u \notin born
  /\ version = [u \in Users |-> IF u \in born THEN 1 ELSE 0]
  /\ linked = {}
  /\ signedIn = born
  /\ access = born
  /\ idle = {}
  /\ pc = [c \in Calls |-> "idle"]
  /\ who = [c \in Calls |-> NoUser]
  /\ todo = [c \in Calls |-> <<>>]
  /\ read = [c \in Calls |-> NoRow]
  /\ copy = [c \in Calls |-> 0]
  /\ at = [c \in Calls |-> 0]
  /\ clock = 1
  /\ marked = {}
  /\ cache = [u \in Users |-> IF u \in born THEN [version |-> 1, at |-> 1] ELSE Absent]
  /\ due = {}
  /\ told = [u \in Users |-> 0]
  /\ announced = [u \in Users |-> 0]
  /\ overlap = {} /\ lost = {} /\ halfway = {} /\ overtaken = {}

----------------------------------------------------------------------------
(* A call ends.                                                                *)
Return(c) ==
  /\ pc' = [pc EXCEPT ![c] = "idle"]
  /\ who' = [who EXCEPT ![c] = NoUser]
  /\ todo' = [todo EXCEPT ![c] = <<>>]
  /\ read' = [read EXCEPT ![c] = NoRow]
  /\ copy' = [copy EXCEPT ![c] = 0]
  /\ at' = [at EXCEPT ![c] = 0]

(* A step is done and the call goes on to the next one.                        *)
NextStep(c) ==
  /\ pc' = [pc EXCEPT ![c] = "ready"]
  /\ todo' = [todo EXCEPT ![c] = Tail(todo[c])]
  /\ read' = [read EXCEPT ![c] = NoRow]
  /\ copy' = [copy EXCEPT ![c] = 0]
  /\ at' = [at EXCEPT ![c] = 0]
  /\ UNCHANGED who

(* What follows users.Create: nothing but the session for a guest              *)
(* or a LinkedIn member, an identity for Apple or Google, and the address for  *)
(* an e-mail sign-up.                                                          *)
SignUps == {
  [row |-> [guest |-> TRUE, proofs |-> {}], script |-> <<"create", "session">>],
  [row |-> [guest |-> FALSE, proofs |-> {"linkedin"}], script |-> <<"create", "session">>],
  [row |-> [guest |-> FALSE, proofs |-> {}], script |-> <<"create", "identity", "session">>],
  [row |-> [guest |-> FALSE, proofs |-> {}], script |-> <<"create", "email", "session">>]}

(* The row is inserted; its publication follows.                               *)
SignUp(c, u, s) ==
  /\ pc[c] = "idle"
  /\ u \notin born
  /\ born' = born \cup {u}
  /\ alive' = alive \cup {u}
  /\ row' = [row EXCEPT ![u] = [guest |-> s.row.guest, proofs |-> s.row.proofs,
                                level |-> TrustLevel(s.row)]]
  /\ version' = [version EXCEPT ![u] = 1]
  /\ pc' = [pc EXCEPT ![c] = "committed"]
  /\ who' = [who EXCEPT ![c] = u]
  /\ todo' = [todo EXCEPT ![c] = s.script]
  /\ copy' = [copy EXCEPT ![c] = 1]
  /\ UNCHANGED <<linked, signedIn, access, idle, read, at, clock, marked, cache, erasure, history>>

(* Mutant: linking Apple or Google never clears the guest flag.                *)
LinkingOnly(u) == <<"identity", "session">>

(* LinkIdentityToUser for Apple and Google, as it reads the row.               *)
Linking(u) ==
  IF row[u].guest THEN <<"identity", "clearGuest", "session">>
                  ELSE <<"identity", "session">>

(* The scripts a call on u may start with: verifications (all but the company  *)
(* e-mail want LinkedIn first), links, a profile edit, and the deletion.       *)
Scripts(u) ==
  {<<w, "session">> : w \in {"linkedin", "work", "unknownCompany"}}
  \cup {<<w, "session">> : w \in {p \in {"phone", "email", "legalName"} :
                                    "linkedin" \in row[u].proofs}}
  \cup {Linking(u), <<"name">>, <<"delete">>}

Begin(c, u) ==
  /\ pc[c] = "idle"
  /\ u \in alive \cap access
  /\ \E s \in Scripts(u) : todo' = [todo EXCEPT ![c] = s]
  /\ pc' = [pc EXCEPT ![c] = "ready"]
  /\ who' = [who EXCEPT ![c] = u]
  /\ UNCHANGED <<account, read, copy, at, clock, marked, cache, erasure, history>>

(* Mutant: the row is read without FOR UPDATE.                                 *)
LockNothing(c) ==
  LET u == who[c] IN
  /\ pc[c] = "ready" /\ Step(c) \in Writes
  /\ u \in alive /\ version[u] < MaxVersion
  /\ read' = [read EXCEPT ![c] = row[u]]
  /\ pc' = [pc EXCEPT ![c] = "locked"]
  /\ UNCHANGED <<account, who, todo, copy, at, clock, marked, cache, erasure, history>>

(* lockUserForTrustLevelWrite: the row is locked and read.                     *)
Lock(c) ==
  LET u == who[c] IN
  /\ pc[c] = "ready"
  /\ Step(c) \in Writes
  /\ u \in alive
  /\ ~Locked(u)
  /\ version[u] < MaxVersion
  /\ read' = [read EXCEPT ![c] = row[u]]
  /\ pc' = [pc EXCEPT ![c] = "locked"]
  /\ UNCHANGED <<account, who, todo, copy, at, clock, marked, cache, erasure, history>>

(* Mutant: clearing the guest flag is not published.                           *)
CommitSilently(c) ==
  LET u == who[c]  w == Step(c) IN
  /\ pc[c] = "locked"
  /\ row' = [row EXCEPT ![u] = [Written(@, w) EXCEPT
                !.level = IF w = "name" THEN @ ELSE TrustLevel(Written(read[c], w))]]
  /\ version' = [version EXCEPT ![u] = @ + 1]
  /\ idle' = idle \ {u}
  /\ IF w = "clearGuest"
       THEN NextStep(c)
       ELSE /\ pc' = [pc EXCEPT ![c] = "committed"]
            /\ copy' = [copy EXCEPT ![c] = version[u] + 1]
            /\ UNCHANGED <<who, todo, read, at>>
  /\ UNCHANGED <<born, alive, linked, signedIn, access, clock, marked, cache, erasure, history>>

(* The transaction commits: the columns of the write, and the level computed   *)
(* from the row as it was read.                                                *)
Commit(c) ==
  LET u == who[c]  w == Step(c) IN
  /\ pc[c] = "locked"
  /\ u \in alive
  /\ row' = [row EXCEPT ![u] = [Written(row[u], w) EXCEPT
                !.level = IF w = "name" THEN row[u].level ELSE TrustLevel(Written(read[c], w))]]
  /\ version' = [version EXCEPT ![u] = @ + 1]
  /\ idle' = idle \ {u}
  /\ pc' = [pc EXCEPT ![c] = "committed"]
  /\ copy' = [copy EXCEPT ![c] = version[u] + 1]
  /\ overlap' = overlap \cup {v \in {u} : Publishing(v)}
  /\ overtaken' = overtaken \cup (marked \cap {u})
  /\ halfway' = IF w = "name" THEN halfway ELSE halfway \ {u}
  /\ UNCHANGED <<born, alive, linked, signedIn, access, who, todo, read, at, clock, marked,
                 cache, erasure, lost>>

(* publishProfileUpdated takes the time.                                       *)
Stamp(c) ==
  /\ pc[c] = "committed"
  /\ pc' = [pc EXCEPT ![c] = "stamped"]
  /\ clock' = clock + 1
  /\ at' = [at EXCEPT ![c] = clock + 1]
  /\ UNCHANGED <<account, who, todo, read, copy, marked, cache, erasure, history>>

(* UpsertUserDisplayCache: an entry gives way only to a newer one.             *)
Upsert(u, v, t) ==
  cache' = IF t > cache[u].at
             THEN [cache EXCEPT ![u] = [version |-> v, at |-> t]]
             ELSE cache

(* The bus runs the handler, or the handler fails and nobody hears of it.      *)
Deliver(c) ==
  LET u == who[c] IN
  /\ pc[c] = "stamped"
  /\ \/ Upsert(u, copy[c], at[c]) /\ UNCHANGED lost
     \/ lost' = lost \cup {u} /\ UNCHANGED cache
  /\ NextStep(c)
  /\ UNCHANGED <<account, clock, marked, erasure, overlap, halfway, overtaken>>

(* identities.Insert: a conflict when the identity is somebody's already, or   *)
(* the account has one of that provider; the other provider is welcome.        *)
InsertIdentity(c) ==
  LET u == who[c] IN
  /\ pc[c] = "ready"
  /\ Step(c) = "identity"
  /\ \/ /\ u \in alive
        /\ linked' = linked \cup {u}
        /\ halfway' = halfway \cup {v \in {u} : row[v].guest /\ todo[c][2] = "clearGuest"}
        /\ NextStep(c)
     \/ Return(c) /\ UNCHANGED <<linked, halfway>>
  /\ UNCHANGED <<born, alive, row, version, signedIn, access, idle, clock, marked, cache,
                 erasure, overlap, lost, overtaken>>

(* issueSession stores a refresh token, if there is still an account.          *)
IssueSession(c) ==
  LET u == who[c] IN
  /\ pc[c] = "ready"
  /\ Step(c) = "session"
  /\ signedIn' = signedIn \cup (alive \cap {u})
  /\ access' = access \cup (alive \cap {u})
  /\ Return(c)
  /\ UNCHANGED <<born, alive, row, version, linked, idle, clock, marked, cache,
                 erasure, history>>

(* A script that has nothing left, or whose account is gone, ends.             *)
Finish(c) ==
  /\ pc[c] = "ready"
  /\ Step(c) = "end" \/ (Step(c) \in Writes /\ who[c] \notin alive)
  /\ Return(c)
  /\ UNCHANGED <<account, clock, marked, cache, erasure, history>>

(* The call dies or its statement fails: what it committed stays.              *)
Fail(c) ==
  LET u == who[c] IN
  /\ pc[c] # "idle"
  /\ lost' = lost \cup {v \in {u} : pc[c] \in {"committed", "stamped"}}
  /\ Return(c)
  /\ UNCHANGED <<account, clock, marked, cache, erasure, overlap, halfway, overtaken>>

----------------------------------------------------------------------------
(* Deletions.  The rows that hang off the account go with it, and the outbox   *)
(* row is written by the same transaction.                                     *)
Remove(U) ==
  /\ alive' = alive \ U
  /\ row' = [u \in Users |-> IF u \in U THEN NoRow ELSE row[u]]
  /\ linked' = linked \ U
  /\ signedIn' = signedIn \ U
  /\ idle' = idle \ U
  /\ due' = due \cup U
  /\ announced' = [u \in Users |-> IF u \in U THEN announced[u] + 1 ELSE announced[u]]
  /\ overlap' = overlap \cup {u \in U : Publishing(u)}
  /\ UNCHANGED <<born, version, access, told>>

(* DeleteAccount: two may have read the account; the second deletes no row and *)
(* announces nothing, which counts as success.                                 *)
Delete(c) ==
  LET u == who[c] IN
  /\ pc[c] = "ready"
  /\ Step(c) = "delete"
  /\ ~Locked(u)
  /\ Remove(alive \cap {u})
  /\ Return(c)
  /\ UNCHANGED <<clock, marked, cache, lost, halfway, overtaken>>

(* DeleteAbandonedGuests chooses its rows from the snapshot it starts with.    *)
StartSweep ==
  /\ marked = {}
  /\ marked' = {u \in Users : Abandoned(u)}
  /\ marked' # {}
  /\ UNCHANGED <<account, call, clock, cache, erasure, history>>

(* It deletes and announces those that still exist once nobody holds them: a   *)
(* row that was written meanwhile is only looked up by its id again.           *)
FinishSweep ==
  /\ marked # {}
  /\ \A u \in marked : ~Locked(u)
  /\ Remove(marked \cap alive)
  /\ marked' = {}
  /\ overtaken' = {}
  /\ UNCHANGED <<call, clock, cache, lost, halfway>>

(* Every token of the user has been revoked or has expired, and was swept.     *)
SignOut(u) ==
  /\ u \in signedIn
  /\ signedIn' = signedIn \ {u}
  /\ UNCHANGED <<born, alive, row, version, linked, access, idle, call, clock, marked, cache,
                 erasure, history>>

(* The retention passes since the last write to the row: days in which no call *)
(* of that moment is still under way.                                          *)
Age(u) ==
  /\ u \in alive \ idle
  /\ \A c \in Calls : who[c] # u
  /\ idle' = idle \cup {u}
  /\ UNCHANGED <<born, alive, row, version, linked, signedIn, access, call, clock, marked, cache,
                 erasure, history>>

(* Mutant: consumers are reached through the bus, which hides their errors.    *)
EraseThroughBus(u) ==
  /\ u \in due
  /\ \E n \in 0 .. Len(Modules) :
       /\ told' = [told EXCEPT ![u] = IF n > @ THEN n ELSE @]
       /\ cache' = IF n > 0 THEN [cache EXCEPT ![u] = Absent] ELSE cache
       /\ due' = due \ {u}
  /\ UNCHANGED <<account, call, clock, marked, announced, history>>

(* userDeletedProcess: the modules erase in order, the first failure ends the  *)
(* attempt, and the row is settled only after the last; the poller may die     *)
(* before it settles the row, and then the attempt is repeated.                *)
Erase(u) ==
  /\ u \in due
  /\ \E n \in 0 .. Len(Modules) :
       /\ told' = [told EXCEPT ![u] = IF n > @ THEN n ELSE @]
       /\ cache' = IF n > 0 THEN [cache EXCEPT ![u] = Absent] ELSE cache
       /\ due' \in IF n = Len(Modules) THEN {due, due \ {u}} ELSE {due}
  /\ UNCHANGED <<account, call, clock, marked, announced, history>>

CallStep(c) ==
  \/ Lock(c) \/ Commit(c) \/ Stamp(c) \/ Deliver(c)
  \/ InsertIdentity(c) \/ IssueSession(c) \/ Delete(c) \/ Finish(c) \/ Fail(c)

Next ==
  \/ \E c \in Calls, u \in Users :
       Begin(c, u) \/ \E s \in SignUps : SignUp(c, u, s)
  \/ \E c \in Calls : CallStep(c)
  \/ StartSweep \/ FinishSweep
  \/ \E u \in Users : SignOut(u) \/ Age(u) \/ Erase(u)

Spec == Init /\ [][Next]_vars

----------------------------------------------------------------------------
TypeOK ==
  /\ born \subseteq Users /\ alive \subseteq born
  /\ row \in [Users -> Row]
  /\ version \in [Users -> 0 .. MaxVersion]
  /\ linked \subseteq alive /\ signedIn \subseteq alive /\ idle \subseteq alive
  /\ access \subseteq born
  /\ pc \in [Calls -> {"idle", "ready", "locked", "committed", "stamped"}]
  /\ who \in [Calls -> Users \cup {NoUser}]
  /\ todo \in [Calls -> Seq(Steps)]
  /\ read \in [Calls -> Row]
  /\ copy \in [Calls -> Nat] /\ at \in [Calls -> Nat] /\ clock \in Nat
  /\ marked \subseteq born
  /\ cache \in [Users -> [version : Nat, at : Nat]]
  /\ due \subseteq born
  /\ told \in [Users -> 0 .. Len(Modules)]
  /\ announced \in [Users -> Nat]
  /\ overlap \subseteq Users /\ lost \subseteq Users
  /\ halfway \subseteq Users /\ overtaken \subseteq marked

(* The trust level a row carries is the one its own columns earn, however many *)
(* verifications of the same person race each other (users_postgres.go,        *)
(* lockUserForTrustLevelWrite; gap-tracker #17).                               *)
TrustIsEarned ==
  \A u \in alive : row[u].level = TrustLevel(row[u])

(* A deletion is announced exactly once, whoever did it, however often it was  *)
(* asked for, and whatever sweep ran beside it (users_postgres.go, Delete);    *)
(* and when its outbox row is settled every module that keeps something of the *)
(* user has carried it out (wiring.go, userDeletedProcess).                    *)
DeletionsAreCarriedOut ==
  \A u \in born :
    /\ announced[u] = IF u \in alive THEN 0 ELSE 1
    /\ u \notin alive /\ u \notin due => told[u] = Len(Modules)

(* Between publications the display cache shows the row as it is, and nothing  *)
(* of an account that was erased; unless a publication was lost, or was under  *)
(* way when the row was written again or deleted.                              *)
CacheIsTrue ==
  \A u \in born \ (lost \cup overlap) :
    /\ u \in alive /\ ~Publishing(u) => cache[u].version = version[u]
    /\ u \notin alive /\ u \notin due => cache[u] = Absent

(* The sweep only takes guests nobody can come back to: no provider, no phone, *)
(* no session.  Two ways out: an account between the two statements of a link, *)
(* where it stays if the second fails, and a row that was written to while the *)
(* sweep waited for it.                                                        *)
SweepTakesOnlyGuests ==
  [][FinishSweep =>
       \A u \in (marked \cap alive) \ (halfway \cup overtaken) :
         row[u].guest /\ row[u].proofs = {} /\ u \notin linked]_vars

(* What the comment of DeleteAbandonedGuests says: is_guest is a hard          *)
(* exclusion, and a real account can never become eligible.                    *)
RealAccountsAreSafe ==
  [][FinishSweep => \A u \in marked \cap alive : row[u].guest]_vars

=============================================================================
