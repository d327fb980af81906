------------------------------ MODULE Sessions ------------------------------
(* Refresh tokens of the auth module: a sign-in stores a token, a refresh      *)
(* rotates it into a child, a token shown twice revokes everything its user    *)
(* has, and a sweep deletes the rows that can never authenticate again.        *)
(*                                                                             *)
(* Every request runs on its own database connection under READ COMMITTED: a   *)
(* write is seen by others when its transaction commits, a statement works on  *)
(* the rows that were committed when it started, and a statement that wants a  *)
(* row another transaction has written waits for that transaction to end.      *)
EXTENDS Naturals, FiniteSets

CONSTANTS
  Users,        \* Accounts.
  NoUser,       \* The owner of a token not yet minted.
  Requests,     \* Refresh calls that can be under way at once.
  MaxTokens,    \* Bound: tokens minted in one behaviour.
  MaxTime,      \* Bound: the last instant of the clock.
  TTL,          \* RefreshTokenTTL.
  Retention,    \* RefreshTokenRetention.
  BatchSize     \* refreshTokenSweepBatchSize.

ASSUME SessionsAssumption ==
  /\ MaxTokens \in Nat /\ MaxTime \in Nat
  /\ TTL \in Nat /\ Retention \in Nat
  /\ BatchSize \in Nat \ {0}
  /\ NoUser \notin Users

Tokens == 1 .. MaxTokens
None == 0          \* Not a token: the NULL of replaced_by.

Row == [user : Users, expires : Nat, revoked : BOOLEAN,
        replacedBy : Tokens \cup {None}]

(* What stands in the table's place of a token that has no row.                *)
NoRow == [user |-> NoUser, expires |-> 0, revoked |-> FALSE, replacedBy |-> None]

VARIABLES
  now,          \* The clock of the database and of the process.
  accounts,     \* The users whose row in auth.users exists.
  minted,       \* How many tokens have been minted; token n is the n-th.
  row,          \* auth.refresh_tokens, as committed.
  pc,           \* What a request does next.
  held,         \* The token a request wants to rotate.
  whose,        \* The user the token shown belonged to when it was read.
  due,          \* expires_at of the child a request has inserted.
  seen,         \* The rows the revoking statement of a request works on.
  family,       \* History: the sign-in a token descends from.
  ended         \* History: families whose last token was revoked unspent.

calls == <<pc, held, whose, due, seen>>
history == <<family, ended>>
vars == <<now, accounts, minted, row, calls, history>>

----------------------------------------------------------------------------
(* Questions asked of the table.                                               *)

Stored(t) == row[t].user # NoUser

(* A token that has neither been rotated nor killed.                           *)
Unspent(t) == Stored(t) /\ ~row[t].revoked /\ row[t].replacedBy = None

(* Mutants: the claim forgets to check replaced_by, or revoked_at.             *)
ClaimableTwice(t) == Stored(t) /\ ~row[t].revoked /\ row[t].expires > now
ClaimableRevoked(t) == Stored(t) /\ row[t].replacedBy = None /\ row[t].expires > now

(* The claim of MarkRefreshTokenReplaced matches the row.                      *)
Claimable(t) == Unspent(t) /\ row[t].expires > now

(* Mutant: the reuse response runs before the transaction is rolled back.      *)
LockedWhileRefusing(t) ==
  \E r \in Requests : \/ pc[r] = "claimed" /\ held[r] = t
                      \/ pc[r] = "revoking" /\ t \in seen[r]

(* A rotation that has claimed the row holds its lock until it ends.           *)
Locked(t) == \E r \in Requests : pc[r] = "claimed" /\ held[r] = t

(* Mutants: rows still named by others go too; rows that expired never go.     *)
SweepableInChains(t) ==
  Stored(t) /\ (row[t].revoked \/ row[t].expires + Retention < now)
SweepableRevoked(t) ==
  Stored(t) /\ row[t].revoked /\ \A p \in Tokens : row[p].replacedBy # t

(* Rows DeleteExpiredRefreshTokens may take: dead, and named by no other row.  *)
Sweepable(t) ==
  /\ Stored(t)
  /\ row[t].revoked \/ row[t].expires + Retention < now
  /\ \A p \in Tokens : row[p].replacedBy # t

(* Bound: a token is minted only while the clock leaves it time to expire and  *)
(* be swept.                                                                   *)
CanMint == minted < MaxTokens /\ now + TTL + Retention < MaxTime

----------------------------------------------------------------------------
Init ==
  /\ now = 0
  /\ accounts = Users
  /\ minted = 0
  /\ row = [t \in Tokens |-> NoRow]
  /\ pc = [r \in Requests |-> "idle"]
  /\ held = [r \in Requests |-> None]
  /\ whose = [r \in Requests |-> NoUser]
  /\ due = [r \in Requests |-> 0]
  /\ seen = [r \in Requests |-> {}]
  /\ family = [t \in Tokens |-> None]
  /\ ended = {}

(* The row CreateRefreshToken inserts.                                         *)
Fresh(u, e) == [user |-> u, expires |-> e, revoked |-> FALSE, replacedBy |-> None]

(* issueSession: whoever has proved who they are gets a first token.           *)
Login(u) ==
  LET t == minted + 1 IN
  /\ u \in accounts
  /\ CanMint
  /\ minted' = t
  /\ row' = [row EXCEPT ![t] = Fresh(u, now + TTL)]
  /\ family' = [family EXCEPT ![t] = t]
  /\ UNCHANGED <<now, accounts, calls, ended>>

(* RefreshSession up to the transaction: look the token up and judge the row   *)
(* as read.  A token that has left the table, or has expired, is refused with  *)
(* no effect, so only the other two outcomes are steps.                        *)
Present(r, t) ==
  /\ pc[r] = "idle"
  /\ Stored(t)
  /\ \/ /\ ~Unspent(t)
        /\ pc' = [pc EXCEPT ![r] = "reuse"]
        /\ UNCHANGED held
     \/ /\ Unspent(t)
        /\ row[t].expires >= now
        /\ pc' = [pc EXCEPT ![r] = "fresh"]
        /\ held' = [held EXCEPT ![r] = t]
  /\ whose' = [whose EXCEPT ![r] = row[t].user]
  /\ UNCHANGED <<now, accounts, minted, row, due, seen, history>>

(* The request is answered and forgotten.                                      *)
Answer(r) ==
  /\ pc' = [pc EXCEPT ![r] = "idle"]
  /\ held' = [held EXCEPT ![r] = None]
  /\ whose' = [whose EXCEPT ![r] = NoUser]
  /\ due' = [due EXCEPT ![r] = 0]
  /\ seen' = [seen EXCEPT ![r] = {}]

(* Rotate wins: its child is inserted and the parent claimed, neither visible  *)
(* to anyone else yet.                                                         *)
Claim(r) ==
  /\ pc[r] = "fresh"
  /\ ~Locked(held[r])
  /\ Claimable(held[r])
  /\ CanMint
  /\ pc' = [pc EXCEPT ![r] = "claimed"]
  /\ due' = [due EXCEPT ![r] = now + TTL]
  /\ UNCHANGED <<now, accounts, minted, row, held, whose, seen, history>>

(* Rotate loses: the claim matches no row, the child goes with the rollback,   *)
(* and ErrRefreshTokenAlreadyRotated is treated as reuse.                      *)
LoseClaim(r) ==
  /\ pc[r] = "fresh"
  /\ ~Locked(held[r])
  /\ Stored(held[r])
  /\ ~Claimable(held[r])
  /\ pc' = [pc EXCEPT ![r] = "reuse"]
  /\ held' = [held EXCEPT ![r] = None]
  /\ UNCHANGED <<now, accounts, minted, row, whose, due, seen, history>>

(* The rotation commits: the parent names its child and the child can be used. *)
Commit(r) ==
  LET t == held[r]  c == minted + 1 IN
  /\ pc[r] = "claimed"
  /\ minted < MaxTokens
  /\ minted' = c
  /\ row' = [row EXCEPT ![t].replacedBy = c, ![c] = Fresh(row[t].user, due[r])]
  /\ family' = [family EXCEPT ![c] = family[t]]
  /\ Answer(r)
  /\ UNCHANGED <<now, accounts, ended>>

(* The request ends with nothing changed: the process dies or the transaction  *)
(* fails, the caller is gone, or the token or its user was deleted meanwhile.  *)
GiveUp(r) ==
  /\ pc[r] \in {"fresh", "claimed"}
  /\ Answer(r)
  /\ UNCHANGED <<now, accounts, minted, row, history>>

(* handleRefreshTokenReuse starts its one UPDATE: it will work on the rows of  *)
(* the user that are committed and unrevoked at this moment.                   *)
StartRevoking(r) ==
  /\ pc[r] = "reuse"
  /\ pc' = [pc EXCEPT ![r] = "revoking"]
  /\ seen' = [seen EXCEPT ![r] = {t \in Tokens :
       Stored(t) /\ ~row[t].revoked /\ row[t].user = whose[r]}]
  /\ UNCHANGED <<now, accounts, minted, row, held, whose, due, history>>

(* The rows of T are revoked, and with them the families that had none left.   *)
Revoke(T) ==
  /\ row' = [t \in Tokens |-> IF t \in T /\ Stored(t)
                                THEN [row[t] EXCEPT !.revoked = TRUE] ELSE row[t]]
  /\ ended' = ended \cup {family[t] : t \in {x \in T : Unspent(x)}}
  /\ UNCHANGED <<now, accounts, minted, family>>

(* The UPDATE ends, once every rotation that holds one of those rows has.      *)
RevokeAll(r) ==
  /\ pc[r] = "revoking"
  /\ \A t \in seen[r] : ~Locked(t)
  /\ Revoke(seen[r])
  /\ Answer(r)

(* Revoking fails: it is logged, and the request is refused all the same.      *)
FailToRevoke(r) ==
  /\ pc[r] \in {"reuse", "revoking"}
  /\ Answer(r)
  /\ UNCHANGED <<now, accounts, minted, row, history>>

(* RevokeSession: the device shows a token it holds and signs out.             *)
Logout(t) ==
  /\ Stored(t)
  /\ ~row[t].revoked
  /\ ~Locked(t)
  /\ Revoke({t})
  /\ UNCHANGED calls

(* The rows of T leave the table.                                              *)
Delete(T) == row' = [t \in Tokens |-> IF t \in T THEN NoRow ELSE row[t]]

(* One pass of SweepExpiredRefreshTokens.                                      *)
Sweep ==
  LET dead == {t \in Tokens : Sweepable(t) /\ ~Locked(t)} IN
  \E batch \in SUBSET dead :
    /\ batch # {}
    /\ batch = dead \/ Cardinality(batch) = BatchSize
    /\ Cardinality(batch) <= BatchSize
    /\ Delete(batch)
    /\ UNCHANGED <<now, accounts, minted, calls, history>>

(* The account is deleted and its tokens with it.  A rotation under way holds  *)
(* the user's row through its child's foreign key, and is waited for.          *)
DeleteUser(u) ==
  LET theirs == {t \in Tokens : row[t].user = u} IN
  /\ u \in accounts
  /\ \A t \in theirs : ~Locked(t)
  /\ accounts' = accounts \ {u}
  /\ Delete(theirs)
  /\ UNCHANGED <<now, minted, calls, history>>

Tick ==
  /\ now < MaxTime
  /\ now' = now + 1
  /\ UNCHANGED <<accounts, minted, row, calls, history>>

(* What a request does once it has started.                                    *)
Proceed(r) ==
  \/ Claim(r) \/ LoseClaim(r) \/ Commit(r) \/ GiveUp(r) \/ StartRevoking(r)

Next ==
  \/ \E u \in Users : Login(u) \/ DeleteUser(u)
  \/ \E r \in Requests, t \in Tokens : Present(r, t)
  \/ \E r \in Requests : Proceed(r) \/ RevokeAll(r) \/ FailToRevoke(r)
  \/ \E t \in Tokens : Logout(t)
  \/ Sweep
  \/ Tick

(* Handlers run on, the sweeper's ticker keeps firing and time passes.  A      *)
(* waiting UPDATE is in the queue of the row lock, so it gets its turn even if *)
(* new rotations keep taking the row: strong fairness.                         *)
Fairness ==
  /\ \A r \in Requests :
       WF_vars(Proceed(r)) /\ SF_vars(RevokeAll(r))
  /\ WF_vars(Sweep)
  /\ WF_vars(Tick)

Spec == Init /\ [][Next]_vars

FairSpec == Spec /\ Fairness

----------------------------------------------------------------------------
Stages == {"idle", "fresh", "claimed", "reuse", "revoking"}

TypeOK ==
  /\ now \in 0 .. MaxTime
  /\ accounts \subseteq Users
  /\ minted \in 0 .. MaxTokens
  /\ row \in [Tokens -> Row \cup {NoRow}]
  /\ pc \in [Requests -> Stages]
  /\ held \in [Requests -> Tokens \cup {None}]
  /\ whose \in [Requests -> Users \cup {NoUser}]
  /\ due \in [Requests -> Nat]
  /\ seen \in [Requests -> SUBSET Tokens]
  /\ family \in [Tokens -> Tokens \cup {None}]
  /\ ended \subseteq Tokens

(* A sign-in never forks: however many refreshes race with the same token, its *)
(* family has at most one token that was not rotated away                      *)
(* (refresh_tokens_postgres.go, Rotate; the claim of #83).                     *)
NoFork ==
  \A s, t \in Tokens :
    /\ Stored(s) /\ row[s].replacedBy = None
    /\ Stored(t) /\ row[t].replacedBy = None
    /\ family[s] = family[t]
    => s = t

(* Once the last token of a family has been revoked unspent, by a sign-out or  *)
(* by the reuse response, no token of the family can be spent again: not even  *)
(* by a refresh that judged the row before it was revoked.                     *)
EndedStaysEnded ==
  \A t \in Tokens : family[t] \in ended => ~Unspent(t)

(* replaced_by is a foreign key: the sweep never deletes the newer end of a    *)
(* chain before the older (refresh_tokens.sql, DeleteExpiredRefreshTokens).    *)
ChainsAreWhole ==
  \A p \in Tokens :
    row[p].replacedBy # None => Stored(row[p].replacedBy)

(* A token in the table belongs to an account that exists, a rotation racing   *)
(* the account's deletion included: no session outlives its account.           *)
NoOrphans ==
  /\ \A t \in Tokens : Stored(t) => row[t].user \in accounts
  /\ \A r \in Requests : pc[r] = "claimed" => Stored(held[r])

(* Once sign-ins stop the table empties, the middle of a long chain too: the   *)
(* sweep peels chains from their old end and is never left with rows it may    *)
(* not delete.                                                                 *)
TableEmpties ==
  <>[](\A t \in Tokens : ~Stored(t))

(* No request waits for ever: rotations hold row locks that the reuse response *)
(* of another request needs, and none waits for one that waits for it.         *)
RequestsEnd ==
  \A r \in Requests : pc[r] # "idle" ~> pc[r] = "idle"

(* The table, seen as the abstract family of tokens.                           *)
Chain == INSTANCE Lineage WITH
  Token <- Tokens,
  tip <- [f \in Tokens |-> {t \in Tokens : family[t] = f /\ Unspent(t)}],
  used <- 1 .. minted

(* The table keeps what Lineage promises: the right to spend moves from token  *)
(* to token, to a token never seen before, and an ended family stays ended.    *)
ChainSpec == Chain!Spec

(* What the comment above RevokeAllForUser says of one UPDATE: a refresh under *)
(* way cannot slip a newly rotated token past it.  As soon as the UPDATE has   *)
(* ended, no child of a row it revoked can be spent.                           *)
NothingSlipsPast ==
  [][\A r \in Requests :
       pc[r] = "revoking" /\ RevokeAll(r) =>
         \A p \in seen[r] :
           row[p].replacedBy # None => ~Unspent(row[p].replacedBy)']_vars

=============================================================================
