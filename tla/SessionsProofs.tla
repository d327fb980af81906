--------------------------- MODULE SessionsProofs ---------------------------
(* Proofs about Sessions for any users, requests, bounds and durations.        *)
EXTENDS Sessions, TLAPS

(* Nothing is known of a token before it is minted, and a stored token belongs *)
(* to a family.                                                                *)
Numbering ==
  /\ \A t \in Tokens : Stored(t) => t <= minted /\ family[t] # None
  /\ \A t \in Tokens : family[t] <= minted
  /\ \A f \in ended : f <= minted

(* A rotation under way has its parent to itself, and the parent is unspent.   *)
Claims ==
  /\ \A r \in Requests : pc[r] = "fresh" => held[r] \in Tokens
  /\ \A r \in Requests :
       pc[r] = "claimed" => held[r] \in Tokens /\ Unspent(held[r])
  /\ \A r, q \in Requests :
       pc[r] = "claimed" /\ pc[q] = "claimed" /\ held[r] = held[q] => r = q

(* A token is replaced by a token of the same user.                            *)
SameUser ==
  \A p \in Tokens : row[p].replacedBy # None =>
    Stored(p) /\ row[row[p].replacedBy].user = row[p].user

Stores == \A t \in Tokens : Stored(t) => row[t].user \in accounts

IInv ==
  /\ TypeOK
  /\ Numbering
  /\ Claims
  /\ SameUser
  /\ Stores
  /\ NoFork
  /\ EndedStaysEnded
  /\ ChainsAreWhole

----------------------------------------------------------------------------
LEMMA TokensAreNumbers ==
  /\ Tokens \subseteq Nat
  /\ None \notin Tokens
  /\ None \in Nat
  BY SessionsAssumption DEF Tokens, None

(* What a row without a token says, and what a new row says.                   *)
LEMMA RowFacts ==
  /\ NoRow.user = NoUser /\ NoRow.replacedBy = None /\ NoRow.revoked = FALSE
  /\ NoRow \notin Row
  /\ \A u \in Users, e \in Nat :
       /\ Fresh(u, e) \in Row
       /\ Fresh(u, e).user = u
       /\ Fresh(u, e).replacedBy = None
       /\ ~Fresh(u, e).revoked
  /\ \A w \in Row \cup {NoRow} :
       /\ w.user \in Users \cup {NoUser}
       /\ w.replacedBy \in Tokens \cup {None}
       /\ w.revoked \in BOOLEAN
       /\ w.expires \in Nat
       /\ w.user # NoUser <=> w \in Row
  <1>1. NoRow.user = NoUser /\ NoRow.replacedBy = None /\ NoRow.revoked = FALSE
        /\ NoRow.expires = 0
    BY DEF NoRow
  <1>2. \A w \in Row :
          /\ w.user \in Users /\ w.replacedBy \in Tokens \cup {None}
          /\ w.revoked \in BOOLEAN /\ w.expires \in Nat
    BY DEF Row
  <1>3. NoRow \notin Row
    BY <1>1, <1>2, SessionsAssumption
  <1>4. \A u \in Users, e \in Nat :
          /\ Fresh(u, e) \in Row
          /\ Fresh(u, e).user = u
          /\ Fresh(u, e).replacedBy = None
          /\ ~Fresh(u, e).revoked
    BY DEF Fresh, Row
  <1>5. \A w \in Row \cup {NoRow} :
          /\ w.user \in Users \cup {NoUser}
          /\ w.replacedBy \in Tokens \cup {None}
          /\ w.revoked \in BOOLEAN
          /\ w.expires \in Nat
    <2> TAKE w \in Row \cup {NoRow}
    <2>1. CASE w = NoRow
      <3>1. NoRow.revoked \in BOOLEAN
        BY Zenon DEF NoRow
      <3> QED
        BY <2>1, <3>1, <1>1
    <2> QED
      BY <2>1, <1>2
  <1>6. \A w \in Row \cup {NoRow} : w.user # NoUser <=> w \in Row
    BY <1>1, <1>2, <1>3, SessionsAssumption
  <1> QED
    BY <1>1, <1>3, <1>4, <1>5, <1>6

LEMMA InitIInv == Init => IInv
  <1> SUFFICES ASSUME Init PROVE IInv
    OBVIOUS
  <1>1. TypeOK
    BY SessionsAssumption, TokensAreNumbers, RowFacts
       DEF Init, TypeOK, Stages, Tokens, None
  <1>2. \A t \in Tokens : ~Stored(t) /\ row[t].replacedBy = None
    BY RowFacts DEF Init, Stored
  <1> QED
    BY <1>1, <1>2 DEF Init, IInv, Numbering, Claims, SameUser, Stores, NoFork,
       EndedStaysEnded, ChainsAreWhole, None

----------------------------------------------------------------------------
(* Steps that change no row and mint nothing keep what is said of the table.   *)
LEMMA Quiet ==
  ASSUME IInv,
         UNCHANGED <<minted, row, accounts, history>>
  PROVE  /\ Numbering' /\ SameUser' /\ Stores' /\ NoFork'
         /\ EndedStaysEnded' /\ ChainsAreWhole'
  BY DEF IInv, Numbering, SameUser, Stores, NoFork, EndedStaysEnded,
     ChainsAreWhole, Stored, Unspent, history

(* A request that is answered holds nothing.                                   *)
LEMMA Answered ==
  ASSUME NEW r \in Requests, TypeOK, Answer(r)
  PROVE  /\ pc' \in [Requests -> Stages]
         /\ held' \in [Requests -> Tokens \cup {None}]
         /\ whose' \in [Requests -> Users \cup {NoUser}]
         /\ due' \in [Requests -> Nat]
         /\ seen' \in [Requests -> SUBSET Tokens]
         /\ \A q \in Requests : pc'[q] \in {"fresh", "claimed"} =>
              q # r /\ pc'[q] = pc[q] /\ held'[q] = held[q]
  BY DEF Answer, TypeOK, Stages, None

(* Deleting unclaimed rows that no remaining row names.                        *)
LEMMA Deletion ==
  ASSUME IInv, NEW T \in SUBSET Tokens, Delete(T),
         \A t \in T : ~Locked(t),
         \A p \in Tokens : row[p].replacedBy \in T => p \in T,
         \A t \in Tokens : Stored(t) /\ t \notin T => row[t].user \in accounts',
         UNCHANGED <<minted, calls, history>>
  PROVE  /\ row' \in [Tokens -> Row \cup {NoRow}]
         /\ Numbering' /\ Claims' /\ SameUser' /\ Stores' /\ NoFork'
         /\ EndedStaysEnded' /\ ChainsAreWhole'
  <1> USE DEF IInv, TypeOK, calls, history
  <1>1. \A t \in Tokens : row'[t] = IF t \in T THEN NoRow ELSE row[t]
    BY DEF Delete
  <1>2. row' \in [Tokens -> Row \cup {NoRow}]
    BY DEF Delete
  <1>3. \A t \in Tokens :
          /\ t \in T => ~Stored(t)' /\ row'[t].replacedBy = None
          /\ t \notin T => row'[t] = row[t] /\ (Stored(t)' <=> Stored(t))
    BY <1>1, RowFacts DEF Stored
  <1>4. \A t \in Tokens : Unspent(t)' => Unspent(t)
    BY <1>3 DEF Unspent
  <1>5. Numbering'
    BY <1>3 DEF Numbering
  <1>6. Claims'
    BY <1>3 DEF Claims, Locked, Unspent
  <1>7. \A p \in Tokens : row'[p].replacedBy # None =>
          /\ p \notin T /\ row[p].replacedBy # None
          /\ row[p].replacedBy \in Tokens /\ row[p].replacedBy \notin T
    BY <1>3, RowFacts
  <1>8. SameUser'
    BY <1>3, <1>7 DEF SameUser
  <1>9. ChainsAreWhole'
    BY <1>3, <1>7 DEF ChainsAreWhole
  <1> QED
    BY <1>2, <1>3, <1>4, <1>5, <1>6, <1>8, <1>9
       DEF Stores, NoFork, EndedStaysEnded

(* Revoking unclaimed rows changes nothing but their mark, and ends the        *)
(* families that had nothing else.                                             *)
LEMMA Revocation ==
  ASSUME IInv, NEW T \in SUBSET Tokens, Revoke(T)
  PROVE  /\ row' \in [Tokens -> Row \cup {NoRow}]
         /\ \A t \in Tokens :
              /\ row'[t].user = row[t].user
              /\ row'[t].replacedBy = row[t].replacedBy
              /\ t \notin T => row'[t] = row[t]
              /\ t \in T => ~Unspent(t)'
         /\ Numbering' /\ SameUser' /\ Stores' /\ NoFork'
         /\ EndedStaysEnded' /\ ChainsAreWhole'
         /\ ended' \subseteq Tokens
  <1> USE DEF IInv, TypeOK
  <1>1. \A t \in Tokens : row'[t] =
          IF t \in T /\ Stored(t) THEN [row[t] EXCEPT !.revoked = TRUE] ELSE row[t]
    BY DEF Revoke
  <1>2. \A w \in Row : /\ [w EXCEPT !.revoked = TRUE] \in Row
                       /\ [w EXCEPT !.revoked = TRUE].user = w.user
                       /\ [w EXCEPT !.revoked = TRUE].replacedBy = w.replacedBy
                       /\ [w EXCEPT !.revoked = TRUE].revoked
    BY DEF Row
  <1>3. \A t \in Tokens : Stored(t) => row[t] \in Row
    BY RowFacts DEF Stored
  <1>4. row' \in [Tokens -> Row \cup {NoRow}]
    BY <1>1, <1>2, <1>3 DEF Revoke
  <1>5. \A t \in Tokens :
              /\ row'[t].user = row[t].user
              /\ row'[t].replacedBy = row[t].replacedBy
              /\ t \notin T => row'[t] = row[t]
              /\ t \in T => ~Unspent(t)'
    <2> TAKE t \in Tokens
    <2>1. CASE t \in T /\ Stored(t)
      <3>1. row'[t] = [row[t] EXCEPT !.revoked = TRUE] /\ row[t] \in Row
        BY <2>1, <1>1, <1>3
      <3> QED
        BY <2>1, <3>1, <1>2 DEF Unspent
    <2>2. CASE ~(t \in T /\ Stored(t))
      BY <2>2, <1>1 DEF Unspent, Stored
    <2> QED
      BY <2>1, <2>2
  <1>6. \A t \in Tokens : Stored(t)' <=> Stored(t)
    BY <1>5 DEF Stored
  <1>7. \A t \in Tokens : Unspent(t)' => Unspent(t) /\ t \notin T
    BY <1>5, <1>6 DEF Unspent
  <1>8. \A x \in T : Unspent(x) => family[x] \in Tokens /\ family[x] <= minted
    BY DEF Numbering, Unspent
  <1>9. Numbering'
    BY <1>6, <1>8 DEF Numbering, Revoke
  <1>10. EndedStaysEnded'
    <2> SUFFICES ASSUME NEW t \in Tokens, family[t] \in ended', Unspent(t)'
                 PROVE  FALSE
      BY DEF EndedStaysEnded, Revoke
    <2>1. family[t] \notin ended
      BY <1>7 DEF EndedStaysEnded
    <2>2. PICK x \in T : Unspent(x) /\ family[x] = family[t]
      BY <2>1 DEF Revoke
    <2>3. x = t
      BY <2>2, <1>7 DEF NoFork, Unspent
    <2> QED
      BY <2>3, <1>7
  <1>11. SameUser'
    BY <1>5, <1>6, RowFacts DEF SameUser
  <1>12. ChainsAreWhole'
    BY <1>5, <1>6, RowFacts DEF ChainsAreWhole
  <1> QED
    BY <1>4, <1>5, <1>6, <1>8, <1>9, <1>10, <1>11, <1>12
       DEF Stores, NoFork, Revoke

----------------------------------------------------------------------------
(* The steps, one at a time.                                                   *)

LEMMA LoginStep ==
  ASSUME IInv, NEW u \in Users, Login(u)
  PROVE  IInv'
  <1> DEFINE t == minted + 1
  <1> USE DEF IInv, TypeOK, calls
  <1>1. /\ t \in Tokens /\ t \in Nat /\ minted' = t /\ t \notin 0 .. minted
        /\ \A n \in Nat : n <= minted => n <= t /\ n # t
    BY SessionsAssumption DEF Login, CanMint, Tokens
  <1>2. ~Stored(t) /\ t \notin ended /\ \A x \in Tokens : family[x] # t
    BY <1>1, TokensAreNumbers DEF Numbering
  <1>3. now + TTL \in Nat
    BY SessionsAssumption
  <1>4. /\ row' = [row EXCEPT ![t] = Fresh(u, now + TTL)]
        /\ family' = [family EXCEPT ![t] = t]
        /\ accounts' = accounts /\ ended' = ended /\ now' = now
        /\ pc' = pc /\ held' = held /\ whose' = whose /\ due' = due /\ seen' = seen
        /\ u \in accounts
    BY DEF Login
  <1>5. /\ row'[t].user = u /\ row'[t].replacedBy = None /\ row'[t] \in Row
        /\ family'[t] = t
    BY <1>1, <1>3, <1>4, RowFacts
  <1>6. \A x \in Tokens : x # t =>
          /\ row'[x] = row[x] /\ family'[x] = family[x]
          /\ (Stored(x)' <=> Stored(x)) /\ (Unspent(x)' <=> Unspent(x))
    BY <1>4 DEF Stored, Unspent
  <1>7. TypeOK'
    <2>1. minted' \in 0 .. MaxTokens
      BY <1>1, SessionsAssumption DEF Tokens
    <2>2. row' \in [Tokens -> Row \cup {NoRow}]
      BY <1>1, <1>3, <1>4, RowFacts
    <2>3. family' \in [Tokens -> Tokens \cup {None}]
      BY <1>1, <1>4
    <2> QED
      BY <1>4, <2>1, <2>2, <2>3
  <1>8. Numbering'
    <2>1. \A x \in Tokens : Stored(x)' => x <= t /\ family'[x] # None
      BY <1>1, <1>5, <1>6, TokensAreNumbers DEF Numbering
    <2>2. \A x \in Tokens : family'[x] <= t
      <3> TAKE x \in Tokens
      <3>1. CASE x = t
        BY <3>1, <1>1, <1>5
      <3>2. CASE x # t
        <4>1. family[x] \in Nat /\ family[x] <= minted
          BY TokensAreNumbers DEF Numbering
        <4> QED
          BY <3>2, <4>1, <1>1, <1>6
      <3> QED
        BY <3>1, <3>2
    <2>3. \A f \in ended : f <= t
      BY <1>1, TokensAreNumbers DEF Numbering
    <2> QED
      BY <1>1, <1>4, <2>1, <2>2, <2>3 DEF Numbering
  <1>9. Claims'
    BY <1>2, <1>4, <1>6 DEF Claims, Unspent
  <1>10. \A p \in Tokens : row[p].replacedBy # None => row[p].replacedBy # t
    BY <1>2 DEF ChainsAreWhole
  <1>11. SameUser'
    BY <1>5, <1>6, <1>10, RowFacts DEF SameUser
  <1>12. ChainsAreWhole'
    BY <1>5, <1>6, <1>10, RowFacts DEF ChainsAreWhole
  <1>13. Stores'
    BY <1>4, <1>5, <1>6 DEF Stores
  <1>14. NoFork'
    BY <1>2, <1>5, <1>6 DEF NoFork
  <1>15. EndedStaysEnded'
    BY <1>2, <1>4, <1>5, <1>6 DEF EndedStaysEnded
  <1> QED
    BY <1>7, <1>8, <1>9, <1>11, <1>12, <1>13, <1>14, <1>15

LEMMA CommitStep ==
  ASSUME IInv, NEW r \in Requests, Commit(r),
         NEW t, t = held[r], NEW c, c = minted + 1
  PROVE  /\ IInv'
         /\ t \in Tokens /\ Unspent(t) /\ ~Unspent(t)'
         /\ c \in Tokens /\ ~Stored(c) /\ Unspent(c)'
         /\ family'[c] = family[t] /\ family'[t] = family[t]
         /\ \A x \in Tokens : x # t /\ x # c =>
              family'[x] = family[x] /\ (Unspent(x)' <=> Unspent(x))
  <1> USE DEF IInv, TypeOK
  <1>1. /\ c \in Tokens /\ c \in Nat /\ minted' = c
        /\ \A n \in Nat : n <= minted => n <= c /\ n # c
    BY SessionsAssumption DEF Commit, Tokens
  <1>2. /\ t \in Tokens /\ Unspent(t) /\ Stored(t) /\ row[t] \in Row
        /\ row[t].replacedBy = None /\ ~row[t].revoked
    BY RowFacts DEF Claims, Commit, Unspent, Stored
  <1>3. /\ ~Stored(c) /\ c \notin ended /\ c # t /\ c # None
        /\ \A x \in Tokens : family[x] # c
    BY <1>1, <1>2, TokensAreNumbers DEF Numbering
  <1>4. /\ row' = [row EXCEPT ![t].replacedBy = c, ![c] = Fresh(row[t].user, due[r])]
        /\ family' = [family EXCEPT ![c] = family[t]]
        /\ accounts' = accounts /\ ended' = ended /\ now' = now
        /\ Answer(r)
    BY DEF Commit
  <1>5. Fresh(row[t].user, due[r]) \in Row
        /\ Fresh(row[t].user, due[r]).user = row[t].user
        /\ Fresh(row[t].user, due[r]).replacedBy = None
        /\ ~Fresh(row[t].user, due[r]).revoked
    BY <1>2, RowFacts DEF Row
  <1>6. /\ row'[c] = Fresh(row[t].user, due[r])
        /\ row'[t] = [row[t] EXCEPT !.replacedBy = c]
        /\ \A x \in Tokens : x # t /\ x # c => row'[x] = row[x]
    BY <1>1, <1>2, <1>3, <1>4
  <1>7. /\ row'[t].user = row[t].user /\ row'[t].replacedBy = c /\ row'[t] \in Row
    BY <1>1, <1>2, <1>6 DEF Row
  <1>8. /\ family'[c] = family[t] /\ family'[t] = family[t]
        /\ \A x \in Tokens : x # c => family'[x] = family[x]
    BY <1>1, <1>2, <1>3, <1>4
  <1>9. /\ Stored(t)' /\ Stored(c)' /\ ~Unspent(t)' /\ Unspent(c)'
        /\ \A x \in Tokens : x # t /\ x # c =>
             (Stored(x)' <=> Stored(x)) /\ (Unspent(x)' <=> Unspent(x))
    <2>1. Stored(t)' /\ ~Unspent(t)'
      <3>1. row'[t].user # NoUser /\ row'[t].replacedBy # None
        BY <1>2, <1>3, <1>7 DEF Stored
      <3> QED
        BY <3>1 DEF Stored, Unspent
    <2>2. Stored(c)' /\ Unspent(c)'
      <3>1. row'[c].user # NoUser /\ row'[c].replacedBy = None /\ ~row'[c].revoked
        BY <1>2, <1>5, <1>6 DEF Stored
      <3> QED
        BY <3>1 DEF Stored, Unspent
    <2>3. \A x \in Tokens : x # t /\ x # c =>
             (Stored(x)' <=> Stored(x)) /\ (Unspent(x)' <=> Unspent(x))
      BY <1>6 DEF Stored, Unspent
    <2> QED
      BY <2>1, <2>2, <2>3
  <1>10. row' \in [Tokens -> Row \cup {NoRow}]
    BY <1>4, <1>5, <1>6, <1>7, <1>1
  <1>11. family' \in [Tokens -> Tokens \cup {None}]
    BY <1>1, <1>2, <1>4
  <1>12. TypeOK'
    <2>1. minted' \in 0 .. MaxTokens
      BY <1>1, SessionsAssumption DEF Tokens
    <2> QED
      BY <2>1, <1>4, <1>10, <1>11, Answered
  <1>13. Numbering'
    <2>1. \A x \in Tokens : Stored(x)' => x <= c /\ family'[x] # None
      <3> SUFFICES ASSUME NEW x \in Tokens, Stored(x)'
                   PROVE  x <= c /\ family'[x] # None
        OBVIOUS
      <3>1. CASE x = c
        BY <3>1, <1>1, <1>2, <1>8 DEF Numbering
      <3>2. CASE x # c
        <4>1. Stored(x)
          BY <3>2, <1>2, <1>9
        <4> QED
          BY <3>2, <4>1, <1>1, <1>8, TokensAreNumbers DEF Numbering
      <3> QED
        BY <3>1, <3>2
    <2>2. \A x \in Tokens : family'[x] <= c
      BY <1>1, <1>2, <1>8, TokensAreNumbers DEF Numbering
    <2>3. \A f \in ended : f <= c
      BY <1>1, TokensAreNumbers DEF Numbering
    <2> QED
      BY <1>1, <1>4, <2>1, <2>2, <2>3 DEF Numbering
  <1>14. Claims'
    <2>1. \A q \in Requests : pc'[q] \in {"fresh", "claimed"} =>
            q # r /\ pc'[q] = pc[q] /\ held'[q] = held[q]
      BY <1>4, Answered
    <2>2. \A q \in Requests : pc'[q] = "claimed" => held[q] # t /\ held[q] # c
      BY <2>1, <1>3 DEF Claims, Commit, Unspent
    <2> QED
      BY <2>1, <2>2, <1>9 DEF Claims
  <1>15. \A p \in Tokens : row[p].replacedBy # None => row[p].replacedBy # c
    BY <1>3 DEF ChainsAreWhole
  <1>21. \A x \in Tokens : x # c => row'[x].user = row[x].user
    BY <1>6, <1>7
  <1>22. \A p \in Tokens : row'[p].replacedBy # None /\ p # t =>
           /\ p # c /\ row'[p] = row[p] /\ row[p].replacedBy # c
           /\ row[p].replacedBy \in Tokens
    BY <1>5, <1>6, <1>15, RowFacts
  <1>16. SameUser'
    <2> SUFFICES ASSUME NEW p \in Tokens, (row[p].replacedBy # None)'
                 PROVE  (Stored(p) /\ row[row[p].replacedBy].user = row[p].user)'
      BY DEF SameUser
    <2>1. CASE p = t
      BY <2>1, <1>5, <1>6, <1>7, <1>9
    <2>2. CASE p # t
      BY <2>2, <1>9, <1>21, <1>22 DEF SameUser
    <2> QED
      BY <2>1, <2>2
  <1>17. ChainsAreWhole'
    <2> SUFFICES ASSUME NEW p \in Tokens, (row[p].replacedBy # None)'
                 PROVE  Stored(row[p].replacedBy)'
      BY DEF ChainsAreWhole
    <2>1. CASE p = t
      BY <2>1, <1>7, <1>9
    <2>2. CASE p # t
      BY <2>2, <1>9, <1>22 DEF ChainsAreWhole
    <2> QED
      BY <2>1, <2>2
  <1>18. Stores'
    BY <1>2, <1>4, <1>5, <1>6, <1>7, <1>9 DEF Stores
  <1>19. NoFork'
    <2> SUFFICES ASSUME NEW x \in Tokens, NEW y \in Tokens,
                        Stored(x)', row'[x].replacedBy = None,
                        Stored(y)', row'[y].replacedBy = None,
                        family'[x] = family'[y]
                 PROVE  x = y
      BY DEF NoFork
    <2>1. x # t /\ y # t
      BY <1>3, <1>7
    <2>2. \A z \in Tokens : z # t /\ z # c /\ Stored(z)' /\ row'[z].replacedBy = None
                              => family'[z] # family[t]
      BY <1>2, <1>6, <1>8, <1>9 DEF NoFork
    <2>3. CASE x # c /\ y # c
      BY <2>1, <2>3, <1>6, <1>8, <1>9 DEF NoFork
    <2> QED
      BY <2>1, <2>2, <2>3, <1>8
  <1>20. EndedStaysEnded'
    BY <1>2, <1>4, <1>8, <1>9 DEF EndedStaysEnded
  <1> QED
    BY <1>1, <1>2, <1>3, <1>8, <1>9, <1>12, <1>13, <1>14, <1>16, <1>17, <1>18,
       <1>19, <1>20

(* Steps that touch no row.                                                    *)
LEMMA QuietSteps ==
  ASSUME IInv,
         \/ \E r \in Requests, t \in Tokens : Present(r, t)
         \/ \E r \in Requests :
              Claim(r) \/ LoseClaim(r) \/ GiveUp(r) \/ StartRevoking(r)
              \/ FailToRevoke(r)
         \/ Tick
         \/ UNCHANGED vars
  PROVE  IInv' /\ UNCHANGED <<minted, row, family>>
  <1> USE DEF IInv, TypeOK
  <1>1. UNCHANGED <<minted, row, accounts, history>>
    BY DEF Present, Claim, LoseClaim, GiveUp, StartRevoking, FailToRevoke, Tick, vars
  <1>2. /\ Numbering' /\ SameUser' /\ Stores' /\ NoFork'
        /\ EndedStaysEnded' /\ ChainsAreWhole'
    BY <1>1, Quiet
  <1>3. \A t \in Tokens : Unspent(t)' <=> Unspent(t)
    BY <1>1 DEF Unspent, Stored
  <1>4. TypeOK' /\ Claims'
    <2>1. CASE \E r \in Requests, t \in Tokens : Present(r, t)
      <3> PICK r \in Requests, t \in Tokens : Present(r, t)
        BY <2>1
      <3>1. row[t].user \in Users
        BY RowFacts DEF Present, Stored
      <3>2. TypeOK'
        BY <1>1, <3>1 DEF Present, Stages, history
      <3>3. \A q \in Requests :
              /\ pc'[q] = "claimed" => pc[q] = "claimed" /\ held'[q] = held[q]
              /\ pc'[q] = "fresh" =>
                   held'[q] = t \/ (pc[q] = "fresh" /\ held'[q] = held[q])
        BY DEF Present
      <3> QED
        BY <3>2, <3>3, <1>3 DEF Claims
    <2>2. CASE \E r \in Requests : Claim(r)
      <3> PICK r \in Requests : Claim(r)
        BY <2>2
      <3>1. held[r] \in Tokens
        BY DEF Claims, Claim
      <3>2. TypeOK'
        BY <1>1, SessionsAssumption DEF Claim, Stages, history
      <3>3. \A q \in Requests : pc[q] = "claimed" => held[q] # held[r]
        BY DEF Claim, Locked
      <3> QED
        BY <3>1, <3>2, <3>3, <1>3 DEF Claims, Claim, Claimable
    <2>3. CASE \E r \in Requests : LoseClaim(r)
      <3> PICK r \in Requests : LoseClaim(r)
        BY <2>3
      <3>1. TypeOK'
        BY <1>1 DEF LoseClaim, Stages, history
      <3>2. \A q \in Requests : pc'[q] \in {"fresh", "claimed"} =>
              pc'[q] = pc[q] /\ held'[q] = held[q]
        BY DEF LoseClaim
      <3> QED
        BY <3>1, <3>2, <1>3 DEF Claims
    <2>4. CASE \E r \in Requests : GiveUp(r) \/ FailToRevoke(r)
      <3> PICK r \in Requests : GiveUp(r) \/ FailToRevoke(r)
        BY <2>4
      <3>1. Answer(r) /\ now' = now
        BY DEF GiveUp, FailToRevoke
      <3>2. TypeOK'
        BY <1>1, <3>1, Answered DEF history
      <3>3. \A q \in Requests : pc'[q] \in {"fresh", "claimed"} =>
              pc'[q] = pc[q] /\ held'[q] = held[q]
        BY <3>1, Answered
      <3> QED
        BY <3>2, <3>3, <1>3 DEF Claims
    <2>5. CASE \E r \in Requests : StartRevoking(r)
      <3> PICK r \in Requests : StartRevoking(r)
        BY <2>5
      <3>1. TypeOK'
        BY <1>1 DEF StartRevoking, Stages, history
      <3>2. \A q \in Requests : pc'[q] \in {"fresh", "claimed"} =>
              pc'[q] = pc[q] /\ held'[q] = held[q]
        BY DEF StartRevoking
      <3> QED
        BY <3>1, <3>2, <1>3 DEF Claims
    <2>6. CASE Tick \/ UNCHANGED vars
      <3>1. TypeOK'
        BY <2>6, <1>1, SessionsAssumption DEF Tick, vars, calls, history
      <3> QED
        BY <2>6, <3>1, <1>3 DEF Claims, Tick, vars, calls
    <2> QED
      BY <2>1, <2>2, <2>3, <2>4, <2>5, <2>6
  <1> QED
    BY <1>1, <1>2, <1>4 DEF history

(* Steps that revoke rows nobody has claimed.                                  *)
LEMMA RevokingSteps ==
  ASSUME IInv,
         \/ \E r \in Requests : RevokeAll(r)
         \/ \E t \in Tokens : Logout(t)
  PROVE  IInv' /\ \E T \in SUBSET Tokens : Revoke(T)
  <1> USE DEF IInv, TypeOK
  <1>1. CASE \E r \in Requests : RevokeAll(r)
    <2> PICK r \in Requests : RevokeAll(r)
      BY <1>1
    <2>1. seen[r] \in SUBSET Tokens /\ Revoke(seen[r]) /\ Answer(r)
          /\ \A t \in seen[r] : ~Locked(t)
      BY DEF RevokeAll
    <2>2. TypeOK'
      BY <2>1, Revocation, Answered DEF Revoke
    <2>3. \A q \in Requests : pc'[q] \in {"fresh", "claimed"} =>
            /\ pc'[q] = pc[q] /\ held'[q] = held[q]
            /\ pc[q] = "claimed" => held[q] \notin seen[r]
      BY <2>1, Answered DEF Locked
    <2>4. Claims'
      BY <2>1, <2>3, Revocation DEF Claims, Unspent, Stored
    <2> QED
      BY <2>1, <2>2, <2>4, Revocation
  <1>2. CASE \E t \in Tokens : Logout(t)
    <2> PICK t \in Tokens : Logout(t)
      BY <1>2
    <2>1. {t} \in SUBSET Tokens /\ Revoke({t}) /\ ~Locked(t) /\ UNCHANGED calls
      BY DEF Logout
    <2>2. TypeOK'
      BY <2>1, Revocation DEF Revoke, calls
    <2>3. \A q \in Requests : pc[q] = "claimed" => held[q] # t
      BY <2>1 DEF Locked
    <2>4. Claims'
      BY <2>1, <2>3, Revocation DEF Claims, Unspent, Stored, calls
    <2> QED
      BY <2>1, <2>2, <2>4, Revocation
  <1> QED
    BY <1>1, <1>2

(* Steps that delete rows nobody has claimed.                                  *)
LEMMA DeletingSteps ==
  ASSUME IInv,
         \/ Sweep
         \/ \E u \in Users : DeleteUser(u)
  PROVE  /\ IInv'
         /\ \E T \in SUBSET Tokens : Delete(T) /\ UNCHANGED <<minted, family>>
  <1> USE DEF IInv, TypeOK
  <1>1. CASE Sweep
    <2> DEFINE dead == {t \in Tokens : Sweepable(t) /\ ~Locked(t)}
    <2>1. PICK batch \in SUBSET dead :
            Delete(batch) /\ UNCHANGED <<now, accounts, minted, calls, history>>
      BY <1>1 DEF Sweep
    <2>2. /\ batch \in SUBSET Tokens
          /\ \A t \in batch : ~Locked(t)
          /\ \A p \in Tokens : row[p].replacedBy \notin batch
      BY <2>1 DEF Sweepable
    <2>3. \A t \in Tokens : Stored(t) => row[t].user \in accounts'
      BY <2>1 DEF Stores
    <2>4. /\ row' \in [Tokens -> Row \cup {NoRow}]
          /\ Numbering' /\ Claims' /\ SameUser' /\ Stores' /\ NoFork'
          /\ EndedStaysEnded' /\ ChainsAreWhole'
      BY <2>1, <2>2, <2>3, Deletion
    <2>5. TypeOK'
      BY <2>1, <2>4 DEF calls, history
    <2> QED
      BY <2>1, <2>2, <2>4, <2>5 DEF history
  <1>2. CASE \E u \in Users : DeleteUser(u)
    <2> PICK u \in Users : DeleteUser(u)
      BY <1>2
    <2> DEFINE theirs == {t \in Tokens : row[t].user = u}
    <2>1. /\ Delete(theirs) /\ UNCHANGED <<now, minted, calls, history>>
          /\ accounts' = accounts \ {u}
          /\ \A t \in theirs : ~Locked(t)
      BY DEF DeleteUser
    <2>2. \A p \in Tokens : row[p].replacedBy \in theirs => p \in theirs
      BY TokensAreNumbers DEF SameUser
    <2>3. \A t \in Tokens : Stored(t) /\ t \notin theirs => row[t].user \in accounts'
      BY <2>1 DEF Stores
    <2>4. /\ row' \in [Tokens -> Row \cup {NoRow}]
          /\ Numbering' /\ Claims' /\ SameUser' /\ Stores' /\ NoFork'
          /\ EndedStaysEnded' /\ ChainsAreWhole'
      <3> HIDE DEF theirs
      <3>1. theirs \in SUBSET Tokens
        BY DEF theirs
      <3> QED
        BY <2>1, <2>2, <2>3, <3>1, Deletion
    <2>5. TypeOK'
      BY <2>1, <2>4 DEF calls, history
    <2> QED
      BY <2>1, <2>4, <2>5 DEF history
  <1> QED
    BY <1>1, <1>2

LEMMA StepIInv == IInv /\ [Next]_vars => IInv'
  <1> SUFFICES ASSUME IInv, [Next]_vars PROVE IInv'
    OBVIOUS
  <1>1. CASE \E r \in Requests : Commit(r)
    BY <1>1, CommitStep
  <1> QED
    BY <1>1, LoginStep, QuietSteps, RevokingSteps, DeletingSteps DEF Next, Proceed

LEMMA Invariance == Spec => []IInv
  <1> QED
    BY InitIInv, StepIInv, PTL DEF Spec

----------------------------------------------------------------------------
(* Every variable keeps its type.                                              *)
THEOREM TypesHold == Spec => []TypeOK
  <1>1. IInv => TypeOK
    BY DEF IInv
  <1> QED
    BY <1>1, Invariance, PTL

(* A sign-in never forks: whatever refreshes race, a family of tokens has at   *)
(* most one that was not rotated away (Rotate, MarkRefreshTokenReplaced).      *)
THEOREM SignInsNeverFork == Spec => []NoFork
  <1>1. IInv => NoFork
    BY DEF IInv
  <1> QED
    BY <1>1, Invariance, PTL

(* A family whose last token was revoked unspent has nothing to spend, ever    *)
(* again (Revoke, RevokeAllForUser against a rotation that read the row first).*)
THEOREM EndedFamiliesStayEnded == Spec => []EndedStaysEnded
  <1>1. IInv => EndedStaysEnded
    BY DEF IInv
  <1> QED
    BY <1>1, Invariance, PTL

(* No row names a row that is not there: neither the sweep nor the deletion of *)
(* an account breaks the foreign key of replaced_by.                           *)
THEOREM ForeignKeysHold == Spec => []ChainsAreWhole
  <1>1. IInv => ChainsAreWhole
    BY DEF IInv
  <1> QED
    BY <1>1, Invariance, PTL

(* No token outlives its account, and no rotation its token.                   *)
THEOREM NoSessionOutlivesItsAccount == Spec => []NoOrphans
  <1>1. IInv => NoOrphans
    BY DEF IInv, Stores, Claims, NoOrphans, Unspent
  <1> QED
    BY <1>1, Invariance, PTL

----------------------------------------------------------------------------
(* The refinement of Lineage.                                                  *)

Tips == [f \in Tokens |-> {t \in Tokens : family[t] = f /\ Unspent(t)}]

LEMMA TipsAreSingle ==
  ASSUME IInv, NEW t \in Tokens, Unspent(t)
  PROVE  /\ family[t] \in Tokens
         /\ Tips[family[t]] = {t}
         /\ \A f \in Tokens : f # family[t] => t \notin Tips[f]
  <1> USE DEF IInv, TypeOK
  <1>1. family[t] \in Tokens
    BY DEF Numbering, Unspent
  <1>2. \A x \in Tokens : family[x] = family[t] /\ Unspent(x) <=> x = t
    BY DEF NoFork, Unspent
  <1> QED
    BY <1>1, <1>2 DEF Tips

(* Families lose their tip: those of which an unspent token is in T.           *)
LEMMA FamiliesEnd ==
  ASSUME IInv, NEW T \in SUBSET Tokens, UNCHANGED <<minted, family>>,
         \A t \in Tokens : Unspent(t)' <=> Unspent(t) /\ t \notin T
  PROVE  Chain!Next
  <1> DEFINE F == {family[t] : t \in {x \in T : Unspent(x)}}
  <1>1. F \in SUBSET Tokens
    BY TipsAreSingle
  <1>2. Tips' = [f \in Tokens |-> IF f \in F THEN {} ELSE Tips[f]]
    <2>1. SUFFICES ASSUME NEW f \in Tokens
                   PROVE  {t \in Tokens : family[t] = f /\ Unspent(t)'}
                            = IF f \in F THEN {} ELSE Tips[f]
      BY DEF Tips
    <2>2. CASE f \in F
      <3>1. PICK x \in T : Unspent(x) /\ family[x] = f
        BY <2>2
      <3>2. \A t \in Tokens : family[t] = f /\ Unspent(t) => t = x
        BY <3>1 DEF IInv, NoFork, Unspent
      <3> QED
        BY <2>2, <3>1, <3>2
    <2>3. CASE f \notin F
      BY <2>3 DEF Tips
    <2> QED
      BY <2>2, <2>3
  <1>3. \E G \in SUBSET Tokens :
          /\ Tips' = [f \in Tokens |-> IF f \in G THEN {} ELSE Tips[f]]
          /\ UNCHANGED (1 .. minted)
    <2> HIDE DEF F
    <2> QED
      BY <1>1, <1>2
  <1> QED
    BY <1>3 DEF Chain!Next, Chain!End, Tips

LEMMA RefinementStep ==
  ASSUME IInv, [Next]_vars
  PROVE  [Chain!Next]_(Chain!vars)
  <1> USE DEF IInv, TypeOK
  <1>1. CASE \E u \in Users : Login(u)
    <2> PICK u \in Users : Login(u)
      BY <1>1
    <2>1. PICK t : t = minted + 1
      OBVIOUS
    <2>2. /\ t \in Tokens /\ t \notin 1 .. minted
          /\ 1 .. minted' = (1 .. minted) \cup {t}
      BY <2>1, SessionsAssumption DEF Login, CanMint, Tokens
    <2>3. /\ row'[t] = Fresh(u, now + TTL) /\ family'[t] = t
          /\ \A x \in Tokens : x # t =>
               row'[x] = row[x] /\ family'[x] = family[x] /\ family[x] # t
      BY <2>1, <2>2, TokensAreNumbers DEF Login, Numbering
    <2>4. Unspent(t)' /\ \A x \in Tokens : x # t => (Unspent(x)' <=> Unspent(x))
      BY <2>2, <2>3, RowFacts, SessionsAssumption DEF Unspent, Stored
    <2>5. ~Unspent(t)
      BY <2>1, <2>2, SessionsAssumption DEF Numbering, Unspent, Tokens
    <2>6. Tips' = [Tips EXCEPT ![t] = {t}]
      <3>1. SUFFICES ASSUME NEW f \in Tokens
                     PROVE  {x \in Tokens : family'[x] = f /\ Unspent(x)'}
                              = IF f = t THEN {t} ELSE Tips[f]
        BY <2>2 DEF Tips
      <3>2. CASE f = t
        BY <3>2, <2>2, <2>3, <2>4
      <3>3. CASE f # t
        BY <3>3, <2>3, <2>4, <2>5 DEF Tips
      <3> QED
        BY <3>2, <3>3
    <2>7. Chain!Open(t)
      BY <2>2, <2>6 DEF Chain!Open, Tips
    <2> QED
      BY <2>2, <2>7 DEF Chain!Next
  <1>2. CASE \E r \in Requests : Commit(r)
    <2> PICK r \in Requests : Commit(r)
      BY <1>2
    <2>1. PICK t, c : t = held[r] /\ c = minted + 1
      OBVIOUS
    <2>2. /\ t \in Tokens /\ Unspent(t) /\ ~Unspent(t)'
          /\ c \in Tokens /\ ~Stored(c) /\ Unspent(c)'
          /\ family'[c] = family[t] /\ family'[t] = family[t]
          /\ \A x \in Tokens : x # t /\ x # c =>
               family'[x] = family[x] /\ (Unspent(x)' <=> Unspent(x))
      BY <2>1, CommitStep
    <2>3. c \notin 1 .. minted /\ 1 .. minted' = (1 .. minted) \cup {c}
      BY <2>1, SessionsAssumption DEF Commit
    <2>4. family[t] \in Tokens /\ Tips[family[t]] = {t}
      BY <2>2, TipsAreSingle
    <2>5. \A x \in Tokens : family[x] = family[t] /\ Unspent(x) => x = t
      BY <2>2 DEF NoFork, Unspent
    <2>6. Tips' = [Tips EXCEPT ![family[t]] = {c}]
      <3>1. ~Unspent(c)
        BY <2>2 DEF Unspent
      <3>2. SUFFICES ASSUME NEW f \in Tokens
                     PROVE  {x \in Tokens : family'[x] = f /\ Unspent(x)'}
                              = IF f = family[t] THEN {c} ELSE Tips[f]
        BY DEF Tips
      <3>3. CASE f = family[t]
        BY <3>3, <2>2, <2>5
      <3>4. CASE f # family[t]
        BY <3>4, <3>1, <2>2 DEF Tips
      <3> QED
        BY <3>3, <3>4
    <2>7. PICK f \in Tokens : f = family[t]
      BY <2>4
    <2>8. Chain!Spend(f, c)
      BY <2>2, <2>3, <2>4, <2>6, <2>7 DEF Chain!Spend, Tips
    <2>9. Chain!Next
      BY <2>2, <2>8, Zenon DEF Chain!Next
    <2> QED
      BY <2>9
  <1>3. CASE \/ \E r \in Requests : RevokeAll(r)
             \/ \E t \in Tokens : Logout(t)
    <2>1. PICK T \in SUBSET Tokens : Revoke(T)
      BY <1>3, RevokingSteps
    <2>2. \A t \in Tokens : Unspent(t)' <=> Unspent(t) /\ t \notin T
      BY <2>1, Revocation DEF Unspent, Stored
    <2> QED
      BY <2>1, <2>2, FamiliesEnd DEF Revoke
  <1>4. CASE Sweep \/ \E u \in Users : DeleteUser(u)
    <2>1. PICK T \in SUBSET Tokens : Delete(T) /\ UNCHANGED <<minted, family>>
      BY <1>4, DeletingSteps
    <2>2. \A t \in Tokens : Unspent(t)' <=> Unspent(t) /\ t \notin T
      BY <2>1, RowFacts DEF Delete, Unspent, Stored
    <2> QED
      BY <2>1, <2>2, FamiliesEnd
  <1>5. CASE \/ \E r \in Requests, t \in Tokens : Present(r, t)
             \/ \E r \in Requests :
                  Claim(r) \/ LoseClaim(r) \/ GiveUp(r) \/ StartRevoking(r)
                  \/ FailToRevoke(r)
             \/ Tick
             \/ UNCHANGED vars
    <2>1. UNCHANGED <<minted, row, family>>
      BY <1>5, QuietSteps
    <2>2. \A t \in Tokens : Unspent(t)' <=> Unspent(t)
      BY <2>1 DEF Unspent, Stored
    <2>3. Tips' = Tips
      <3>1. SUFFICES ASSUME NEW f \in Tokens
                     PROVE  {x \in Tokens : family'[x] = f /\ Unspent(x)'}
                              = {x \in Tokens : family[x] = f /\ Unspent(x)}
        BY DEF Tips
      <3> QED
        BY <2>1, <2>2
    <2>4. UNCHANGED (1 .. minted)
      BY <2>1
    <2> QED
      BY <2>3, <2>4 DEF Chain!vars, Tips
  <1> QED
    BY <1>1, <1>2, <1>3, <1>4, <1>5 DEF Next, Proceed

(* The table implements Lineage: the right to spend a sign-in passes from one  *)
(* token to one never seen before, and a family that is over stays over.       *)
THEOREM SessionsImplementLineage == Spec => ChainSpec
  <1>1. Init => Chain!Init
    <2> SUFFICES ASSUME Init PROVE Chain!Init
      OBVIOUS
    <2>1. \A t \in Tokens : ~Unspent(t)
      BY RowFacts DEF Init, Unspent, Stored
    <2>2. 1 .. minted = {}
      BY DEF Init
    <2> QED
      BY <2>1, <2>2 DEF Chain!Init
  <1>2. IInv /\ [Next]_vars => [Chain!Next]_(Chain!vars)
    BY RefinementStep
  <1> QED
    BY <1>1, <1>2, Invariance, PTL DEF Spec, Chain!Spec, ChainSpec

=============================================================================
