-------------------------- MODULE ReputationProofs --------------------------
(* Proofs about Reputation for any people, calls and meetups.                  *)
EXTENDS Reputation, FiniteSetTheorems, TLAPS

(* Who is told of what a call committed.                                       *)
Pub(c, p) == pc[c] \in {"publishing", "stamped"} /\ p \in left[c]

(* The completed meetups of a person.                                          *)
Over(p) == {n \in ended : p \in Attends[n]}

CallTypes ==
  /\ pc \in [Calls -> Stages]
  /\ rater \in [Calls -> People \cup {NoOne}]
  /\ wanted \in [Calls -> SUBSET People] /\ whole \in [Calls -> BOOLEAN]
  /\ got \in [Calls -> SUBSET People] /\ left \in [Calls -> SUBSET People]
  /\ seen \in [Calls -> [People -> SUBSET (People \cup Meetups)]]
  /\ job \in [Calls -> Meetups \cup {NoMeetup}]
  /\ now \in [Calls -> People \cup {NoOne}]
  /\ at \in [Calls -> Nat]

TableTypes ==
  /\ ratings \subseteq People \X People /\ reviewed \subseteq People
  /\ ended \subseteq Meetups /\ due \subseteq ended
  /\ shown \in [People -> [by : SUBSET People, at : Nat]]
  /\ total \in [People -> Nat]
  /\ clock \in [People -> Nat]
  /\ doubtful \subseteq People /\ missed \subseteq People

(* Locks are taken upwards, kept until the commit, and exclude each other.     *)
LockShape ==
  /\ \A c \in Calls : pc[c] \in {"locking", "written"} =>
       rater[c] \in People /\ rater[c] \notin wanted[c] /\ got[c] \subseteq wanted[c]
  /\ \A c \in Calls : pc[c] \notin {"locking", "written"} =>
       wanted[c] = {} /\ got[c] = {} /\ whole[c] = FALSE
  /\ \A c \in Calls : pc[c] = "written" => got[c] = wanted[c]
  /\ \A c \in Calls : \A g \in got[c], w \in wanted[c] \ got[c] : g < w
  /\ \A c, d \in Calls : \A p \in got[c], q \in got[d] : LockKey[p] = LockKey[q] => c = d

(* A review that is under way has everybody its rater has not rated.           *)
ReviewShape ==
  /\ ReviewIsWhole
  /\ \A c \in Calls : whole[c] = TRUE =>
       \A p \in People \ {rater[c]} : p \in wanted[c] \/ <<rater[c], p>> \in ratings

(* A call knows the aggregate it leaves, and until it has told the cache       *)
(* nobody else knows a newer one.                                              *)
RatingShape ==
  /\ \A c \in Calls : pc[c] = "written" =>
       \A p \in wanted[c] : seen[c][p] = Raters(p) \cup {rater[c]}
  /\ \A p \in People \ doubtful : \A c, d \in Calls : Pub(c, p) /\ Pub(d, p) => c = d
  /\ \A p \in People \ doubtful : \A c \in Calls : Pub(c, p) => seen[c][p] = Raters(p)
  /\ \A p \in People : \A c \in Calls : Pub(c, p) => seen[c][p] \subseteq People
  /\ \A c \in Calls : pc[c] = "stamped" =>
       /\ now[c] \in left[c] /\ at[c] <= clock[now[c]]
       /\ now[c] \notin doubtful => shown[now[c]].at < at[c]
  /\ \A p \in People : shown[p].at <= clock[p]
  /\ RatingsCatchUp

(* Who is owed a number is owed it by a row whose deliveries, if any is under  *)
(* way, have all counted everything and have yet to apply it.                  *)
Owed(p) ==
  \E m \in due :
    /\ p \in Attends[m]
    /\ \A c \in Calls : pc[c] = "counted" /\ job[c] = m => p \in left[c] /\ seen[c][p] = Over(p)

CountShape ==
  /\ \A c \in Calls : pc[c] = "counted" =>
       job[c] \in ended /\ \A p \in People : seen[c][p] \subseteq Over(p)
  /\ \A p \in People : total[p] <= Cardinality(Over(p))
  /\ \A p \in People \ missed : total[p] = Cardinality(Over(p)) \/ Owed(p)

IInv ==
  /\ TypeOK
  /\ LockShape
  /\ ReviewShape
  /\ RatingShape
  /\ CountShape

----------------------------------------------------------------------------
LEMMA Types == TypeOK <=> CallTypes /\ TableTypes
  BY DEF TypeOK, CallTypes, TableTypes

LEMMA Facts ==
  ASSUME IInv
  PROVE  /\ CallTypes /\ TableTypes /\ LockShape /\ ReviewShape /\ RatingShape /\ CountShape
         /\ \A p \in People : p \in Nat /\ p # NoOne
         /\ IsFiniteSet(People) /\ IsFiniteSet(Meetups)
         /\ LockKey \in [People -> Nat] /\ Attends \in [Meetups -> SUBSET People]
         /\ NoMeetup \notin Meetups
  BY Types, ReputationAssumption DEF IInv

(* Counting completed meetups.                                                 *)
LEMMA Counting ==
  ASSUME NEW S, NEW T, T \subseteq S, S \subseteq Meetups
  PROVE  /\ Cardinality(S) \in Nat /\ Cardinality(T) \in Nat
         /\ Cardinality(T) <= Cardinality(S)
  <1>1. IsFiniteSet(S) /\ IsFiniteSet(T)
    BY ReputationAssumption, FS_Subset
  <1>2. Cardinality(S) \in Nat /\ Cardinality(T) \in Nat
    BY <1>1, FS_CardinalityType
  <1> QED
    BY <1>1, <1>2, FS_Subset

LEMMA InitInv == Init => IInv
  <1> SUFFICES ASSUME Init PROVE IInv
    OBVIOUS
  <1>1. PICK s \in Starts : reviewed = s.reviewed /\ ended = s.ended
    BY DEF Init
  <1>2. reviewed \subseteq People /\ ended \subseteq Meetups
    BY <1>1, ReputationAssumption
  <1>3. /\ ratings = {rp \in reviewed \X People : rp[1] # rp[2]}
        /\ ratings \subseteq People \X People
    BY <1>2 DEF Init
  <1>4. \A p \in People : Raters(p) \subseteq People /\ Completed(p) = Cardinality(Over(p))
    BY DEF Raters, Completed, Over
  <1>5. \A p \in People : Over(p) \subseteq Meetups /\ Cardinality(Over(p)) \in Nat
    BY <1>2, Counting DEF Over
  <1>6. CallTypes
    BY DEF Init, CallTypes, Stages
  <1>7. TableTypes
    BY <1>2, <1>3, <1>4, <1>5 DEF Init, TableTypes
  <1>8. LockShape
    BY DEF Init, LockShape
  <1>9. ReviewShape
    <2>1. ReviewIsWhole
      BY <1>2, <1>3 DEF ReviewIsWhole
    <2> QED
      BY <2>1 DEF Init, ReviewShape
  <1>10. RatingShape
    BY DEF Init, RatingShape, Pub, RatingsCatchUp
  <1>11. CountShape
    BY <1>4, <1>5 DEF Init, CountShape
  <1> QED
    BY <1>6, <1>7, <1>8, <1>9, <1>10, <1>11, Types DEF IInv

----------------------------------------------------------------------------
(* What does not change when the step is somebody else's.                      *)
LEMMA LockFrame ==
  ASSUME IInv, CallTypes',
         \A d \in Calls :
           \/ /\ pc'[d] = pc[d] /\ rater'[d] = rater[d] /\ wanted'[d] = wanted[d]
              /\ got'[d] = got[d] /\ whole'[d] = whole[d]
           \/ /\ pc'[d] \notin {"locking", "written"}
              /\ wanted'[d] = {} /\ got'[d] = {} /\ whole'[d] = FALSE
  PROVE  LockShape'
  <1>1. \A d \in Calls : pc'[d] \in {"locking", "written"} =>
          rater'[d] \in People /\ rater'[d] \notin wanted'[d] /\ got'[d] \subseteq wanted'[d]
    BY Facts DEF LockShape
  <1>2. \A d \in Calls : pc'[d] \notin {"locking", "written"} =>
          wanted'[d] = {} /\ got'[d] = {} /\ whole'[d] = FALSE
    BY Facts DEF LockShape
  <1>3. \A d \in Calls : pc'[d] = "written" => got'[d] = wanted'[d]
    BY Facts DEF LockShape
  <1>4. \A d \in Calls : \A g \in got'[d], w \in wanted'[d] \ got'[d] : g < w
    BY Facts DEF LockShape
  <1>5. \A c, d \in Calls : \A p \in got'[c], q \in got'[d] : LockKey[p] = LockKey[q] => c = d
    BY Facts DEF LockShape
  <1> QED
    BY <1>1, <1>2, <1>3, <1>4, <1>5 DEF LockShape

LEMMA ReviewFrame ==
  ASSUME IInv, CallTypes', ratings' = ratings, reviewed' = reviewed,
         \A d \in Calls : whole'[d] = TRUE =>
           whole[d] = TRUE /\ rater'[d] = rater[d] /\ wanted'[d] = wanted[d]
  PROVE  ReviewShape'
  <1>1. ReviewIsWhole'
    BY Facts DEF ReviewShape, ReviewIsWhole
  <1>2. \A d \in Calls : whole'[d] = TRUE =>
          \A p \in People \ {rater'[d]} : p \in wanted'[d] \/ <<rater'[d], p>> \in ratings'
    BY Facts DEF ReviewShape
  <1> QED
    BY <1>1, <1>2 DEF ReviewShape

LEMMA RatingFrame ==
  ASSUME IInv, ratings' = ratings, shown' = shown, clock' = clock, doubtful \subseteq doubtful',
         \A d \in Calls : pc'[d] = "written" =>
           \A p \in wanted'[d] : seen'[d][p] = Raters(p) \cup {rater'[d]},
         \A d \in Calls :
           \/ /\ pc'[d] = pc[d] /\ left'[d] = left[d] /\ seen'[d] = seen[d]
              /\ now'[d] = now[d] /\ at'[d] = at[d]
           \/ /\ pc'[d] \notin {"publishing", "stamped"}
              /\ pc[d] \notin {"publishing", "stamped"} \/ left[d] \subseteq doubtful'
  PROVE  RatingShape'
  <1>1. \A p \in People : Raters(p)' = Raters(p)
    BY DEF Raters
  <1>2. \A d \in Calls, p \in People \ doubtful' : Pub(d, p)' <=> Pub(d, p)
    BY DEF Pub
  <1>3. \A d \in Calls, p \in People : Pub(d, p)' => seen'[d] = seen[d] /\ Pub(d, p)
    BY DEF Pub
  <1>4. \A d \in Calls : pc'[d] = "stamped" =>
          pc[d] = "stamped" /\ left'[d] = left[d] /\ now'[d] = now[d] /\ at'[d] = at[d]
    OBVIOUS
  <1>5. \A p \in People \ doubtful' : \A c, d \in Calls : Pub(c, p)' /\ Pub(d, p)' => c = d
    BY <1>2, Facts DEF RatingShape
  <1>6. \A p \in People \ doubtful' : \A c \in Calls : Pub(c, p)' => seen'[c][p] = Raters(p)
    BY <1>2, <1>3, Facts DEF RatingShape
  <1>11. \A p \in People : \A c \in Calls : Pub(c, p)' => seen'[c][p] \subseteq People
    BY <1>3, Facts DEF RatingShape
  <1>7. \A c \in Calls : pc'[c] = "stamped" =>
          /\ now'[c] \in left'[c] /\ at'[c] <= clock[now'[c]]
          /\ now'[c] \notin doubtful' => shown[now'[c]].at < at'[c]
    BY <1>4, Facts DEF RatingShape
  <1>8. RatingsCatchUp'
    <2>1. \A p \in People \ doubtful' : Publishing(p)' <=> Publishing(p)
      BY <1>2 DEF Publishing, Pub
    <2> QED
      BY <1>1, <2>1, Facts DEF RatingShape, RatingsCatchUp
  <1>9. \A c \in Calls : pc'[c] = "written" =>
          \A p \in wanted'[c] : seen'[c][p] = Raters(p) \cup {rater'[c]}
    OBVIOUS
  <1>10. \A p \in People : shown[p].at <= clock[p]
    BY Facts DEF RatingShape
  <1> QED
    BY <1>1, <1>5, <1>6, <1>7, <1>8, <1>9, <1>10, <1>11 DEF RatingShape, Raters

LEMMA CountFrame ==
  ASSUME IInv, UNCHANGED <<ended, due, total, missed>>,
         \A d \in Calls : pc'[d] = "counted" =>
           pc[d] = "counted" /\ job'[d] = job[d] /\ left'[d] = left[d] /\ seen'[d] = seen[d]
  PROVE  CountShape'
  <1>1. \A p \in People : Over(p)' = Over(p)
    BY DEF Over
  <1>2. \A d \in Calls : pc'[d] = "counted" =>
          job'[d] \in ended /\ \A p \in People : seen'[d][p] \subseteq Over(p)
    BY Facts DEF CountShape
  <1>3. \A p \in People : Owed(p) => Owed(p)'
    BY <1>1 DEF Owed
  <1>4. \A p \in People \ missed : total[p] = Cardinality(Over(p)) \/ Owed(p)'
    BY <1>3, Facts DEF CountShape
  <1>5. \A p \in People : total[p] <= Cardinality(Over(p))
    BY Facts DEF CountShape
  <1> QED
    BY <1>1, <1>2, <1>4, <1>5 DEF CountShape

(* What Return does to the call, and not to the others.                        *)
Same(d) ==
  /\ pc'[d] = pc[d] /\ rater'[d] = rater[d] /\ wanted'[d] = wanted[d]
  /\ whole'[d] = whole[d] /\ got'[d] = got[d] /\ seen'[d] = seen[d]
  /\ job'[d] = job[d] /\ left'[d] = left[d] /\ now'[d] = now[d] /\ at'[d] = at[d]

LEMMA ReturnFacts ==
  ASSUME IInv, NEW c \in Calls, Return(c)
  PROVE  /\ CallTypes' /\ \A d \in Calls : d # c => Same(d)
         /\ pc'[c] = "idle" /\ wanted'[c] = {} /\ got'[c] = {} /\ whole'[c] = FALSE
  <1>1. CallTypes /\ "idle" \in Stages
    BY Facts DEF Stages
  <1>2. PICK f \in [People -> SUBSET (People \cup Meetups)] : seen' = [seen EXCEPT ![c] = f]
    BY DEF Return
  <1> QED
    BY <1>1, <1>2 DEF Return, CallTypes, Same

LEMMA StartInv ==
  ASSUME IInv, NEW c \in Calls, NEW r \in People, NEW W \in SUBSET People,
         NEW b \in BOOLEAN, Start(c, r, W, b), r \notin W,
         b = TRUE => \A p \in People \ {r} : p \in W \/ <<r, p>> \in ratings
  PROVE  IInv'
  <1>1. /\ pc[c] = "idle" /\ pc' = [pc EXCEPT ![c] = "locking"]
        /\ rater' = [rater EXCEPT ![c] = r] /\ wanted' = [wanted EXCEPT ![c] = W]
        /\ whole' = [whole EXCEPT ![c] = b]
        /\ UNCHANGED <<ratings, reviewed, ended, due, shown, total, clock, got, seen, job, left,
                       now, at, doubtful, missed>>
    BY DEF Start, tables, caches, history
  <1>2. /\ CallTypes' /\ pc'[c] = "locking" /\ rater'[c] = r /\ wanted'[c] = W /\ whole'[c] = b
        /\ \A d \in Calls : d # c => Same(d)
    BY <1>1, Facts DEF CallTypes, Stages, Same
  <1>3. TypeOK'
    BY <1>1, <1>2, Facts DEF TypeOK, CallTypes, TableTypes
  <1>4. LockShape'
    <2>1. got'[c] = {}
      BY <1>1, Facts DEF LockShape
    <2>2. \A d \in Calls : pc'[d] \in {"locking", "written"} =>
            rater'[d] \in People /\ rater'[d] \notin wanted'[d] /\ got'[d] \subseteq wanted'[d]
      BY <1>2, <2>1, Facts DEF LockShape, Same
    <2>3. \A d \in Calls : pc'[d] \notin {"locking", "written"} =>
            wanted'[d] = {} /\ got'[d] = {} /\ whole'[d] = FALSE
      <3> SUFFICES ASSUME NEW d \in Calls, pc'[d] \notin {"locking", "written"}
                   PROVE  wanted'[d] = {} /\ got'[d] = {} /\ whole'[d] = FALSE
        OBVIOUS
      <3>1. /\ pc'[d] = pc[d] /\ wanted'[d] = wanted[d] /\ got'[d] = got[d]
            /\ whole'[d] = whole[d]
        BY <1>2 DEF Same
      <3>2. wanted[d] = {} /\ got[d] = {} /\ whole[d] = FALSE
        BY <3>1, Facts DEF LockShape
      <3> QED
        BY <3>1, <3>2
    <2>4. \A d \in Calls : pc'[d] = "written" => got'[d] = wanted'[d]
      BY <1>2, Facts DEF LockShape, Same
    <2>5. \A d \in Calls : \A g \in got'[d], w \in wanted'[d] \ got'[d] : g < w
      BY <1>2, <2>1, Facts DEF LockShape, Same
    <2>6. \A e, d \in Calls :
            \A p \in got'[e], q \in got'[d] : LockKey[p] = LockKey[q] => e = d
      BY <1>1, Facts DEF LockShape
    <2> QED
      BY <2>2, <2>3, <2>4, <2>5, <2>6 DEF LockShape
  <1>5. ReviewShape'
    <2>1. ReviewIsWhole'
      BY <1>1, Facts DEF ReviewShape, ReviewIsWhole
    <2>2. \A d \in Calls : whole'[d] = TRUE =>
            \A p \in People \ {rater'[d]} : p \in wanted'[d] \/ <<rater'[d], p>> \in ratings'
      <3> SUFFICES ASSUME NEW d \in Calls, whole'[d] = TRUE, NEW p \in People \ {rater'[d]}
                   PROVE  p \in wanted'[d] \/ <<rater'[d], p>> \in ratings'
        OBVIOUS
      <3>1. CASE d = c
        BY <3>1, <1>1, <1>2
      <3>2. CASE d # c
        <4>1. whole'[d] = whole[d] /\ rater'[d] = rater[d] /\ wanted'[d] = wanted[d]
          BY <3>2, <1>2 DEF Same
        <4>2. whole[d] = TRUE
          BY <4>1
        <4>3. p \in wanted[d] \/ <<rater[d], p>> \in ratings
          BY <4>1, <4>2, Facts DEF ReviewShape
        <4> QED
          BY <1>1, <4>1, <4>3
      <3> QED
        BY <3>1, <3>2
    <2> QED
      BY <2>1, <2>2 DEF ReviewShape
  <1>6. RatingShape'
    <2>1. \A d \in Calls : pc'[d] = "written" =>
            \A p \in wanted'[d] : seen'[d][p] = Raters(p) \cup {rater'[d]}
      BY <1>2, Facts DEF RatingShape, Same
    <2>2. \A d \in Calls :
            \/ /\ pc'[d] = pc[d] /\ left'[d] = left[d] /\ seen'[d] = seen[d]
               /\ now'[d] = now[d] /\ at'[d] = at[d]
            \/ /\ pc'[d] \notin {"publishing", "stamped"}
               /\ pc[d] \notin {"publishing", "stamped"} \/ left[d] \subseteq doubtful'
      BY <1>1, <1>2 DEF Same
    <2> QED
      BY <1>1, <2>1, <2>2, RatingFrame
  <1>7. CountShape'
    BY <1>1, <1>2, CountFrame DEF Same
  <1> QED
    BY <1>3, <1>4, <1>5, <1>6, <1>7 DEF IInv

LEMMA TakeLockInv ==
  ASSUME IInv, NEW c \in Calls, TakeLock(c)
  PROVE  IInv'
  <1>1. PICK p \in Lockable(c) :
          /\ \A d \in Calls \ {c} : ~ Holds(d, p)
          /\ got' = [got EXCEPT ![c] = got[c] \cup {p}]
    BY DEF TakeLock
  <1>2. /\ pc[c] = "locking" /\ p \in wanted[c] /\ p \notin got[c] /\ p \in People
        /\ \A q \in wanted[c] \ got[c] : p <= q
        /\ UNCHANGED <<ratings, reviewed, ended, due, shown, total, clock, pc, rater, wanted,
                       whole, seen, job, left, now, at, doubtful, missed>>
    BY <1>1, Facts DEF TakeLock, Lockable, CallTypes, tables, caches, history
  <1>3. /\ CallTypes' /\ got'[c] = got[c] \cup {p}
        /\ \A d \in Calls : d # c => got'[d] = got[d]
    BY <1>1, <1>2, Facts DEF CallTypes
  <1>4. TypeOK'
    BY <1>2, <1>3, Facts DEF TypeOK, CallTypes, TableTypes
  <1>5. LockShape'
    <2>1. \A d \in Calls : pc[d] \in {"locking", "written"} =>
            rater[d] \in People /\ rater[d] \notin wanted[d] /\ got'[d] \subseteq wanted[d]
      BY <1>2, <1>3, Facts DEF LockShape
    <2>2. \A d \in Calls : pc[d] \notin {"locking", "written"} =>
            wanted[d] = {} /\ got'[d] = {} /\ whole[d] = FALSE
      BY <1>2, <1>3, Facts DEF LockShape
    <2>3. \A d \in Calls : pc[d] = "written" => got'[d] = wanted[d]
      BY <1>2, <1>3, Facts DEF LockShape
    <2>4. \A d \in Calls : \A g \in got'[d], w \in wanted[d] \ got'[d] : g < w
      <3> SUFFICES ASSUME NEW d \in Calls, NEW g \in got'[d], NEW w \in wanted[d] \ got'[d]
                   PROVE  g < w
        OBVIOUS
      <3>1. CASE d # c \/ g \in got[c]
        BY <3>1, <1>3, Facts DEF LockShape
      <3>2. CASE d = c /\ g = p
        <4>1. w \in wanted[c] \ got[c] /\ w # p /\ p <= w
          BY <3>2, <1>2, <1>3
        <4>2. w \in Nat /\ p \in Nat
          BY <4>1, <1>2, Facts DEF CallTypes
        <4> QED
          BY <3>2, <4>1, <4>2
      <3> QED
        BY <3>1, <3>2, <1>3
    <2>5. \A e, d \in Calls :
            \A x \in got'[e], y \in got'[d] : LockKey[x] = LockKey[y] => e = d
      BY <1>1, <1>3, Facts DEF LockShape, Holds
    <2> QED
      BY <1>2, <2>1, <2>2, <2>3, <2>4, <2>5 DEF LockShape
  <1>6. ReviewShape'
    BY <1>2, <1>3, ReviewFrame
  <1>7. RatingShape'
    BY <1>2, Facts, RatingFrame DEF RatingShape
  <1>8. CountShape'
    BY <1>2, CountFrame
  <1> QED
    BY <1>4, <1>5, <1>6, <1>7, <1>8 DEF IInv

(* A call that only leaves: what it had to publish is doubtful or nothing.     *)
LEMMA ReturnInv ==
  ASSUME IInv, NEW c \in Calls, Return(c),
         pc[c] \in {"publishing", "stamped"} => left[c] \subseteq doubtful',
         doubtful \subseteq doubtful', doubtful' \subseteq People,
         UNCHANGED <<ratings, reviewed, ended, due, shown, total, clock, missed>>
  PROVE  IInv'
  <1>1. /\ CallTypes' /\ \A d \in Calls : d # c => Same(d)
        /\ pc'[c] = "idle" /\ wanted'[c] = {} /\ got'[c] = {} /\ whole'[c] = FALSE
    BY ReturnFacts
  <1>2. TypeOK'
    BY <1>1, Facts DEF TypeOK, CallTypes, TableTypes
  <1>3. LockShape'
    BY <1>1, LockFrame DEF Same
  <1>4. ReviewShape'
    BY <1>1, ReviewFrame DEF Same
  <1>5. RatingShape'
    <2>1. \A d \in Calls : pc'[d] = "written" =>
            \A p \in wanted'[d] : seen'[d][p] = Raters(p) \cup {rater'[d]}
      BY <1>1, Facts DEF RatingShape, Same
    <2>2. \A d \in Calls :
            \/ /\ pc'[d] = pc[d] /\ left'[d] = left[d] /\ seen'[d] = seen[d]
               /\ now'[d] = now[d] /\ at'[d] = at[d]
            \/ /\ pc'[d] \notin {"publishing", "stamped"}
               /\ pc[d] \notin {"publishing", "stamped"} \/ left[d] \subseteq doubtful'
      BY <1>1 DEF Same
    <2> QED
      BY <2>1, <2>2, RatingFrame
  <1>6. CountShape'
    BY <1>1, CountFrame DEF Same
  <1> QED
    BY <1>2, <1>3, <1>4, <1>5, <1>6 DEF IInv

LEMMA WriteInv ==
  ASSUME IInv, NEW c \in Calls, Write(c)
  PROVE  IInv'
  <1>1. /\ pc[c] = "locking" /\ got[c] = wanted[c]
        /\ UNCHANGED <<ratings, reviewed, ended, due, shown, total, clock, doubtful, missed>>
    BY DEF Write, tables, caches, history
  <1>2. CASE \E p \in wanted[c] : <<rater[c], p>> \in ratings
    BY <1>1, <1>2, Facts, ReturnInv DEF Write, TableTypes
  <1>3. CASE ~ \E p \in wanted[c] : <<rater[c], p>> \in ratings
    <2> DEFINE f == [p \in People |->
                       IF p \in wanted[c] THEN Raters(p) \cup {rater[c]} ELSE {}]
    <2>1. /\ pc' = [pc EXCEPT ![c] = "written"] /\ seen' = [seen EXCEPT ![c] = f]
          /\ UNCHANGED <<rater, wanted, whole, got, job, left, now, at>>
      BY <1>3 DEF Write
    <2>2. rater[c] \in People /\ \A p \in People : Raters(p) \subseteq People
      BY <1>1, Facts DEF LockShape, Raters
    <2>3. /\ f \in [People -> SUBSET (People \cup Meetups)]
          /\ \A p \in wanted[c] : f[p] = Raters(p) \cup {rater[c]}
      BY <2>2, Facts DEF CallTypes
    <2> HIDE DEF f
    <2>4. /\ CallTypes' /\ pc'[c] = "written" /\ seen'[c] = f
          /\ \A d \in Calls : d # c => Same(d)
      BY <2>1, <2>3, Facts DEF CallTypes, Stages, Same
    <2>5. TypeOK'
      BY <1>1, <2>4, Facts DEF TypeOK, CallTypes, TableTypes
    <2>6. LockShape'
      <3>1. /\ wanted' = wanted /\ rater' = rater /\ got' = got /\ whole' = whole
            /\ \A d \in Calls : d # c => pc'[d] = pc[d]
        BY <2>1, <2>4 DEF Same
      <3>2. \A d \in Calls : pc'[d] \in {"locking", "written"} =>
              rater'[d] \in People /\ rater'[d] \notin wanted'[d] /\ got'[d] \subseteq wanted'[d]
        BY <1>1, <3>1, Facts DEF LockShape
      <3>3. \A d \in Calls : pc'[d] \notin {"locking", "written"} =>
              wanted'[d] = {} /\ got'[d] = {} /\ whole'[d] = FALSE
        BY <2>4, <3>1, Facts DEF LockShape
      <3>4. \A d \in Calls : pc'[d] = "written" => got'[d] = wanted'[d]
        BY <1>1, <3>1, Facts DEF LockShape
      <3>5. /\ \A d \in Calls : \A g \in got'[d], w \in wanted'[d] \ got'[d] : g < w
            /\ \A d, e \in Calls :
                 \A p \in got'[d], q \in got'[e] : LockKey[p] = LockKey[q] => d = e
        BY <3>1, Facts DEF LockShape
      <3> QED
        BY <3>2, <3>3, <3>4, <3>5 DEF LockShape
    <2>7. ReviewShape'
      BY <1>1, <2>1, <2>4, ReviewFrame
    <2>8. RatingShape'
      <3>1. \A d \in Calls : pc'[d] = "written" =>
              \A p \in wanted'[d] : seen'[d][p] = Raters(p) \cup {rater'[d]}
        BY <2>1, <2>3, <2>4, Facts DEF RatingShape, Same
      <3>2. \A d \in Calls :
              \/ /\ pc'[d] = pc[d] /\ left'[d] = left[d] /\ seen'[d] = seen[d]
                 /\ now'[d] = now[d] /\ at'[d] = at[d]
              \/ /\ pc'[d] \notin {"publishing", "stamped"}
                 /\ pc[d] \notin {"publishing", "stamped"} \/ left[d] \subseteq doubtful'
        BY <1>1, <2>4 DEF Same
      <3> QED
        BY <1>1, <3>1, <3>2, RatingFrame
    <2>9. CountShape'
      BY <1>1, <2>4, CountFrame DEF Same
    <2> QED
      BY <2>5, <2>6, <2>7, <2>8, <2>9 DEF IInv
  <1> QED
    BY <1>2, <1>3

LEMMA LeaveInv ==
  ASSUME IInv, NEW c \in Calls, Finish(c) \/ Fail(c)
  PROVE  IInv'
  <1>1. left[c] \subseteq People /\ doubtful \subseteq People
    BY Facts DEF CallTypes, TableTypes
  <1>2. CASE Finish(c)
    BY <1>1, <1>2, ReturnInv DEF Finish, tables, caches, history
  <1>3. CASE Fail(c)
    BY <1>1, <1>3, ReturnInv DEF Fail, tables, caches
  <1> QED
    BY <1>2, <1>3

LEMMA CommitInv ==
  ASSUME IInv, NEW c \in Calls, Commit(c)
  PROVE  IInv'
  <1>1. PICK r \in People, W \in SUBSET People :
          /\ r = rater[c] /\ W = wanted[c] /\ W = got[c] /\ r \notin W
    BY Facts DEF Commit, LockShape, CallTypes
  <1>2. /\ pc[c] = "written"
        /\ ratings' = ratings \cup {<<r, p>> : p \in W}
        /\ reviewed' = (IF whole[c] THEN reviewed \cup {r} ELSE reviewed)
        /\ doubtful' = doubtful \cup {p \in W : Publishing(p)}
        /\ pc' = [pc EXCEPT ![c] = "publishing"]
        /\ got' = [got EXCEPT ![c] = {}] /\ left' = [left EXCEPT ![c] = W]
        /\ wanted' = [wanted EXCEPT ![c] = {}] /\ rater' = [rater EXCEPT ![c] = NoOne]
        /\ whole' = [whole EXCEPT ![c] = FALSE]
        /\ UNCHANGED <<ended, due, shown, total, clock, seen, job, now, at, missed>>
    BY <1>1 DEF Commit, caches
  <1>3. /\ CallTypes' /\ pc'[c] = "publishing" /\ got'[c] = {} /\ left'[c] = W
        /\ wanted'[c] = {} /\ whole'[c] = FALSE
        /\ \A d \in Calls : d # c => Same(d)
    BY <1>2, Facts DEF CallTypes, Stages, Same
  <1>4. /\ \A p \in People \ W : Raters(p)' = Raters(p)
        /\ \A p \in W : Raters(p)' = Raters(p) \cup {r}
    BY <1>1, <1>2 DEF Raters
  <1>5. whole[c] \in BOOLEAN /\ reviewed \subseteq reviewed' /\ reviewed' \subseteq People
    BY <1>1, <1>2, Facts DEF CallTypes, TableTypes
  <1>6. TypeOK'
    <2>1. ratings' \subseteq People \X People /\ doubtful' \subseteq People
      BY <1>1, <1>2, Facts DEF TableTypes
    <2>2. TableTypes'
      BY <1>2, <1>5, <2>1, Facts DEF TableTypes
    <2> QED
      BY <1>3, <2>2 DEF TypeOK, CallTypes, TableTypes
  <1>7. LockShape'
    BY <1>3, LockFrame DEF Same
  <1>8. ReviewShape'
    <2>1. \A q \in reviewed' : \A p \in People \ {q} : <<q, p>> \in ratings'
      <3> SUFFICES ASSUME NEW q \in reviewed', NEW p \in People \ {q} PROVE <<q, p>> \in ratings'
        OBVIOUS
      <3>1. CASE q \in reviewed
        BY <3>1, <1>2, Facts DEF ReviewShape, ReviewIsWhole
      <3>2. CASE q \notin reviewed
        <4>1. q = r /\ whole[c] = TRUE
          BY <3>2, <1>2, <1>5
        <4> QED
          BY <4>1, <1>1, <1>2, Facts DEF ReviewShape
      <3> QED
        BY <3>1, <3>2
    <2>2. \A d \in Calls : whole'[d] = TRUE =>
            \A p \in People \ {rater'[d]} : p \in wanted'[d] \/ <<rater'[d], p>> \in ratings'
      <3> SUFFICES ASSUME NEW d \in Calls, whole'[d] = TRUE, NEW p \in People \ {rater'[d]}
                   PROVE  p \in wanted'[d] \/ <<rater'[d], p>> \in ratings'
        OBVIOUS
      <3>1. d # c /\ whole'[d] = whole[d] /\ rater'[d] = rater[d] /\ wanted'[d] = wanted[d]
        BY <1>3 DEF Same
      <3>2. p \in wanted[d] \/ <<rater[d], p>> \in ratings
        BY <3>1, Facts DEF ReviewShape
      <3> QED
        BY <1>2, <3>1, <3>2
    <2> QED
      BY <2>1, <2>2 DEF ReviewShape, ReviewIsWhole
  <1>9. RatingShape'
    <2>1. \A d \in Calls : pc'[d] = "written" =>
            \A p \in wanted'[d] : seen'[d][p] = Raters(p)' \cup {rater'[d]}
      <3> SUFFICES ASSUME NEW d \in Calls, pc'[d] = "written", NEW p \in wanted'[d]
                   PROVE  seen'[d][p] = Raters(p)' \cup {rater'[d]}
        OBVIOUS
      <3>1. d # c /\ Same(d)
        BY <1>3
      <3>2. pc[d] = "written" /\ p \in got[d] /\ p \in People
        BY <3>1, Facts DEF LockShape, Same, CallTypes
      <3>3. p \notin W
        BY <1>1, <3>1, <3>2, Facts DEF LockShape
      <3>4. seen[d][p] = Raters(p) \cup {rater[d]}
        BY <3>1, <3>2, Facts DEF RatingShape, Same
      <3> QED
        BY <1>4, <3>1, <3>2, <3>3, <3>4 DEF Same
    <2>2. \A d \in Calls, p \in People :
            /\ d # c => (Pub(d, p)' <=> Pub(d, p))
            /\ ~ Pub(c, p) /\ (Pub(c, p)' <=> p \in W)
      BY <1>2, <1>3 DEF Pub, Same
    <2>3. \A p \in W \ doubtful' : \A d \in Calls : ~ Pub(d, p)
      BY <1>2 DEF Publishing, Pub
    <2>4. \A p \in People \ doubtful' : \A d, e \in Calls : Pub(d, p)' /\ Pub(e, p)' => d = e
      <3> SUFFICES ASSUME NEW p \in People \ doubtful', NEW d \in Calls, NEW e \in Calls,
                          Pub(d, p)', Pub(e, p)'
                   PROVE  d = e
        OBVIOUS
      <3>1. CASE p \in W
        BY <3>1, <2>2, <2>3
      <3>2. CASE p \notin W
        BY <3>2, <1>2, <2>2, Facts DEF RatingShape
      <3> QED
        BY <3>1, <3>2
    <2>5. \A p \in People \ doubtful' : \A d \in Calls : Pub(d, p)' => seen'[d][p] = Raters(p)'
      <3> SUFFICES ASSUME NEW p \in People \ doubtful', NEW d \in Calls, Pub(d, p)'
                   PROVE  seen'[d][p] = Raters(p)'
        OBVIOUS
      <3>1. CASE p \in W
        <4>1. d = c
          BY <3>1, <2>2, <2>3
        <4>2. seen[c][p] = Raters(p) \cup {r}
          BY <3>1, <1>1, <1>2, Facts DEF RatingShape
        <4> QED
          BY <3>1, <4>1, <4>2, <1>2, <1>4
      <3>2. CASE p \notin W
        BY <3>2, <1>2, <1>4, <2>2, Facts DEF RatingShape
      <3> QED
        BY <3>1, <3>2
    <2>9. \A p \in People : \A d \in Calls : Pub(d, p)' => seen'[d][p] \subseteq People
      <3>1. \A p \in W : seen[c][p] \subseteq People
        <4>1. \A p \in W : seen[c][p] = Raters(p) \cup {r}
          BY <1>1, <1>2, Facts DEF RatingShape
        <4> QED
          BY <4>1, <1>1 DEF Raters
      <3> QED
        BY <3>1, <1>2, <2>2, Facts DEF RatingShape
    <2>6. \A d \in Calls : pc'[d] = "stamped" =>
            /\ now'[d] \in left'[d] /\ at'[d] <= clock'[now'[d]]
            /\ now'[d] \notin doubtful' => shown'[now'[d]].at < at'[d]
      BY <1>2, <1>3, Facts DEF RatingShape, Same
    <2>7. \A p \in People : shown'[p].at <= clock'[p]
      BY <1>2, Facts DEF RatingShape
    <2>8. \A p \in People \ doubtful' : ~ Publishing(p)' => shown'[p].by = Raters(p)'
      <3> SUFFICES ASSUME NEW p \in People \ doubtful', ~ Publishing(p)'
                   PROVE  shown'[p].by = Raters(p)'
        OBVIOUS
      <3>1. \A d \in Calls : ~ Pub(d, p)'
        BY DEF Publishing, Pub
      <3>2. p \notin W /\ \A d \in Calls : ~ Pub(d, p)
        BY <3>1, <2>2
      <3>3. shown[p].by = Raters(p)
        BY <3>2, <1>2, Facts DEF RatingShape, RatingsCatchUp, Publishing, Pub
      <3> QED
        BY <3>2, <3>3, <1>2, <1>4
    <2> QED
      BY <2>1, <2>4, <2>5, <2>6, <2>7, <2>8, <2>9 DEF RatingShape, RatingsCatchUp
  <1>10. CountShape'
    BY <1>2, <1>3, CountFrame DEF Same
  <1> QED
    BY <1>6, <1>7, <1>8, <1>9, <1>10 DEF IInv

LEMMA StampInv ==
  ASSUME IInv, NEW c \in Calls, Stamp(c)
  PROVE  IInv'
  <1>1. PICK p \in People :
          /\ p \in left[c] /\ now' = [now EXCEPT ![c] = p]
          /\ clock' = [clock EXCEPT ![p] = clock[p] + 1]
          /\ at' = [at EXCEPT ![c] = clock[p] + 1]
    BY Facts DEF Stamp, CallTypes
  <1>2. /\ pc[c] = "publishing" /\ pc' = [pc EXCEPT ![c] = "stamped"]
        /\ UNCHANGED <<ratings, reviewed, ended, due, shown, total, rater, wanted, whole, got,
                       seen, job, left, doubtful, missed>>
    BY DEF Stamp, tables, caches, history
  <1>3. clock \in [People -> Nat] /\ clock[p] \in Nat /\ clock[p] + 1 \in Nat
    BY Facts DEF TableTypes
  <1>4. /\ CallTypes' /\ pc'[c] = "stamped" /\ now'[c] = p /\ at'[c] = clock[p] + 1
        /\ \A d \in Calls : d # c => Same(d)
    BY <1>1, <1>2, <1>3, Facts DEF CallTypes, Stages, Same
  <1>5. /\ clock' \in [People -> Nat] /\ clock'[p] = clock[p] + 1
        /\ \A q \in People : clock[q] <= clock'[q]
    BY <1>1, <1>3
  <1>6. TypeOK'
    BY <1>2, <1>4, <1>5, Facts DEF TypeOK, CallTypes, TableTypes
  <1>7. LockShape'
    BY <1>2, <1>4, Facts, LockFrame DEF LockShape, Same
  <1>8. ReviewShape'
    BY <1>2, <1>4, ReviewFrame
  <1>9. RatingShape'
    <2>1. \A d \in Calls, q \in People : Pub(d, q)' <=> Pub(d, q)
      BY <1>2, <1>4 DEF Pub, Same
    <2>2. \A d \in Calls : pc'[d] = "written" => pc[d] = "written"
      BY <1>4 DEF Same
    <2>3. \A d \in Calls : pc'[d] = "stamped" =>
            /\ now'[d] \in left'[d] /\ at'[d] <= clock'[now'[d]]
            /\ now'[d] \notin doubtful => shown[now'[d]].at < at'[d]
      <3> SUFFICES ASSUME NEW d \in Calls, pc'[d] = "stamped"
                   PROVE  /\ now'[d] \in left'[d] /\ at'[d] <= clock'[now'[d]]
                          /\ now'[d] \notin doubtful => shown[now'[d]].at < at'[d]
        OBVIOUS
      <3>1. CASE d = c
        <4>1. shown[p].at <= clock[p] /\ shown[p].at \in Nat
          BY Facts DEF RatingShape, TableTypes
        <4>2. shown[p].at < clock[p] + 1 /\ clock[p] + 1 <= clock[p] + 1
          BY <4>1, <1>3
        <4> QED
          BY <3>1, <4>2, <1>1, <1>2, <1>4, <1>5
      <3>2. CASE d # c
        <4>1. /\ pc[d] = "stamped" /\ now'[d] = now[d] /\ at'[d] = at[d] /\ left'[d] = left[d]
          BY <3>2, <1>4 DEF Same
        <4>2. /\ now[d] \in left[d] /\ at[d] <= clock[now[d]]
              /\ now[d] \notin doubtful => shown[now[d]].at < at[d]
          BY <4>1, Facts DEF RatingShape
        <4>3. now[d] \in People /\ at[d] \in Nat
          BY <4>2, Facts DEF CallTypes
        <4>4. at[d] <= clock'[now[d]]
          BY <4>2, <4>3, <1>3, <1>5
        <4> QED
          BY <4>1, <4>2, <4>4
      <3> QED
        BY <3>1, <3>2
    <2>4. \A q \in People : shown[q].at <= clock'[q]
      <3> SUFFICES ASSUME NEW q \in People PROVE shown[q].at <= clock'[q]
        OBVIOUS
      <3>1. shown[q].at <= clock[q] /\ shown[q].at \in Nat
        BY Facts DEF RatingShape, TableTypes
      <3> QED
        BY <3>1, <1>3, <1>5
    <2>5. \A q \in People : Raters(q)' = Raters(q) /\ (Publishing(q)' <=> Publishing(q))
      BY <1>2, <2>1 DEF Raters, Publishing, Pub
    <2>6. RatingsCatchUp'
      BY <1>2, <2>5, Facts DEF RatingShape, RatingsCatchUp
    <2> QED
      BY <1>2, <2>1, <2>2, <2>3, <2>4, <2>5, <2>6, Facts DEF RatingShape, Raters
  <1>10. CountShape'
    BY <1>2, <1>4, CountFrame DEF Same
  <1> QED
    BY <1>6, <1>7, <1>8, <1>9, <1>10 DEF IInv

LEMMA DeliverInv ==
  ASSUME IInv, NEW c \in Calls, Deliver(c)
  PROVE  IInv'
  <1>1. PICK p \in People : p = now[c] /\ p \in left[c] /\ at[c] <= clock[p]
                            /\ (p \notin doubtful => shown[p].at < at[c])
    BY Facts DEF Deliver, RatingShape, CallTypes
  <1>2. /\ pc[c] = "stamped" /\ pc' = [pc EXCEPT ![c] = "publishing"]
        /\ left' = [left EXCEPT ![c] = left[c] \ {p}]
        /\ now' = [now EXCEPT ![c] = NoOne] /\ at' = [at EXCEPT ![c] = 0]
        /\ UNCHANGED <<ratings, reviewed, ended, due, total, clock, rater, wanted, whole, got,
                       job, missed>>
    BY <1>1 DEF Deliver, tables
  <1>3. \/ /\ shown' = IF at[c] > shown[p].at
                         THEN [shown EXCEPT ![p] = [by |-> seen[c][p], at |-> at[c]]]
                         ELSE shown
           /\ doubtful' = doubtful
        \/ doubtful' = doubtful \cup {p} /\ shown' = shown
    BY <1>1 DEF Deliver, Show
  <1>4. PICK f \in [People -> SUBSET (People \cup Meetups)] :
          /\ seen' = [seen EXCEPT ![c] = f] /\ \A q \in People \ {p} : f[q] = seen[c][q]
    <2>1. seen' = [seen EXCEPT ![c] = [seen[c] EXCEPT ![p] = {}]]
      BY <1>1 DEF Deliver
    <2>2. seen[c] \in [People -> SUBSET (People \cup Meetups)]
      BY Facts DEF CallTypes
    <2>3. [seen[c] EXCEPT ![p] = {}] \in [People -> SUBSET (People \cup Meetups)]
      BY <2>2
    <2>4. \A q \in People \ {p} : [seen[c] EXCEPT ![p] = {}][q] = seen[c][q]
      BY <2>2
    <2> QED
      BY <2>1, <2>3, <2>4
  <1>5. /\ CallTypes' /\ pc'[c] = "publishing" /\ left'[c] = left[c] \ {p} /\ seen'[c] = f
        /\ \A d \in Calls : d # c => Same(d)
    BY <1>2, <1>4, Facts DEF CallTypes, Stages, Same
  <1>6. /\ shown \in [People -> [by : SUBSET People, at : Nat]]
        /\ clock \in [People -> Nat] /\ doubtful \subseteq People /\ at[c] \in Nat
        /\ clock[p] \in Nat /\ shown[p].at \in Nat
    BY Facts DEF CallTypes, TableTypes
  <1>7. /\ seen[c][p] \subseteq People
        /\ p \notin doubtful => seen[c][p] = Raters(p)
    BY <1>1, <1>2, Facts DEF RatingShape, Pub
  <1>8. /\ shown' \in [People -> [by : SUBSET People, at : Nat]]
        /\ doubtful \subseteq doubtful' /\ doubtful' \subseteq People
        /\ \A q \in People \ {p} : shown'[q] = shown[q]
        /\ shown'[p].at <= clock[p]
        /\ p \notin doubtful' => shown'[p].by = Raters(p)
    <2>1. CASE /\ shown' = IF at[c] > shown[p].at
                             THEN [shown EXCEPT ![p] = [by |-> seen[c][p], at |-> at[c]]]
                             ELSE shown
               /\ doubtful' = doubtful
      <3>1. CASE at[c] > shown[p].at
        <4>1. shown' = [shown EXCEPT ![p] = [by |-> seen[c][p], at |-> at[c]]]
          BY <2>1, <3>1
        <4> QED
          BY <4>1, <1>1, <1>6, <1>7, <2>1
      <3>2. CASE ~ (at[c] > shown[p].at)
        <4>1. p \in doubtful /\ shown' = shown
          BY <2>1, <3>2, <1>1, <1>6
        <4> QED
          BY <4>1, <1>6, <2>1, Facts DEF RatingShape
      <3> QED
        BY <3>1, <3>2
    <2>2. CASE doubtful' = doubtful \cup {p} /\ shown' = shown
      BY <2>2, <1>6, Facts DEF RatingShape
    <2> QED
      BY <1>3, <2>1, <2>2
  <1>9. TypeOK'
    BY <1>2, <1>5, <1>8, Facts DEF TypeOK, CallTypes, TableTypes
  <1>10. LockShape'
    BY <1>2, <1>5, Facts, LockFrame DEF LockShape, Same
  <1>11. ReviewShape'
    BY <1>2, <1>5, ReviewFrame
  <1>12. RatingShape'
    <2>1. \A q \in People : Raters(q)' = Raters(q)
      BY <1>2 DEF Raters
    <2>2. \A d \in Calls, q \in People :
            /\ d # c \/ q # p => (Pub(d, q)' <=> Pub(d, q))
            /\ ~ Pub(c, p)' /\ Pub(c, p)
      BY <1>1, <1>2, <1>5 DEF Pub, Same
    <2>3. \A d \in Calls, q \in People : Pub(d, q)' => seen'[d][q] = seen[d][q] /\ Pub(d, q)
      BY <1>4, <1>5, <2>2 DEF Same
    <2>4. \A d \in Calls : pc'[d] = "written" =>
            d # c /\ pc[d] = "written" /\ seen'[d] = seen[d] /\ wanted'[d] = wanted[d]
              /\ rater'[d] = rater[d]
      BY <1>5 DEF Same
    <2>5. \A d \in Calls : pc'[d] = "written" =>
            \A q \in wanted'[d] : seen'[d][q] = Raters(q)' \cup {rater'[d]}
      <3>1. \A d \in Calls : wanted[d] \subseteq People
        BY Facts DEF CallTypes
      <3> QED
        BY <2>1, <2>4, <3>1, Facts DEF RatingShape
    <2>6. \A q \in People \ doubtful' : \A d, e \in Calls : Pub(d, q)' /\ Pub(e, q)' => d = e
      BY <1>8, <2>3, Facts DEF RatingShape
    <2>7. \A q \in People \ doubtful' : \A d \in Calls : Pub(d, q)' => seen'[d][q] = Raters(q)'
      BY <1>8, <2>1, <2>3, Facts DEF RatingShape
    <2>8. \A q \in People : \A d \in Calls : Pub(d, q)' => seen'[d][q] \subseteq People
      BY <2>3, Facts DEF RatingShape
    <2>9. \A d \in Calls : pc'[d] = "stamped" =>
            /\ now'[d] \in left'[d] /\ at'[d] <= clock'[now'[d]]
            /\ now'[d] \notin doubtful' => shown'[now'[d]].at < at'[d]
      <3> SUFFICES ASSUME NEW d \in Calls, pc'[d] = "stamped"
                   PROVE  /\ now'[d] \in left'[d] /\ at'[d] <= clock'[now'[d]]
                          /\ now'[d] \notin doubtful' => shown'[now'[d]].at < at'[d]
        OBVIOUS
      <3>1. /\ d # c /\ pc[d] = "stamped" /\ now'[d] = now[d] /\ at'[d] = at[d]
            /\ left'[d] = left[d]
        BY <1>5 DEF Same
      <3>2. /\ now[d] \in left[d] /\ now[d] \in People /\ at[d] <= clock[now[d]]
            /\ now[d] \notin doubtful => shown[now[d]].at < at[d]
        BY <3>1, Facts DEF RatingShape, CallTypes
      <3>3. CASE now[d] = p
        <4>1. Pub(d, p) /\ Pub(c, p)
          BY <3>1, <3>2, <3>3, <2>2 DEF Pub
        <4>2. p \in doubtful
          BY <3>1, <4>1, Facts DEF RatingShape
        <4> QED
          BY <3>1, <3>2, <3>3, <4>2, <1>2, <1>8
      <3>4. CASE now[d] # p
        BY <3>1, <3>2, <3>4, <1>2, <1>8
      <3> QED
        BY <3>3, <3>4
    <2>10. \A q \in People : shown'[q].at <= clock'[q]
      BY <1>2, <1>8, Facts DEF RatingShape
    <2>11. \A q \in People \ doubtful' : ~ Publishing(q)' => shown'[q].by = Raters(q)'
      <3> SUFFICES ASSUME NEW q \in People \ doubtful', ~ Publishing(q)', q # p
                   PROVE  shown'[q].by = Raters(q)'
        BY <1>8, <2>1
      <3>1. \A d \in Calls : ~ Pub(d, q)
        BY <2>2 DEF Publishing, Pub
      <3> QED
        BY <3>1, <1>8, <2>1, Facts DEF RatingShape, RatingsCatchUp, Publishing, Pub
    <2> QED
      BY <2>5, <2>6, <2>7, <2>8, <2>9, <2>10, <2>11 DEF RatingShape, RatingsCatchUp
  <1>13. CountShape'
    BY <1>2, <1>5, CountFrame DEF Same
  <1> QED
    BY <1>9, <1>10, <1>11, <1>12, <1>13 DEF IInv

(* The number of meetups.                                                      *)
LEMMA CompleteInv ==
  ASSUME IInv, NEW m \in Meetups, Complete(m)
  PROVE  IInv'
  <1>1. /\ m \notin ended /\ ended' = ended \cup {m} /\ due' = due \cup {m}
        /\ UNCHANGED <<ratings, reviewed, shown, total, clock, pc, rater, wanted, whole, got, seen,
                       job, left, now, at, doubtful, missed>>
    BY DEF Complete, caches, call, history
  <1>2. CallTypes'
    BY <1>1, Facts DEF CallTypes
  <1>3. TypeOK'
    BY <1>1, <1>2, Facts DEF TypeOK, CallTypes, TableTypes
  <1>4. LockShape' /\ ReviewShape'
    BY <1>1, <1>2, LockFrame, ReviewFrame
  <1>5. RatingShape'
    BY <1>1, Facts, RatingFrame DEF RatingShape
  <1>6. CountShape'
    <2>1. \A p \in People :
            /\ Over(p) \subseteq Over(p)'
            /\ p \notin Attends[m] => Over(p)' = Over(p)
      BY <1>1 DEF Over
    <2>2. \A p \in People :
            /\ Cardinality(Over(p)) \in Nat /\ Cardinality(Over(p)') \in Nat
            /\ Cardinality(Over(p)) <= Cardinality(Over(p)')
      <3>1. \A p \in People : Over(p)' \subseteq Meetups
        BY <1>1, Facts DEF Over, TableTypes
      <3> QED
        BY <2>1, <3>1, Counting
    <2>3. \A c \in Calls : pc[c] = "counted" =>
            job[c] \in ended' /\ \A p \in People : seen[c][p] \subseteq Over(p)'
      BY <1>1, <2>1, Facts DEF CountShape
    <2>4. \A p \in People : total[p] <= Cardinality(Over(p)')
      BY <2>2, Facts DEF CountShape, TableTypes
    <2>5. \A p \in People \ missed : total[p] = Cardinality(Over(p)') \/ Owed(p)'
      <3> SUFFICES ASSUME NEW p \in People \ missed
                   PROVE  total[p] = Cardinality(Over(p)') \/ Owed(p)'
        OBVIOUS
      <3>1. CASE p \in Attends[m]
        <4>1. \A c \in Calls : pc[c] = "counted" => job[c] # m
          BY <1>1, Facts DEF CountShape
        <4> QED
          BY <3>1, <4>1, <1>1 DEF Owed
      <3>2. CASE p \notin Attends[m]
        <4>1. Over(p)' = Over(p)
          BY <3>2, <2>1
        <4>2. Owed(p) => Owed(p)'
          BY <4>1, <1>1 DEF Owed
        <4> QED
          BY <4>1, <4>2, Facts DEF CountShape
      <3> QED
        BY <3>1, <3>2
    <2> QED
      BY <1>1, <2>3, <2>4, <2>5 DEF CountShape
  <1> QED
    BY <1>3, <1>4, <1>5, <1>6 DEF IInv

LEMMA RecountInv ==
  ASSUME IInv, NEW c \in Calls, NEW m \in Meetups, Recount(c, m)
  PROVE  IInv'
  <1> DEFINE f == [p \in People |-> {n \in ended : p \in Attends[n]}]
  <1>1. /\ pc[c] = "idle" /\ m \in due /\ pc' = [pc EXCEPT ![c] = "counted"]
        /\ job' = [job EXCEPT ![c] = m] /\ left' = [left EXCEPT ![c] = Attends[m]]
        /\ seen' = [seen EXCEPT ![c] = f]
        /\ UNCHANGED <<ratings, reviewed, ended, due, shown, total, clock, rater, wanted, whole,
                       got, now, at, doubtful, missed>>
    BY DEF Recount, tables, caches, history
  <1>2. /\ f \in [People -> SUBSET (People \cup Meetups)]
        /\ \A p \in People : f[p] = Over(p)
    BY Facts DEF TableTypes, Over
  <1> HIDE DEF f
  <1>3. m \in ended /\ Attends[m] \subseteq People
    BY <1>1, Facts DEF TableTypes
  <1>4. /\ CallTypes' /\ pc'[c] = "counted" /\ job'[c] = m /\ left'[c] = Attends[m]
        /\ seen'[c] = f /\ \A d \in Calls : d # c => Same(d)
    BY <1>1, <1>2, <1>3, Facts DEF CallTypes, Stages, Same
  <1>5. TypeOK'
    BY <1>1, <1>4, Facts DEF TypeOK, CallTypes, TableTypes
  <1>6. LockShape'
    BY <1>1, <1>4, Facts, LockFrame DEF LockShape, Same
  <1>7. ReviewShape'
    BY <1>1, <1>4, ReviewFrame
  <1>8. RatingShape'
    <2>1. \A d \in Calls : pc'[d] = "written" =>
            \A p \in wanted'[d] : seen'[d][p] = Raters(p) \cup {rater'[d]}
      BY <1>4, Facts DEF RatingShape, Same
    <2> QED
      BY <1>1, <1>4, <2>1, RatingFrame DEF Same
  <1>9. CountShape'
    <2>1. \A p \in People : Over(p)' = Over(p)
      BY <1>1 DEF Over
    <2>2. \A d \in Calls : pc'[d] = "counted" =>
            job'[d] \in ended /\ \A p \in People : seen'[d][p] \subseteq Over(p)
      BY <1>2, <1>3, <1>4, Facts DEF CountShape, Same
    <2>3. \A p \in People : Owed(p) => Owed(p)'
      <3> SUFFICES ASSUME NEW p \in People, Owed(p) PROVE Owed(p)'
        OBVIOUS
      <3>1. PICK n \in due :
              /\ p \in Attends[n]
              /\ \A d \in Calls : pc[d] = "counted" /\ job[d] = n =>
                   p \in left[d] /\ seen[d][p] = Over(p)
        BY DEF Owed
      <3>2. \A d \in Calls : pc'[d] = "counted" /\ job'[d] = n =>
              p \in left'[d] /\ seen'[d][p] = Over(p)
        BY <3>1, <1>2, <1>4 DEF Same
      <3> QED
        BY <3>1, <3>2, <1>1, <2>1 DEF Owed
    <2>4. /\ \A p \in People : total[p] <= Cardinality(Over(p))
          /\ \A p \in People \ missed : total[p] = Cardinality(Over(p)) \/ Owed(p)'
      BY <2>3, Facts DEF CountShape
    <2> QED
      BY <1>1, <2>1, <2>2, <2>4 DEF CountShape
  <1> QED
    BY <1>5, <1>6, <1>7, <1>8, <1>9 DEF IInv

LEMMA ApplyInv ==
  ASSUME IInv, NEW c \in Calls, Apply(c)
  PROVE  IInv'
  <1>1. PICK p \in People :
          /\ p \in left[c] /\ left' = [left EXCEPT ![c] = left[c] \ {p}]
          /\ seen' = [seen EXCEPT ![c] = [seen[c] EXCEPT ![p] = {}]]
          /\ \/ Raise(p, Cardinality(seen[c][p])) /\ UNCHANGED missed
             \/ missed' = missed \cup {p} /\ UNCHANGED total
    BY Facts DEF Apply, CallTypes
  <1>2. /\ pc[c] = "counted"
        /\ UNCHANGED <<ratings, reviewed, ended, due, shown, clock, pc, rater, wanted, whole, got,
                       job, now, at, doubtful>>
    BY DEF Apply, tables
  <1>3. PICK f \in [People -> SUBSET (People \cup Meetups)] :
          /\ seen' = [seen EXCEPT ![c] = f] /\ \A q \in People \ {p} : f[q] = seen[c][q]
          /\ f[p] = {}
    <2>1. seen[c] \in [People -> SUBSET (People \cup Meetups)]
      BY Facts DEF CallTypes
    <2>2. [seen[c] EXCEPT ![p] = {}] \in [People -> SUBSET (People \cup Meetups)]
      BY <2>1
    <2>3. \A q \in People \ {p} : [seen[c] EXCEPT ![p] = {}][q] = seen[c][q]
      BY <2>1
    <2>4. [seen[c] EXCEPT ![p] = {}][p] = {}
      BY <2>1
    <2> QED
      BY <1>1, <2>2, <2>3, <2>4
  <1>4. /\ CallTypes' /\ left'[c] = left[c] \ {p} /\ seen'[c] = f /\ pc'[c] = "counted"
        /\ \A d \in Calls : d # c => Same(d)
    BY <1>1, <1>2, <1>3, Facts DEF CallTypes, Same
  <1>5. \A q \in People : Over(q)' = Over(q) /\ Cardinality(Over(q)) \in Nat
    BY <1>2, Facts, Counting DEF Over, TableTypes
  <1>6. seen[c][p] \subseteq Over(p) /\ Over(p) \subseteq Meetups
    BY <1>2, Facts DEF CountShape, Over, TableTypes
  <1>7. PICK n \in Nat : n = Cardinality(seen[c][p]) /\ n <= Cardinality(Over(p))
    BY <1>6, Counting
  <1>8. /\ total \in [People -> Nat] /\ total[p] <= Cardinality(Over(p))
        /\ missed \subseteq People
    BY Facts DEF TableTypes, CountShape
  <1>9. /\ total' \in [People -> Nat] /\ missed \subseteq missed' /\ missed' \subseteq People
        /\ \A q \in People \ {p} : total'[q] = total[q]
        /\ total'[p] <= Cardinality(Over(p))
        /\ p \notin missed' /\ n = Cardinality(Over(p)) => total'[p] = n
        /\ total[p] = Cardinality(Over(p)) => total'[p] = total[p]
    <2>1. CASE Raise(p, n) /\ missed' = missed
      <3>1. CASE n > total[p]
        <4>1. total' = [total EXCEPT ![p] = n]
          BY <2>1, <3>1 DEF Raise
        <4> QED
          BY <2>1, <3>1, <4>1, <1>5, <1>7, <1>8
      <3>2. CASE ~ (n > total[p])
        <4>1. total' = total
          BY <2>1, <3>2 DEF Raise
        <4> QED
          BY <2>1, <3>2, <4>1, <1>5, <1>7, <1>8
      <3> QED
        BY <3>1, <3>2
    <2>2. CASE missed' = missed \cup {p} /\ total' = total
      BY <2>2, <1>8
    <2> QED
      BY <1>1, <1>7, <2>1, <2>2
  <1>10. TypeOK'
    BY <1>2, <1>4, <1>9, Facts DEF TypeOK, CallTypes, TableTypes
  <1>11. LockShape' /\ ReviewShape'
    BY <1>2, <1>4, LockFrame, ReviewFrame
  <1>12. RatingShape'
    <2>1. \A d \in Calls : pc'[d] = "written" =>
            \A q \in wanted'[d] : seen'[d][q] = Raters(q) \cup {rater'[d]}
      <3>1. \A d \in Calls : pc'[d] = "written" => d # c
        BY <1>4
      <3> QED
        BY <3>1, <1>4, Facts DEF RatingShape, Same
    <2> QED
      BY <1>2, <1>4, <2>1, RatingFrame DEF Same
  <1>13. CountShape'
    <2>1. \A d \in Calls : pc'[d] = "counted" =>
            job'[d] \in ended /\ \A q \in People : seen'[d][q] \subseteq Over(q)
      <3>1. \A q \in People : seen'[c][q] \subseteq Over(q)
        BY <1>2, <1>3, <1>4, Facts DEF CountShape
      <3> QED
        BY <3>1, <1>2, <1>4, Facts DEF CountShape, Same
    <2>2. \A q \in People : total'[q] <= Cardinality(Over(q))
      BY <1>9, Facts DEF CountShape
    <2>3. \A q \in People \ missed' : total'[q] = Cardinality(Over(q)) \/ Owed(q)'
      <3> SUFFICES ASSUME NEW q \in People \ missed', total[q] # Cardinality(Over(q)),
                          total'[q] # Cardinality(Over(q))
                   PROVE  Owed(q)'
        BY <1>9
      <3>1. PICK m \in due :
              /\ q \in Attends[m]
              /\ \A d \in Calls : pc[d] = "counted" /\ job[d] = m =>
                   q \in left[d] /\ seen[d][q] = Over(q)
        BY <1>9, Facts DEF CountShape, Owed
      <3>2. job[c] = m => q # p
        BY <3>1, <1>2, <1>7, <1>9
      <3>3. \A d \in Calls : pc'[d] = "counted" /\ job'[d] = m =>
              q \in left'[d] /\ seen'[d][q] = Over(q)
        BY <3>1, <3>2, <1>2, <1>3, <1>4 DEF Same
      <3> QED
        BY <3>1, <3>3, <1>2, <1>5 DEF Owed
    <2> QED
      BY <1>2, <1>5, <2>1, <2>2, <2>3 DEF CountShape
  <1> QED
    BY <1>10, <1>11, <1>12, <1>13 DEF IInv

LEMMA SettleInv ==
  ASSUME IInv, NEW c \in Calls, Settle(c)
  PROVE  IInv'
  <1>1. /\ pc[c] = "counted" /\ left[c] = {} /\ due' \in {due, due \ {job[c]}} /\ Return(c)
        /\ UNCHANGED <<ratings, reviewed, ended, shown, total, clock, doubtful, missed>>
    BY DEF Settle, caches, history
  <1>2. /\ CallTypes' /\ \A d \in Calls : d # c => Same(d)
        /\ pc'[c] = "idle" /\ wanted'[c] = {} /\ got'[c] = {} /\ whole'[c] = FALSE
    BY <1>1, ReturnFacts
  <1>3. TypeOK'
    BY <1>1, <1>2, Facts DEF TypeOK, CallTypes, TableTypes
  <1>4. LockShape'
    BY <1>2, LockFrame DEF Same
  <1>5. ReviewShape'
    BY <1>1, <1>2, ReviewFrame DEF Same
  <1>6. RatingShape'
    <2>1. \A d \in Calls : pc'[d] = "written" =>
            \A p \in wanted'[d] : seen'[d][p] = Raters(p) \cup {rater'[d]}
      BY <1>2, Facts DEF RatingShape, Same
    <2> QED
      BY <1>1, <1>2, <2>1, RatingFrame DEF Same
  <1>7. CountShape'
    <2>1. \A p \in People : Over(p)' = Over(p)
      BY <1>1 DEF Over
    <2>2. \A d \in Calls : pc'[d] = "counted" =>
            job'[d] \in ended /\ \A p \in People : seen'[d][p] \subseteq Over(p)
      BY <1>2, Facts DEF CountShape, Same
    <2>3. \A p \in People : Owed(p) => Owed(p)'
      <3> SUFFICES ASSUME NEW p \in People, Owed(p) PROVE Owed(p)'
        OBVIOUS
      <3>1. PICK m \in due :
              /\ p \in Attends[m]
              /\ \A d \in Calls : pc[d] = "counted" /\ job[d] = m =>
                   p \in left[d] /\ seen[d][p] = Over(p)
        BY DEF Owed
      <3>2. job[c] # m /\ m \in due'
        BY <3>1, <1>1
      <3>3. \A d \in Calls : pc'[d] = "counted" /\ job'[d] = m =>
              p \in left'[d] /\ seen'[d][p] = Over(p)
        BY <3>1, <1>2 DEF Same
      <3> QED
        BY <3>1, <3>2, <3>3, <2>1 DEF Owed
    <2>4. /\ \A p \in People : total[p] <= Cardinality(Over(p))
          /\ \A p \in People \ missed : total[p] = Cardinality(Over(p)) \/ Owed(p)'
      BY <2>3, Facts DEF CountShape
    <2> QED
      BY <1>1, <2>1, <2>2, <2>4 DEF CountShape
  <1> QED
    BY <1>3, <1>4, <1>5, <1>6, <1>7 DEF IInv

LEMMA NextInv == IInv /\ [Next]_vars => IInv'
  <1> SUFFICES ASSUME IInv, [Next]_vars PROVE IInv'
    OBVIOUS
  <1>1. ASSUME NEW c \in Calls, NEW r \in Reviewers, StartReview(c, r) PROVE IInv'
    <2>1. r \in People
      BY ReputationAssumption
    <2> QED
      BY <1>1, <2>1, StartInv DEF StartReview
  <1>2. ASSUME NEW c \in Calls, NEW r \in Reviewers, NEW p \in People, StartRating(c, r, p)
        PROVE  IInv'
    <2>1. r \in People
      BY ReputationAssumption
    <2> QED
      BY <1>2, <2>1, StartInv DEF StartRating
  <1>3. ASSUME NEW c \in Calls, NEW m \in Meetups, Recount(c, m) PROVE IInv'
    BY <1>3, RecountInv
  <1>4. ASSUME NEW m \in Meetups, Complete(m) PROVE IInv'
    BY <1>4, CompleteInv
  <1>5. ASSUME NEW c \in Calls, CallStep(c) PROVE IInv'
    BY <1>5, TakeLockInv, WriteInv, CommitInv, StampInv, DeliverInv, LeaveInv, ApplyInv, SettleInv
    DEF CallStep
  <1>6. CASE UNCHANGED vars
    <2>1. /\ UNCHANGED <<ratings, reviewed, ended, due, shown, total, clock, pc, rater, wanted,
                         whole, got, seen, job, left, now, at, doubtful, missed>>
      BY <1>6 DEF vars, tables, caches, call, history
    <2>2. CallTypes'
      BY <2>1, Facts DEF CallTypes
    <2>3. TypeOK'
      BY <2>1, <2>2, Facts DEF TypeOK, CallTypes, TableTypes
    <2>4. LockShape' /\ ReviewShape' /\ CountShape'
      BY <2>1, <2>2, LockFrame, ReviewFrame, CountFrame
    <2>5. RatingShape'
      BY <2>1, Facts, RatingFrame DEF RatingShape
    <2> QED
      BY <2>3, <2>4, <2>5 DEF IInv
  <1> QED
    BY <1>1, <1>2, <1>3, <1>4, <1>5, <1>6 DEF Next

THEOREM Invariance == Spec => []IInv
  <1> QED
    BY InitInv, NextInv, PTL DEF Spec

(* Every variable keeps its type.                                              *)
THEOREM TypesHold == Spec => []TypeOK
  <1>1. IInv => TypeOK
    BY DEF IInv
  <1> QED
    BY <1>1, Invariance, PTL

(* A completed review has rated everybody: what its rater had not rated when   *)
(* it began is inserted by the transaction that completes it (SubmitReview).   *)
THEOREM ReviewsAreWhole == Spec => []ReviewIsWhole
  <1>1. IInv => ReviewIsWhole
    BY DEF IInv, ReviewShape
  <1> QED
    BY <1>1, Invariance, PTL

(* Profiles show every committed rating and every completed meetup once things *)
(* are quiet: under the advisory lock the last to commit knows all ratings, and*)
(* of the deliveries of a person's meetups the last one counts all of them     *)
(* (LockUserRatingAggregate, RecomputeForMeetups).                             *)
THEOREM ProfilesAreTrue == Spec => []ProfilesCatchUp
  <1>1. IInv => RatingsCatchUp
    BY DEF IInv, RatingShape
  <1>2. IInv => TalliesCatchUp
    <2> SUFFICES ASSUME IInv, NEW p \in People
                 PROVE  /\ total[p] <= Completed(p)
                        /\ p \notin missed /\ (\A m \in due : p \notin Attends[m]) =>
                             total[p] = Completed(p)
      BY DEF TalliesCatchUp
    <2>1. Completed(p) = Cardinality(Over(p))
      BY DEF Completed, Over
    <2> QED
      BY <2>1, Facts DEF CountShape, Owed
  <1>3. IInv => ProfilesCatchUp
    BY <1>1, <1>2 DEF ProfilesCatchUp
  <1> QED
    BY <1>3, Invariance, PTL

----------------------------------------------------------------------------
(* Of some people one has the highest id.                                      *)
LEMMA Highest ==
  ASSUME NEW X \in SUBSET People, X # {}
  PROVE  \E p \in X : \A q \in X : ~ (p < q)
  <1> DEFINE A(p) == {q \in People : p < q}
             T == {A(p) : p \in X}
  <1>1. /\ People \subseteq Nat /\ IsFiniteSet(People)
    BY ReputationAssumption
  <1>2. \A p \in X : A(p) \in FiniteSubsetsOf(People)
    BY <1>1, FS_Subset DEF FiniteSubsetsOf
  <1>3. T \subseteq FiniteSubsetsOf(People) /\ T # {}
    BY <1>2
  <1>4. PICK t \in T : \A u \in T : ~ (<<u, t>> \in StrictSubsetOrdering(People))
    <2>1. IsWellFoundedOn(StrictSubsetOrdering(People), FiniteSubsetsOf(People))
      BY FS_StrictSubsetOrderingWellFounded
    <2> HIDE DEF T
    <2> QED
      BY <1>3, <2>1, WFMin
  <1>5. PICK p \in X : t = A(p)
    OBVIOUS
  <1>6. ASSUME NEW q \in X, p < q PROVE FALSE
    <2>1. A(q) \subseteq A(p) /\ q \in A(p) /\ q \notin A(q)
      <3>1. p \in Nat /\ q \in Nat /\ q \in People /\ ~ (q < q)
        BY <1>1
      <3>2. \A x \in People : x \in Nat /\ (q < x => p < x)
        BY <3>1, <1>1, <1>6
      <3> QED
        BY <3>1, <3>2, <1>6
    <2>2. A(q) \in SUBSET People /\ A(p) \in SUBSET People /\ A(q) # A(p)
      BY <2>1
    <2>3. <<A(q), A(p)>> \in StrictSubsetOrdering(People)
      BY <2>1, <2>2 DEF StrictSubsetOrdering
    <2> QED
      BY <1>4, <1>5, <2>3
  <1> QED
    BY <1>6

(* Calls that wait for each other in a circle rate two people of one hash:     *)
(* locks are taken upwards, so without a collision whoever waits for the       *)
(* highest of the ids waited for waits for a call that waits for nobody        *)
(* (SubmitReview).                                                             *)
THEOREM OnlyCollisionsStandOff == Spec => []StandoffNeedsCollision
  <1>1. IInv => StandoffNeedsCollision
    <2> SUFFICES ASSUME IInv, NEW W \in SUBSET Calls, W # {},
                        \A c \in W : \E d \in W : WaitsFor(c, d),
                        ~ Collide(W)
                 PROVE  FALSE
      BY DEF StandoffNeedsCollision, Standoff
    <2> DEFINE X == {p \in People : \E c \in W : pc[c] = "locking" /\ p \in Lockable(c)}
    <2>1. \A c \in W : /\ pc[c] = "locking" /\ wanted[c] \subseteq People
                       /\ \E p \in People : p \in Lockable(c)
      BY Facts DEF WaitsFor, Lockable, CallTypes
    <2>2. X # {}
      <3>1. PICK c \in W : TRUE
        OBVIOUS
      <3>2. PICK p \in People : p \in Lockable(c)
        BY <2>1
      <3>3. p \in X
        BY <2>1, <3>2
      <3> QED
        BY <3>3
    <2>3. ASSUME NEW p \in X PROVE \E q \in X : p < q
      <3>1. PICK c \in W : pc[c] = "locking" /\ p \in Lockable(c)
        OBVIOUS
      <3>2. PICK d \in W : \E x \in Lockable(c) : Holds(d, x)
        BY <3>1 DEF WaitsFor
      <3>3. PICK x \in Lockable(c) : Holds(d, x)
        BY <3>2
      <3>4. x = p
        <4>1. x \in Nat /\ p \in Nat /\ x <= p /\ p <= x
          BY <2>1, <3>1, <3>3, Facts DEF Lockable
        <4> QED
          BY <4>1
      <3>5. p \in got[d]
        <4>1. PICK g \in got[d] : LockKey[g] = LockKey[p]
          BY <3>3, <3>4 DEF Holds
        <4>2. g \in wanted[d] /\ p \in wanted[c]
          BY <3>1, <4>1, Facts DEF LockShape, Lockable
        <4> QED
          BY <4>1, <4>2 DEF Collide
      <3>6. PICK q \in People : q \in Lockable(d)
        BY <2>1
      <3>7. p < q
        BY <3>5, <3>6, Facts DEF Lockable, LockShape
      <3> QED
        BY <2>1, <3>6, <3>7
    <2> HIDE DEF X
    <2>4. X \in SUBSET People
      BY DEF X
    <2> QED
      BY <2>2, <2>3, <2>4, Highest
  <1> QED
    BY <1>1, Invariance, PTL
=============================================================================
