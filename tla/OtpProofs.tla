----------------------------- MODULE OtpProofs -----------------------------
(* Proofs about Otp for any people, calls, caps and number of attempts.        *)
EXTENDS Otp, FiniteSetTheorems, TLAPS

(* The pending code is the newest, and its row counts its comparisons.         *)
Counted ==
  /\ row # NoRow => row.code = issued /\ row.attempts = compared
  /\ compared <= MaxAttempts

(* An accepted code was sent, and is not pending any more.                     *)
Spent ==
  \A n \in Codes :
    /\ accepted[n] <= 1
    /\ accepted[n] # 0 => n <= issued /\ (row # NoRow => row.code # n)

Seen == [code : Codes, attempts : 0 .. MaxAttempts]

(* A call that has read the row, and what it means to clear.                   *)
Holding == {"compare", "clear", "consume"}

MayClear(c) ==
  \/ read[c].code < row.code
  \/ row.age = "expired"
  \/ read[c].attempts = MaxAttempts /\ guess[c] # row.code

(* What a call has read of the row, and why it may clear it.                   *)
Reads ==
  \A c \in Calls :
    /\ pc[c] \in Holding => read[c] \in Seen /\ read[c].code <= issued
    /\ pc[c] \in Holding /\ row # NoRow /\ read[c].code = row.code =>
         read[c].attempts <= row.attempts
    /\ pc[c] = "clear" /\ row # NoRow => MayClear(c)

(* No two calls have the same attempt at a code that has not expired.          *)
Distinct ==
  \A c, d \in Calls :
    /\ c # d /\ pc[c] \in Holding /\ pc[d] \in Holding
    /\ row # NoRow /\ row.age # "expired"
    /\ read[c].code = row.code /\ read[d].code = row.code
    => read[c].attempts # read[d].attempts

Asked == \A c \in Calls : pc[c] # "idle" => who[c] \in Requesters

(* Calls that have taken of the budget of k and not used or returned it.       *)
HasSend(c, k) ==
  \/ k = who[c] /\ pc[c] \in {"sendTarget", "store"}
  \/ k = Target /\ pc[c] = "store"

HasGuess(c, k) ==
  \/ k = who[c] /\ pc[c] \in {"guessTarget", "claim", "compare", "consume", "refund"}
  \/ k = Target /\ pc[c] \in {"claim", "compare", "consume", "refund", "refundTarget"}

Senders(k) == {c \in Calls : HasSend(c, k)}
Guessers(k) == {c \in Calls : HasGuess(c, k)}

(* What was used is covered by what was taken, counting what calls still have, *)
(* except for what was taken before midnight.                                  *)
Charged ==
  \A k \in Keys :
    /\ sends[k] <= SendCap[k] /\ guesses[k] <= GuessCap[k]
    /\ stored[k] + Cardinality(Senders(k)) <= sends[k] + crossed[k]
    /\ wrong[k] + Cardinality(Guessers(k)) <= guesses[k] + crossed[k]

IInv ==
  /\ TypeOK
  /\ Counted
  /\ Spent
  /\ Reads
  /\ Distinct
  /\ Asked
  /\ Charged

----------------------------------------------------------------------------
LEMMA Constants ==
  /\ Target \in Keys /\ Target \notin Requesters /\ Requesters \subseteq Keys
  /\ IsFiniteSet(Calls) /\ NoRow \notin Pending
  /\ MaxAttempts \in Nat /\ MaxAttempts # 0 /\ MaxCodes \in Nat /\ MaxDays \in Nat
  /\ Codes \subseteq Nat
  /\ \A k \in Keys : /\ SendCap[k] \in Nat /\ GuessCap[k] \in Nat /\ Before[k] \in Nat
                     /\ Before[k] <= SendCap[k] /\ Before[k] <= GuessCap[k]
  BY OtpAssumption DEF Keys, Codes

(* Counting calls when one of them joins or leaves.                            *)
LEMMA Counting ==
  ASSUME NEW S, NEW T, NEW c, S \subseteq Calls, T \subseteq Calls, c \in Calls
  PROVE  /\ Cardinality(S) \in Nat /\ Cardinality(T) \in Nat
         /\ T \subseteq S => Cardinality(T) <= Cardinality(S)
         /\ T \subseteq S \cup {c} => Cardinality(T) <= Cardinality(S) + 1
         /\ c \in S /\ T \subseteq S \ {c} => Cardinality(T) + 1 <= Cardinality(S)
  <1>1. IsFiniteSet(S) /\ IsFiniteSet(T)
    BY Constants, FS_Subset
  <1>2. Cardinality(S) \in Nat /\ Cardinality(T) \in Nat
    BY <1>1, FS_CardinalityType
  <1>3. T \subseteq S => Cardinality(T) <= Cardinality(S)
    BY <1>1, FS_Subset
  <1>4. T \subseteq S \cup {c} => Cardinality(T) <= Cardinality(S) + 1
    <2>1. /\ IsFiniteSet(S \cup {c})
          /\ Cardinality(S \cup {c}) = IF c \in S THEN Cardinality(S) ELSE Cardinality(S) + 1
      BY <1>1, FS_AddElement
    <2>2. T \subseteq S \cup {c} => Cardinality(T) <= Cardinality(S \cup {c})
      BY <2>1, FS_Subset
    <2> QED
      BY <1>2, <2>1, <2>2
  <1>5. c \in S /\ T \subseteq S \ {c} => Cardinality(T) + 1 <= Cardinality(S)
    <2>1. /\ IsFiniteSet(S \ {c})
          /\ Cardinality(S \ {c}) = IF c \in S THEN Cardinality(S) - 1 ELSE Cardinality(S)
      BY <1>1, FS_RemoveElement
    <2>2. T \subseteq S \ {c} => Cardinality(T) <= Cardinality(S \ {c})
      BY <2>1, FS_Subset
    <2> QED
      BY <1>2, <2>1, <2>2
  <1> QED
    BY <1>2, <1>3, <1>4, <1>5

LEMMA InitInv == Init => IInv
  <1> SUFFICES ASSUME Init PROVE IInv
    OBVIOUS
  <1>1. TypeOK
    BY Constants, OtpAssumption
       DEF Init, TypeOK, Places, Zero, Codes, Keys
  <1>2. Counted /\ Spent /\ Reads /\ Distinct /\ Asked
    BY Constants DEF Init, Counted, Spent, Reads, Holding, Distinct, Asked
  <1>3. Charged
    <2>1. \A k \in Keys : Senders(k) = {} /\ Guessers(k) = {}
      BY DEF Init, Senders, Guessers, HasSend, HasGuess
    <2>2. Cardinality({}) = 0
      BY FS_EmptySet
    <2> QED
      BY <2>1, <2>2, Constants DEF Init, Charged, Zero
  <1> QED
    BY <1>1, <1>2, <1>3 DEF IInv

----------------------------------------------------------------------------
(* The other calls stay where they are.                                        *)
Others(c) ==
  \A d \in Calls : d # c =>
    /\ pc'[d] = pc[d] /\ who'[d] = who[d]
    /\ guess'[d] = guess[d] /\ read'[d] = read[d]

CallTypes ==
  /\ pc \in [Calls -> Places] /\ who \in [Calls -> Keys]
  /\ guess \in [Calls -> 0 .. MaxCodes]
  /\ read \in [Calls -> Seen \cup {NoRow}]

LEMMA Moves ==
  ASSUME TypeOK, NEW c \in Calls
  PROVE  /\ CallTypes
         /\ Return(c) => CallTypes' /\ Others(c) /\ pc'[c] = "idle"
         /\ \A w \in Places : Goto(c, w) =>
              /\ CallTypes' /\ Others(c) /\ pc'[c] = w
              /\ UNCHANGED <<who, guess, read>>
  <1>1. CallTypes
    BY DEF TypeOK, CallTypes, Seen
  <1>2. Target \in Keys /\ 0 \in 0 .. MaxCodes /\ "idle" \in Places
    BY Constants DEF Places
  <1> QED
    BY <1>1, <1>2 DEF CallTypes, Return, Goto, Others

(* What a step keeps when the row, the codes and their history stay.           *)
LEMMA QuietInv ==
  ASSUME IInv, NEW c \in Calls, Others(c), CallTypes',
         UNCHANGED <<row, issued, compared, accepted>>,
         pc'[c] \in Holding =>
           /\ read'[c] \in Seen /\ read'[c].code <= issued
           /\ \/ pc[c] \in Holding /\ read'[c] = read[c]
              \/ row # NoRow /\ row.age = "expired" /\ read'[c].attempts = row.attempts
           /\ pc'[c] = "clear" /\ row # NoRow => MayClear(c)',
         pc'[c] # "idle" => who'[c] \in Requesters,
         sends' \in [Keys -> Nat], guesses' \in [Keys -> Nat], day' \in 0 .. MaxDays,
         wrong' \in [Keys -> Nat], stored' \in [Keys -> Nat], crossed' \in [Keys -> Nat]
  PROVE  TypeOK' /\ Counted' /\ Spent' /\ Reads' /\ Distinct' /\ Asked'
  <1>1. TypeOK'
    BY DEF IInv, TypeOK, CallTypes, Seen
  <1>2. Counted' /\ Spent'
    BY DEF IInv, Counted, Spent
  <1>3. Reads'
    <2> SUFFICES ASSUME NEW d \in Calls
                 PROVE  /\ pc'[d] \in Holding => read'[d] \in Seen /\ read'[d].code <= issued
                        /\ pc'[d] \in Holding /\ row # NoRow /\ read'[d].code = row.code =>
                             read'[d].attempts <= row.attempts
                        /\ pc'[d] = "clear" /\ row # NoRow => MayClear(d)'
      BY DEF Reads
    <2>0. row # NoRow => row.attempts \in Nat
      BY Constants DEF IInv, TypeOK, Pending
    <2>1. CASE d = c
      <3>1. pc'[c] \in Holding /\ row # NoRow /\ read'[c].code = row.code =>
              read'[c].attempts <= row.attempts
        <4>1. CASE pc[c] \in Holding /\ read'[c] = read[c]
          BY <4>1 DEF IInv, Reads
        <4>2. CASE row # NoRow /\ read'[c].attempts = row.attempts
          BY <2>0, <4>2
        <4> QED
          BY <4>1, <4>2
      <3>2. /\ pc'[c] \in Holding => read'[c] \in Seen /\ read'[c].code <= issued
            /\ pc'[c] = "clear" /\ row # NoRow => MayClear(c)'
        BY DEF Holding
      <3> QED
        BY <2>1, <3>1, <3>2 DEF MayClear
    <2>2. CASE d # c
      BY <2>2 DEF IInv, Reads, Others, MayClear
    <2> QED
      BY <2>1, <2>2
  <1>4. Distinct'
    <2> SUFFICES ASSUME NEW d \in Calls, NEW e \in Calls, d # e,
                        pc'[d] \in Holding, pc'[e] \in Holding,
                        row # NoRow, row.age # "expired",
                        read'[d].code = row.code, read'[e].code = row.code
                 PROVE  read'[d].attempts # read'[e].attempts
      BY DEF Distinct
    <2>1. \A x \in {d, e} : pc[x] \in Holding /\ read'[x] = read[x]
      BY DEF Others
    <2> QED
      BY <2>1 DEF IInv, Distinct
  <1>5. Asked'
    BY DEF IInv, Asked, Others
  <1> QED
    BY <1>1, <1>2, <1>3, <1>4, <1>5

(* A call that takes nothing more leaves the budgets covered.                  *)
LEMMA UnchargedInv ==
  ASSUME Charged, NEW c \in Calls, Others(c),
         UNCHANGED <<sends, guesses, wrong, stored, crossed>>,
         sends \in [Keys -> Nat], guesses \in [Keys -> Nat],
         wrong \in [Keys -> Nat], stored \in [Keys -> Nat], crossed \in [Keys -> Nat],
         \A k \in Keys : /\ HasSend(c, k)' => HasSend(c, k)
                         /\ HasGuess(c, k)' => HasGuess(c, k)
  PROVE  Charged'
  <1> SUFFICES ASSUME NEW k \in Keys
               PROVE  /\ sends[k] <= SendCap[k] /\ guesses[k] <= GuessCap[k]
                      /\ stored[k] + Cardinality(Senders(k)') <= sends[k] + crossed[k]
                      /\ wrong[k] + Cardinality(Guessers(k)') <= guesses[k] + crossed[k]
    BY DEF Charged
  <1>1. Senders(k)' \subseteq Senders(k) /\ Guessers(k)' \subseteq Guessers(k)
    BY DEF Senders, Guessers, HasSend, HasGuess, Others
  <1>2. Senders(k) \subseteq Calls /\ Guessers(k) \subseteq Calls
    BY DEF Senders, Guessers
  <1>3. /\ Cardinality(Senders(k)') <= Cardinality(Senders(k))
        /\ Cardinality(Guessers(k)') <= Cardinality(Guessers(k))
        /\ Cardinality(Senders(k)) \in Nat /\ Cardinality(Guessers(k)) \in Nat
        /\ Cardinality(Senders(k)') \in Nat /\ Cardinality(Guessers(k)') \in Nat
    BY <1>1, <1>2, Counting
  <1> QED
    BY <1>3 DEF Charged

(* One more is taken of a budget of codes, and the call has it.                 *)
LEMMA SendTaken ==
  ASSUME Charged, NEW c \in Calls, NEW k \in Keys, Others(c),
         sends[k] < SendCap[k], sends' = [sends EXCEPT ![k] = @ + 1],
         UNCHANGED <<guesses, wrong, stored, crossed>>,
         sends \in [Keys -> Nat], guesses \in [Keys -> Nat],
         wrong \in [Keys -> Nat], stored \in [Keys -> Nat], crossed \in [Keys -> Nat],
         \A j \in Keys : /\ HasGuess(c, j)' => HasGuess(c, j)
                         /\ j # k /\ HasSend(c, j)' => HasSend(c, j)
  PROVE  Charged' /\ sends' \in [Keys -> Nat]
  <1>0. /\ sends' \in [Keys -> Nat] /\ sends'[k] = sends[k] + 1 /\ sends'[k] <= SendCap[k]
        /\ \A j \in Keys : j # k => sends'[j] = sends[j]
    BY Constants
  <1> SUFFICES ASSUME NEW j \in Keys
               PROVE  /\ sends'[j] <= SendCap[j] /\ guesses'[j] <= GuessCap[j]
                      /\ stored[j] + Cardinality(Senders(j)') <= sends'[j] + crossed[j]
                      /\ wrong[j] + Cardinality(Guessers(j)') <= guesses'[j] + crossed[j]
    BY <1>0 DEF Charged
  <1>1. /\ Senders(j)' \subseteq Senders(j) \cup {c} /\ Guessers(j)' \subseteq Guessers(j) \cup {c}
        /\ Guessers(j)' \subseteq Guessers(j)
        /\ j # k => Senders(j)' \subseteq Senders(j)
    BY DEF Senders, Guessers, HasSend, HasGuess, Others
  <1>2. /\ Senders(j) \subseteq Calls /\ Guessers(j) \subseteq Calls
        /\ Senders(j)' \subseteq Calls /\ Guessers(j)' \subseteq Calls
    BY DEF Senders, Guessers
  <1>3. /\ Cardinality(Senders(j)) \in Nat /\ Cardinality(Guessers(j)) \in Nat
        /\ Cardinality(Senders(j)') \in Nat /\ Cardinality(Guessers(j)') \in Nat
        /\ Cardinality(Guessers(j)') <= Cardinality(Guessers(j))
        /\ Cardinality(Senders(j)') <= Cardinality(Senders(j)) + 1
        /\ j # k => Cardinality(Senders(j)') <= Cardinality(Senders(j))
    BY <1>1, <1>2, Counting
  <1>4. /\ sends[j] <= SendCap[j] /\ guesses[j] <= GuessCap[j]
        /\ stored[j] + Cardinality(Senders(j)) <= sends[j] + crossed[j]
        /\ wrong[j] + Cardinality(Guessers(j)) <= guesses[j] + crossed[j]
    BY DEF Charged
  <1>5. CASE j = k
    BY <1>0, <1>3, <1>4, <1>5
  <1>6. CASE j # k
    BY <1>0, <1>3, <1>4, <1>6
  <1> QED
    BY <1>5, <1>6

(* One more is taken of a budget of guesses, and the call has it.               *)
LEMMA GuessTaken ==
  ASSUME Charged, NEW c \in Calls, NEW k \in Keys, Others(c),
         guesses[k] < GuessCap[k], guesses' = [guesses EXCEPT ![k] = @ + 1],
         UNCHANGED <<sends, wrong, stored, crossed>>,
         sends \in [Keys -> Nat], guesses \in [Keys -> Nat],
         wrong \in [Keys -> Nat], stored \in [Keys -> Nat], crossed \in [Keys -> Nat],
         \A j \in Keys : /\ HasSend(c, j)' => HasSend(c, j)
                         /\ j # k /\ HasGuess(c, j)' => HasGuess(c, j)
  PROVE  Charged' /\ guesses' \in [Keys -> Nat]
  <1>0. /\ guesses' \in [Keys -> Nat] /\ guesses'[k] = guesses[k] + 1 /\ guesses'[k] <= GuessCap[k]
        /\ \A j \in Keys : j # k => guesses'[j] = guesses[j]
    BY Constants
  <1> SUFFICES ASSUME NEW j \in Keys
               PROVE  /\ sends'[j] <= SendCap[j] /\ guesses'[j] <= GuessCap[j]
                      /\ stored[j] + Cardinality(Senders(j)') <= sends'[j] + crossed[j]
                      /\ wrong[j] + Cardinality(Guessers(j)') <= guesses'[j] + crossed[j]
    BY <1>0 DEF Charged
  <1>1. /\ Senders(j)' \subseteq Senders(j) \cup {c} /\ Guessers(j)' \subseteq Guessers(j) \cup {c}
        /\ Senders(j)' \subseteq Senders(j)
        /\ j # k => Guessers(j)' \subseteq Guessers(j)
    BY DEF Senders, Guessers, HasSend, HasGuess, Others
  <1>2. /\ Senders(j) \subseteq Calls /\ Guessers(j) \subseteq Calls
        /\ Senders(j)' \subseteq Calls /\ Guessers(j)' \subseteq Calls
    BY DEF Senders, Guessers
  <1>3. /\ Cardinality(Senders(j)) \in Nat /\ Cardinality(Guessers(j)) \in Nat
        /\ Cardinality(Senders(j)') \in Nat /\ Cardinality(Guessers(j)') \in Nat
        /\ Cardinality(Senders(j)') <= Cardinality(Senders(j))
        /\ Cardinality(Guessers(j)') <= Cardinality(Guessers(j)) + 1
        /\ j # k => Cardinality(Guessers(j)') <= Cardinality(Guessers(j))
    BY <1>1, <1>2, Counting
  <1>4. /\ sends[j] <= SendCap[j] /\ guesses[j] <= GuessCap[j]
        /\ stored[j] + Cardinality(Senders(j)) <= sends[j] + crossed[j]
        /\ wrong[j] + Cardinality(Guessers(j)) <= guesses[j] + crossed[j]
    BY DEF Charged
  <1>5. CASE j = k
    BY <1>0, <1>3, <1>4, <1>5
  <1>6. CASE j # k
    BY <1>0, <1>3, <1>4, <1>6
  <1> QED
    BY <1>5, <1>6

(* A code is stored: the call uses what it had of both budgets.                 *)
LEMMA SendUsed ==
  ASSUME Charged, NEW c \in Calls, Others(c), who[c] \in Keys,
         stored' = Bump(stored, KeysOf(c)), UNCHANGED <<sends, guesses, wrong, crossed>>,
         sends \in [Keys -> Nat], guesses \in [Keys -> Nat],
         wrong \in [Keys -> Nat], stored \in [Keys -> Nat], crossed \in [Keys -> Nat],
         \A j \in Keys : /\ HasGuess(c, j)' => HasGuess(c, j)
                         /\ ~ HasSend(c, j)'
                         /\ j \in KeysOf(c) => HasSend(c, j)
  PROVE  Charged' /\ stored' \in [Keys -> Nat]
  <1>0. /\ stored' \in [Keys -> Nat]
        /\ \A j \in Keys : stored'[j] = IF j \in KeysOf(c) THEN stored[j] + 1 ELSE stored[j]
    BY DEF Bump
  <1> SUFFICES ASSUME NEW j \in Keys
               PROVE  /\ sends[j] <= SendCap[j] /\ guesses[j] <= GuessCap[j]
                      /\ stored'[j] + Cardinality(Senders(j)') <= sends[j] + crossed[j]
                      /\ wrong'[j] + Cardinality(Guessers(j)') <= guesses[j] + crossed[j]
    BY <1>0 DEF Charged
  <1>1. /\ Guessers(j)' \subseteq Guessers(j) /\ Senders(j)' \subseteq Senders(j) \ {c}
        /\ j \in KeysOf(c) => c \in Senders(j)
    BY DEF Senders, Guessers, HasSend, HasGuess, Others
  <1>2. /\ Senders(j) \subseteq Calls /\ Guessers(j) \subseteq Calls
        /\ Senders(j)' \subseteq Calls /\ Guessers(j)' \subseteq Calls
    BY DEF Senders, Guessers
  <1>3. /\ Cardinality(Senders(j)) \in Nat /\ Cardinality(Guessers(j)) \in Nat
        /\ Cardinality(Senders(j)') \in Nat /\ Cardinality(Guessers(j)') \in Nat
        /\ Cardinality(Guessers(j)') <= Cardinality(Guessers(j))
        /\ Cardinality(Senders(j)') <= Cardinality(Senders(j))
        /\ j \in KeysOf(c) => Cardinality(Senders(j)') + 1 <= Cardinality(Senders(j))
    BY <1>1, <1>2, Counting
  <1>4. /\ sends[j] <= SendCap[j] /\ guesses[j] <= GuessCap[j]
        /\ stored[j] + Cardinality(Senders(j)) <= sends[j] + crossed[j]
        /\ wrong[j] + Cardinality(Guessers(j)) <= guesses[j] + crossed[j]
    BY DEF Charged
  <1>5. CASE j \in KeysOf(c)
    BY <1>0, <1>3, <1>4, <1>5
  <1>6. CASE j \notin KeysOf(c)
    BY <1>0, <1>3, <1>4, <1>6
  <1> QED
    BY <1>5, <1>6

(* A wrong guess: the call uses what it had of both budgets.                    *)
LEMMA GuessUsed ==
  ASSUME Charged, NEW c \in Calls, Others(c), who[c] \in Keys,
         wrong' = Bump(wrong, KeysOf(c)), UNCHANGED <<sends, guesses, stored, crossed>>,
         sends \in [Keys -> Nat], guesses \in [Keys -> Nat],
         wrong \in [Keys -> Nat], stored \in [Keys -> Nat], crossed \in [Keys -> Nat],
         \A j \in Keys : /\ HasSend(c, j)' => HasSend(c, j)
                         /\ ~ HasGuess(c, j)'
                         /\ j \in KeysOf(c) => HasGuess(c, j)
  PROVE  Charged' /\ wrong' \in [Keys -> Nat]
  <1>0. /\ wrong' \in [Keys -> Nat]
        /\ \A j \in Keys : wrong'[j] = IF j \in KeysOf(c) THEN wrong[j] + 1 ELSE wrong[j]
    BY DEF Bump
  <1> SUFFICES ASSUME NEW j \in Keys
               PROVE  /\ sends[j] <= SendCap[j] /\ guesses[j] <= GuessCap[j]
                      /\ stored'[j] + Cardinality(Senders(j)') <= sends[j] + crossed[j]
                      /\ wrong'[j] + Cardinality(Guessers(j)') <= guesses[j] + crossed[j]
    BY <1>0 DEF Charged
  <1>1. /\ Senders(j)' \subseteq Senders(j) /\ Guessers(j)' \subseteq Guessers(j) \ {c}
        /\ j \in KeysOf(c) => c \in Guessers(j)
    BY DEF Senders, Guessers, HasSend, HasGuess, Others
  <1>2. /\ Senders(j) \subseteq Calls /\ Guessers(j) \subseteq Calls
        /\ Senders(j)' \subseteq Calls /\ Guessers(j)' \subseteq Calls
    BY DEF Senders, Guessers
  <1>3. /\ Cardinality(Senders(j)) \in Nat /\ Cardinality(Guessers(j)) \in Nat
        /\ Cardinality(Senders(j)') \in Nat /\ Cardinality(Guessers(j)') \in Nat
        /\ Cardinality(Senders(j)') <= Cardinality(Senders(j))
        /\ Cardinality(Guessers(j)') <= Cardinality(Guessers(j))
        /\ j \in KeysOf(c) => Cardinality(Guessers(j)') + 1 <= Cardinality(Guessers(j))
    BY <1>1, <1>2, Counting
  <1>4. /\ sends[j] <= SendCap[j] /\ guesses[j] <= GuessCap[j]
        /\ stored[j] + Cardinality(Senders(j)) <= sends[j] + crossed[j]
        /\ wrong[j] + Cardinality(Guessers(j)) <= guesses[j] + crossed[j]
    BY DEF Charged
  <1>5. CASE j \in KeysOf(c)
    BY <1>0, <1>3, <1>4, <1>5
  <1>6. CASE j \notin KeysOf(c)
    BY <1>0, <1>3, <1>4, <1>6
  <1> QED
    BY <1>5, <1>6

(* A guess is handed back by a call that had it.                               *)
LEMMA GuessReturned ==
  ASSUME Charged, NEW c \in Calls, NEW k \in Keys, Others(c),
         guesses' = [guesses EXCEPT ![k] = IF @ > 0 THEN @ - 1 ELSE 0],
         UNCHANGED <<sends, wrong, stored, crossed>>,
         sends \in [Keys -> Nat], guesses \in [Keys -> Nat],
         wrong \in [Keys -> Nat], stored \in [Keys -> Nat], crossed \in [Keys -> Nat],
         HasGuess(c, k), ~ HasGuess(c, k)',
         \A j \in Keys : /\ HasSend(c, j)' => HasSend(c, j)
                         /\ HasGuess(c, j)' => HasGuess(c, j)
  PROVE  Charged' /\ guesses' \in [Keys -> Nat]
  <1>0. /\ guesses' \in [Keys -> Nat] /\ guesses'[k] <= guesses[k]
        /\ guesses[k] <= guesses'[k] + 1
        /\ \A j \in Keys : j # k => guesses'[j] = guesses[j]
    BY Constants
  <1> SUFFICES ASSUME NEW j \in Keys
               PROVE  /\ sends[j] <= SendCap[j] /\ guesses'[j] <= GuessCap[j]
                      /\ stored[j] + Cardinality(Senders(j)') <= sends[j] + crossed[j]
                      /\ wrong[j] + Cardinality(Guessers(j)') <= guesses'[j] + crossed[j]
    BY <1>0 DEF Charged
  <1>1. /\ Senders(j)' \subseteq Senders(j) /\ Guessers(j)' \subseteq Guessers(j)
        /\ j = k => c \in Guessers(j) /\ Guessers(j)' \subseteq Guessers(j) \ {c}
    BY DEF Senders, Guessers, HasSend, HasGuess, Others
  <1>2. /\ Senders(j) \subseteq Calls /\ Guessers(j) \subseteq Calls
        /\ Senders(j)' \subseteq Calls /\ Guessers(j)' \subseteq Calls
    BY DEF Senders, Guessers
  <1>3. /\ Cardinality(Senders(j)) \in Nat /\ Cardinality(Guessers(j)) \in Nat
        /\ Cardinality(Senders(j)') \in Nat /\ Cardinality(Guessers(j)') \in Nat
        /\ Cardinality(Senders(j)') <= Cardinality(Senders(j))
        /\ Cardinality(Guessers(j)') <= Cardinality(Guessers(j))
        /\ j = k => Cardinality(Guessers(j)') + 1 <= Cardinality(Guessers(j))
    BY <1>1, <1>2, Counting
  <1>4. /\ sends[j] <= SendCap[j] /\ guesses[j] <= GuessCap[j]
        /\ stored[j] + Cardinality(Senders(j)) <= sends[j] + crossed[j]
        /\ wrong[j] + Cardinality(Guessers(j)) <= guesses[j] + crossed[j]
    BY DEF Charged
  <1>5. CASE j = k
    BY <1>0, <1>3, <1>4, <1>5, Constants
  <1>6. CASE j # k
    BY <1>0, <1>3, <1>4, <1>6
  <1> QED
    BY <1>5, <1>6

----------------------------------------------------------------------------
LEMMA Facts ==
  ASSUME IInv, NEW c \in Calls
  PROVE  /\ TypeOK /\ CallTypes /\ Counted /\ Spent /\ Reads /\ Distinct /\ Asked /\ Charged
         /\ issued \in Nat /\ issued <= MaxCodes
         /\ sends \in [Keys -> Nat] /\ guesses \in [Keys -> Nat] /\ day \in 0 .. MaxDays
         /\ wrong \in [Keys -> Nat] /\ stored \in [Keys -> Nat] /\ crossed \in [Keys -> Nat]
         /\ who[c] \in Keys /\ pc[c] \in Places
         /\ pc[c] # "idle" => who[c] \in Requesters /\ who[c] # Target
         /\ row # NoRow => row \in Pending /\ row.code \in Nat /\ row.attempts \in Nat
                           /\ row.age \in Ages
  <1>1. TypeOK /\ Counted /\ Spent /\ Reads /\ Distinct /\ Asked /\ Charged
    BY DEF IInv
  <1>2. CallTypes
    BY <1>1 DEF TypeOK, CallTypes, Seen
  <1>3. row # NoRow => row \in Pending /\ row.code \in Nat /\ row.attempts \in Nat
                       /\ row.age \in Ages
    <2> SUFFICES ASSUME row # NoRow
                 PROVE  row \in Pending /\ row.code \in Nat /\ row.attempts \in Nat
                        /\ row.age \in Ages
      OBVIOUS
    <2>1. row \in Pending
      BY <1>1 DEF TypeOK
    <2>2. row.code \in Codes /\ row.attempts \in 0 .. MaxAttempts /\ row.age \in Ages
      BY <2>1 DEF Pending
    <2>3. row.attempts \in Nat
      BY <2>2
    <2>4. row.code \in Nat
      BY <2>2, Constants
    <2> QED
      BY <2>1, <2>2, <2>3, <2>4
  <1> QED
    BY <1>1, <1>2, <1>3, Constants DEF TypeOK, CallTypes, Asked, Places

(* A call begins.                                                              *)
LEMMA BeginInv ==
  ASSUME IInv, NEW c \in Calls, NEW r \in Requesters,
         Start(c, r) \/ \E n \in 0 .. issued : Guess(c, r, n)
  PROVE  IInv'
  <1>1. PICK w \in {"send", "guess"} :
          /\ pc' = [pc EXCEPT ![c] = w] /\ who' = [who EXCEPT ![c] = r]
          /\ guess' \in [Calls -> 0 .. MaxCodes]
          /\ \A d \in Calls : d # c => guess'[d] = guess[d]
          /\ UNCHANGED <<row, issued, budgets, read, history>>
    <2>1. guess \in [Calls -> 0 .. MaxCodes] /\ 0 .. issued \subseteq 0 .. MaxCodes
      BY Facts, Constants DEF CallTypes
    <2>2. CASE Start(c, r)
      BY <2>1, <2>2 DEF Start
    <2>3. CASE \E n \in 0 .. issued : Guess(c, r, n)
      BY <2>1, <2>3 DEF Guess
    <2> QED
      BY <2>2, <2>3
  <1>2. /\ CallTypes' /\ Others(c) /\ pc'[c] = w /\ who'[c] = r
        /\ UNCHANGED <<row, issued, compared, accepted>>
        /\ UNCHANGED <<sends, guesses, day, wrong, stored, crossed>>
    <2>1. w \in Places /\ r \in Keys
      BY Constants DEF Places
    <2> QED
      BY <1>1, <2>1, Facts DEF CallTypes, Others, budgets, history
  <1>3. TypeOK' /\ Counted' /\ Spent' /\ Reads' /\ Distinct' /\ Asked'
    BY <1>2, Facts, QuietInv DEF Holding
  <1>4. Charged'
    BY <1>2, Facts, UnchargedInv DEF HasSend, HasGuess
  <1> QED
    BY <1>3, <1>4 DEF IInv

LEMMA TakeSendsInv ==
  ASSUME IInv, NEW c \in Calls, TakeSends(c)
  PROVE  IInv'
  <1>1. PICK k \in Keys, here \in {"send", "sendTarget"}, next \in {"sendTarget", "store"} :
          /\ TakeSend(c, here, k, next)
          /\ \/ here = "send" /\ k = who[c] /\ next = "sendTarget"
             \/ here = "sendTarget" /\ k = Target /\ next = "store"
    BY Facts, Constants DEF TakeSends
  <1>2. /\ pc[c] = here /\ pc[c] # "idle" /\ next \in Places
        /\ UNCHANGED <<row, issued, guesses, day, compared, accepted, wrong, stored, crossed>>
    BY <1>1 DEF TakeSend, history, Places
  <1>3. CASE sends[k] < SendCap[k]
    <2>1. sends' = [sends EXCEPT ![k] = @ + 1] /\ Goto(c, next)
      BY <1>1, <1>3 DEF TakeSend
    <2>2. CallTypes' /\ Others(c) /\ pc'[c] = next /\ UNCHANGED <<who, read>>
      BY <1>2, <2>1, Facts, Moves
    <2>3. Charged' /\ sends' \in [Keys -> Nat]
      BY <1>1, <1>2, <1>3, <2>1, <2>2, Facts, SendTaken DEF HasSend, HasGuess
    <2>4. TypeOK' /\ Counted' /\ Spent' /\ Reads' /\ Distinct' /\ Asked'
      BY <1>1, <1>2, <2>2, <2>3, Facts, QuietInv DEF Holding
    <2> QED
      BY <2>3, <2>4 DEF IInv
  <1>4. CASE ~ (sends[k] < SendCap[k])
    <2>1. Return(c) /\ UNCHANGED sends
      BY <1>1, <1>4 DEF TakeSend
    <2>2. CallTypes' /\ Others(c) /\ pc'[c] = "idle"
      BY <2>1, Facts, Moves
    <2>3. Charged'
      BY <1>2, <2>1, <2>2, Facts, UnchargedInv DEF HasSend, HasGuess
    <2>4. TypeOK' /\ Counted' /\ Spent' /\ Reads' /\ Distinct' /\ Asked'
      BY <1>2, <2>1, <2>2, Facts, QuietInv DEF Holding
    <2> QED
      BY <2>3, <2>4 DEF IInv
  <1> QED
    BY <1>3, <1>4

LEMMA TakeGuessesInv ==
  ASSUME IInv, NEW c \in Calls, TakeGuesses(c)
  PROVE  IInv'
  <1>1. PICK k \in Keys, here \in {"guess", "guessTarget"}, next \in {"guessTarget", "claim"} :
          /\ TakeGuess(c, here, k, next)
          /\ \/ here = "guess" /\ k = who[c] /\ next = "guessTarget"
             \/ here = "guessTarget" /\ k = Target /\ next = "claim"
    BY Facts, Constants DEF TakeGuesses
  <1>2. /\ pc[c] = here /\ pc[c] # "idle" /\ next \in Places
        /\ UNCHANGED <<row, issued, sends, day, compared, accepted, wrong, stored, crossed>>
    BY <1>1 DEF TakeGuess, history, Places
  <1>3. CASE guesses[k] < GuessCap[k]
    <2>1. guesses' = [guesses EXCEPT ![k] = @ + 1] /\ Goto(c, next)
      BY <1>1, <1>3 DEF TakeGuess
    <2>2. CallTypes' /\ Others(c) /\ pc'[c] = next /\ UNCHANGED <<who, read>>
      BY <1>2, <2>1, Facts, Moves
    <2>3. Charged' /\ guesses' \in [Keys -> Nat]
      BY <1>1, <1>2, <1>3, <2>1, <2>2, Facts, GuessTaken DEF HasSend, HasGuess
    <2>4. TypeOK' /\ Counted' /\ Spent' /\ Reads' /\ Distinct' /\ Asked'
      BY <1>1, <1>2, <2>2, <2>3, Facts, QuietInv DEF Holding
    <2> QED
      BY <2>3, <2>4 DEF IInv
  <1>4. CASE ~ (guesses[k] < GuessCap[k])
    <2>1. Return(c) /\ UNCHANGED guesses
      BY <1>1, <1>4 DEF TakeGuess
    <2>2. CallTypes' /\ Others(c) /\ pc'[c] = "idle"
      BY <2>1, Facts, Moves
    <2>3. Charged'
      BY <1>2, <2>1, <2>2, Facts, UnchargedInv DEF HasSend, HasGuess
    <2>4. TypeOK' /\ Counted' /\ Spent' /\ Reads' /\ Distinct' /\ Asked'
      BY <1>2, <2>1, <2>2, Facts, QuietInv DEF Holding
    <2> QED
      BY <2>3, <2>4 DEF IInv
  <1> QED
    BY <1>3, <1>4

(* A call that explains, fails or ends without a guess in hand.                *)
LEMMA EndInv ==
  ASSUME IInv, NEW c \in Calls, Explain(c) \/ Fail(c)
  PROVE  IInv'
  <1>1. /\ UNCHANGED <<row, issued, sends, guesses, day, compared, accepted,
                       wrong, stored, crossed>>
        /\ pc[c] # "idle"
    BY DEF Explain, Fail, budgets, history
  <1>2. CASE Return(c)
    <2>1. CallTypes' /\ Others(c) /\ pc'[c] = "idle"
      BY <1>2, Facts, Moves
    <2> QED
      BY <1>1, <2>1, Facts, QuietInv, UnchargedInv DEF Holding, HasSend, HasGuess, IInv
  <1>3. CASE ~ Return(c)
    <2>1. /\ row # NoRow /\ row.age = "expired"
          /\ pc' = [pc EXCEPT ![c] = "clear"] /\ read' = [read EXCEPT ![c] = Copy(row)]
          /\ UNCHANGED <<who, guess>>
      BY <1>3 DEF Explain, Fail
    <2>2. Copy(row) \in Seen /\ Copy(row).code = row.code /\ row.code = issued
      BY <2>1, Facts DEF Copy, Seen, Pending, Counted
    <2>3. CallTypes' /\ Others(c) /\ pc'[c] = "clear" /\ read'[c] = Copy(row)
      <3>1. "clear" \in Places
        BY DEF Places
      <3> QED
        BY <2>1, <2>2, <3>1, Facts DEF CallTypes, Others
    <2>4. read'[c].attempts = row.attempts /\ MayClear(c)'
      BY <1>1, <2>1, <2>3 DEF Copy, MayClear
    <2>5. TypeOK' /\ Counted' /\ Spent' /\ Reads' /\ Distinct' /\ Asked'
      BY <1>1, <2>1, <2>2, <2>3, <2>4, Facts, QuietInv DEF Holding
    <2>6. Charged'
      BY <1>1, <2>1, <2>3, Facts, UnchargedInv DEF HasSend, HasGuess
    <2> QED
      BY <2>5, <2>6 DEF IInv
  <1> QED
    BY <1>2, <1>3

LEMMA ClearInv ==
  ASSUME IInv, NEW c \in Calls, Clear(c)
  PROVE  IInv'
  <1>1. /\ row' = NoRow /\ Return(c) /\ pc[c] = "clear"
        /\ UNCHANGED <<issued, sends, guesses, day, compared, accepted,
                       wrong, stored, crossed>>
    BY DEF Clear, budgets, history
  <1>2. CallTypes' /\ Others(c) /\ pc'[c] = "idle"
    BY <1>1, Facts, Moves
  <1>3. TypeOK'
    BY <1>1, <1>2, Facts DEF TypeOK, CallTypes, Seen
  <1>4. Counted' /\ Spent'
    BY <1>1, Facts DEF Counted, Spent
  <1>5. Reads' /\ Distinct' /\ Asked'
    BY <1>1, <1>2, Facts DEF Reads, Distinct, Holding, Asked, Others
  <1>6. Charged'
    BY <1>1, <1>2, Facts, UnchargedInv DEF HasSend, HasGuess
  <1> QED
    BY <1>3, <1>4, <1>5, <1>6 DEF IInv

LEMMA ConsumeInv ==
  ASSUME IInv, NEW c \in Calls, Consume(c)
  PROVE  IInv'
  <1>1. /\ pc[c] = "consume" /\ pc[c] # "idle"
        /\ UNCHANGED <<issued, sends, guesses, day, compared, wrong, stored, crossed>>
    BY DEF Consume, budgets
  <1>2. CASE ~ Consumable(c)
    <2>1. Return(c) /\ UNCHANGED <<row, accepted>>
      BY <1>2 DEF Consume
    <2>2. CallTypes' /\ Others(c) /\ pc'[c] = "idle"
      BY <2>1, Facts, Moves
    <2> QED
      BY <1>1, <2>1, <2>2, Facts, QuietInv, UnchargedInv DEF Holding, HasSend, HasGuess, IInv
  <1>3. CASE Consumable(c)
    <2> DEFINE n == read[c].code
    <2>1. /\ row' = NoRow /\ accepted' = [accepted EXCEPT ![n] = @ + 1]
          /\ Goto(c, "refund") /\ row # NoRow /\ row.code = n
      BY <1>3 DEF Consume, Consumable
    <2>2. /\ CallTypes' /\ Others(c) /\ pc'[c] = "refund"
          /\ UNCHANGED <<who, guess, read>>
      BY <2>1, Facts, Moves DEF Places
    <2>3. /\ n \in Codes /\ n = issued /\ accepted \in [Codes -> Nat] /\ accepted[n] = 0
      <3>1. n \in Codes
        BY <1>1, Facts DEF Reads, Holding, Seen
      <3>2. accepted \in [Codes -> Nat]
        BY Facts DEF TypeOK
      <3> QED
        BY <2>1, <3>1, <3>2, Facts DEF Counted, Spent
    <2>4. /\ accepted' \in [Codes -> Nat] /\ accepted'[n] = 1
          /\ \A m \in Codes : m # n => accepted'[m] = accepted[m]
      BY <2>1, <2>3
    <2>5. TypeOK'
      BY <1>1, <2>1, <2>2, <2>4, Facts DEF TypeOK, CallTypes, Seen
    <2>6. Counted' /\ Spent'
      BY <1>1, <2>1, <2>3, <2>4, Facts DEF Counted, Spent
    <2>7. Reads' /\ Distinct' /\ Asked'
      BY <1>1, <2>1, <2>2, Facts DEF Reads, Distinct, Holding, Asked, Others
    <2>8. Charged'
      BY <1>1, <2>2, Facts, UnchargedInv DEF HasSend, HasGuess
    <2> QED
      BY <2>5, <2>6, <2>7, <2>8 DEF IInv
  <1> QED
    BY <1>2, <1>3

LEMMA ClaimInv ==
  ASSUME IInv, NEW c \in Calls, Claim(c)
  PROVE  IInv'
  <1>1. /\ pc[c] = "claim" /\ pc[c] # "idle"
        /\ UNCHANGED <<issued, sends, guesses, day, who, guess, accepted,
                       wrong, stored, crossed>>
    BY DEF Claim, budgets
  <1>2. CASE ~ Claimable
    <2>1. pc' = [pc EXCEPT ![c] = "explain"] /\ UNCHANGED <<row, compared, read>>
      BY <1>2 DEF Claim
    <2>2. CallTypes' /\ Others(c) /\ pc'[c] = "explain" /\ "explain" \in Places
      BY <1>1, <2>1, Facts DEF CallTypes, Others, Places
    <2> QED
      BY <1>1, <2>1, <2>2, Facts, QuietInv, UnchargedInv DEF Holding, HasSend, HasGuess, IInv
  <1>3. CASE Claimable
    <2>1. /\ row # NoRow /\ row.age # "expired" /\ row.attempts < MaxAttempts
          /\ row' = [row EXCEPT !.attempts = @ + 1] /\ compared' = compared + 1
          /\ pc' = [pc EXCEPT ![c] = "compare"] /\ read' = [read EXCEPT ![c] = Copy(row')]
      BY <1>3 DEF Claim, Claimable
    <2>2. /\ row \in Pending /\ row.code \in Codes /\ row.attempts \in Nat
          /\ row.code = issued /\ row.attempts = compared
      BY <2>1, Facts DEF Pending, Counted
    <2>3. /\ row' \in Pending /\ row' # NoRow /\ row'.code = row.code /\ row'.age = row.age
          /\ row'.attempts = row.attempts + 1 /\ row'.attempts <= MaxAttempts
      BY <2>1, <2>2, Constants DEF Pending
    <2>4. /\ Copy(row') \in Seen /\ Copy(row').code = issued
          /\ Copy(row').attempts = row.attempts + 1
      BY <2>2, <2>3, Constants DEF Copy, Seen
    <2>5. /\ CallTypes' /\ Others(c) /\ pc'[c] = "compare" /\ read'[c] = Copy(row')
      <3>1. "compare" \in Places
        BY DEF Places
      <3> QED
        BY <1>1, <2>1, <2>4, <3>1, Facts DEF CallTypes, Others
    <2>6. TypeOK'
      BY <1>1, <2>1, <2>2, <2>3, <2>5, Facts DEF TypeOK, CallTypes, Seen
    <2>7. Counted' /\ Spent'
      BY <1>1, <2>1, <2>2, <2>3, Facts DEF Counted, Spent
    <2>8. \A d \in Calls : d # c =>
            /\ pc'[d] = pc[d] /\ read'[d] = read[d] /\ guess'[d] = guess[d]
            /\ pc[d] \in Holding => read[d].attempts \in Nat
            /\ pc[d] \in Holding /\ read[d].code = row.code =>
                 read[d].attempts <= row.attempts
      BY <2>1, <2>5, Constants, Facts DEF Others, Reads, Seen
    <2>9. Reads'
      <3> SUFFICES ASSUME NEW d \in Calls
                   PROVE  /\ pc'[d] \in Holding => read'[d] \in Seen /\ read'[d].code <= issued
                          /\ pc'[d] \in Holding /\ read'[d].code = row.code =>
                               read'[d].attempts <= row'.attempts
                          /\ pc'[d] = "clear" => MayClear(d)'
        BY <1>1, <2>3 DEF Reads
      <3>1. CASE d = c
        BY <3>1, <2>2, <2>3, <2>4, <2>5, Facts
      <3>2. CASE d # c
        BY <3>2, <2>1, <2>2, <2>3, <2>8, Facts DEF Reads, MayClear
      <3> QED
        BY <3>1, <3>2
    <2>10. Distinct'
      <3> SUFFICES ASSUME NEW d \in Calls, NEW e \in Calls, d # e,
                          pc'[d] \in Holding, pc'[e] \in Holding,
                          read'[d].code = row.code, read'[e].code = row.code
                   PROVE  read'[d].attempts # read'[e].attempts
        BY <2>3 DEF Distinct
      <3>1. CASE d # c /\ e # c
        BY <3>1, <2>1, <2>8, Facts DEF Distinct
      <3>2. CASE d = c \/ e = c
        BY <3>2, <2>2, <2>4, <2>5, <2>8
      <3> QED
        BY <3>1, <3>2
    <2>11. Asked' /\ Charged'
      BY <1>1, <2>5, Facts, UnchargedInv DEF Asked, Others, HasSend, HasGuess
    <2> QED
      BY <2>6, <2>7, <2>9, <2>10, <2>11 DEF IInv
  <1> QED
    BY <1>2, <1>3

LEMMA CompareInv ==
  ASSUME IInv, NEW c \in Calls, Compare(c)
  PROVE  IInv'
  <1>1. /\ pc[c] = "compare" /\ pc[c] # "idle" /\ read[c] \in Seen /\ read[c].code <= issued
        /\ UNCHANGED <<row, issued, sends, guesses, day, compared, accepted, stored, crossed>>
    BY Facts DEF Compare, budgets, Reads, Holding
  <1>2. read[c].attempts \in 0 .. MaxAttempts /\ read[c].code \in Nat
    BY <1>1, Constants DEF Seen
  <1>3. CASE guess[c] = read[c].code
    <2>1. Goto(c, "consume") /\ UNCHANGED wrong
      BY <1>3 DEF Compare
    <2>2. CallTypes' /\ Others(c) /\ pc'[c] = "consume" /\ UNCHANGED <<who, guess, read>>
      BY <2>1, Facts, Moves DEF Places
    <2> QED
      BY <1>1, <2>1, <2>2, Facts, QuietInv, UnchargedInv DEF Holding, HasSend, HasGuess, IInv
  <1>4. CASE guess[c] # read[c].code
    <2>1. wrong' = Bump(wrong, KeysOf(c))
      BY <1>4 DEF Compare
    <2>2. /\ CallTypes' /\ Others(c) /\ pc'[c] \in {"idle", "clear"}
          /\ pc'[c] = "clear" => LastGuess(c) /\ UNCHANGED <<who, guess, read>>
      <3>1. CASE LastGuess(c)
        BY <1>4, <3>1, Facts, Moves DEF Compare, Places
      <3>2. CASE ~ LastGuess(c)
        BY <1>4, <3>2, Facts, Moves DEF Compare, Places
      <3> QED
        BY <3>1, <3>2
    <2>3. Charged' /\ wrong' \in [Keys -> Nat]
      BY <1>1, <2>1, <2>2, Facts, GuessUsed DEF HasSend, HasGuess, KeysOf
    <2>4. pc'[c] = "clear" /\ row # NoRow => MayClear(c)'
      <3> SUFFICES ASSUME pc'[c] = "clear", row # NoRow, ~ (read[c].code < row.code)
                   PROVE  read[c].attempts = MaxAttempts /\ guess[c] # row.code
        BY <1>1, <2>2 DEF MayClear
      <3>1. row.code = issued /\ row.code \in Nat
        BY Facts DEF Counted
      <3>2. read[c].code = row.code
        BY <1>1, <1>2, <3>1, Facts
      <3> QED
        BY <1>2, <1>4, <2>2, <3>2, Constants DEF LastGuess
    <2>5. TypeOK' /\ Counted' /\ Spent' /\ Reads' /\ Distinct' /\ Asked'
      BY <1>1, <2>2, <2>3, <2>4, Facts, QuietInv DEF Holding
    <2> QED
      BY <2>3, <2>5 DEF IInv
  <1> QED
    BY <1>3, <1>4

LEMMA StoreInv ==
  ASSUME IInv, NEW c \in Calls, Store(c)
  PROVE  IInv'
  <1>1. /\ pc[c] = "store" /\ pc[c] # "idle" /\ issued < MaxCodes /\ issued' = issued + 1
        /\ row' = [code |-> issued + 1, attempts |-> 0, age |-> "young"]
        /\ stored' = Bump(stored, KeysOf(c)) /\ compared' = 0 /\ Return(c)
        /\ UNCHANGED <<sends, guesses, day, accepted, wrong, crossed>>
    BY DEF Store, budgets
  <1>2. CallTypes' /\ Others(c) /\ pc'[c] = "idle"
    BY <1>1, Facts, Moves
  <1>3. Charged' /\ stored' \in [Keys -> Nat]
    BY <1>1, <1>2, Facts, SendUsed DEF HasSend, HasGuess, KeysOf
  <1>4. /\ issued' \in Codes /\ issued' \in 0 .. MaxCodes
        /\ row'.code = issued' /\ row'.attempts = 0
    BY <1>1, Facts, Constants DEF Codes
  <1>5. row' \in Pending
    BY <1>1, <1>4, Constants DEF Pending, Ages
  <1>6. TypeOK'
    BY <1>1, <1>2, <1>3, <1>4, <1>5, Facts DEF TypeOK, CallTypes, Seen
  <1>7. Counted'
    BY <1>1, <1>4, Constants DEF Counted
  <1>8. Spent'
    <2> SUFFICES ASSUME NEW n \in Codes
                 PROVE  /\ accepted[n] <= 1
                        /\ accepted[n] # 0 => n <= issued' /\ row'.code # n
      BY <1>1 DEF Spent
    <2>1. n \in Nat /\ accepted[n] <= 1 /\ (accepted[n] # 0 => n <= issued)
      BY Facts, Constants DEF Spent
    <2> QED
      BY <1>1, <1>4, <2>1, Facts
  <1>9. \A d \in Calls : pc'[d] \in Holding =>
          /\ read'[d] \in Seen /\ read'[d].code <= issued'
          /\ read'[d].code < row'.code
    <2> SUFFICES ASSUME NEW d \in Calls, pc'[d] \in Holding
                 PROVE  /\ read'[d] \in Seen /\ read'[d].code <= issued'
                        /\ read'[d].code < row'.code
      OBVIOUS
    <2>1. d # c
      BY <1>2 DEF Holding
    <2>2. read'[d] = read[d] /\ read[d] \in Seen /\ read[d].code <= issued
      BY <2>1, <1>2, Facts DEF Others, Reads
    <2>3. read[d].code \in Nat
      BY <2>2, Constants DEF Seen
    <2> QED
      BY <2>2, <2>3, <1>1, <1>4, Facts
  <1>10. Reads' /\ Distinct'
    <2>1. \A d \in Calls : pc'[d] \in Holding => read'[d].code # row'.code
      <3> SUFFICES ASSUME NEW d \in Calls, pc'[d] \in Holding
                   PROVE  read'[d].code # row'.code
        OBVIOUS
      <3>1. read'[d].code \in Nat /\ row'.code \in Nat
        BY <1>4, <1>9, Constants DEF Seen
      <3> QED
        BY <3>1, <1>9
    <2> QED
      BY <2>1, <1>9 DEF Reads, Distinct, MayClear, Holding
  <1>11. Asked'
    BY <1>2, Facts DEF Asked, Others
  <1> QED
    BY <1>3, <1>6, <1>7, <1>8, <1>10, <1>11 DEF IInv

LEMMA RefundsInv ==
  ASSUME IInv, NEW c \in Calls, Refunds(c)
  PROVE  IInv'
  <1>1. PICK k \in Keys, here \in {"refund", "refundTarget"} :
          /\ pc[c] = here
          /\ \/ guesses' = [guesses EXCEPT ![k] = IF @ > 0 THEN @ - 1 ELSE 0]
             \/ UNCHANGED guesses
          /\ UNCHANGED <<row, issued, sends, day, history>>
          /\ \/ here = "refund" /\ k = who[c] /\ Goto(c, "refundTarget")
             \/ here = "refundTarget" /\ k = Target /\ Return(c)
    BY Facts, Constants DEF Refunds, Refund
  <1>2. /\ pc[c] # "idle" /\ who[c] # Target
        /\ UNCHANGED <<row, issued, sends, day, compared, accepted, wrong, stored, crossed>>
    BY <1>1, Facts DEF history
  <1>3. /\ CallTypes' /\ Others(c)
        /\ IF here = "refund" THEN pc'[c] = "refundTarget" /\ UNCHANGED who
           ELSE pc'[c] = "idle"
    BY <1>1, Facts, Moves DEF Places
  <1>4. Charged' /\ guesses' \in [Keys -> Nat]
    <2>1. CASE UNCHANGED guesses
      BY <1>1, <1>2, <1>3, <2>1, Facts, UnchargedInv DEF HasSend, HasGuess
    <2>2. CASE guesses' = [guesses EXCEPT ![k] = IF @ > 0 THEN @ - 1 ELSE 0]
      BY <1>1, <1>2, <1>3, <2>2, Facts, GuessReturned DEF HasSend, HasGuess
    <2> QED
      BY <1>1, <2>1, <2>2
  <1>5. TypeOK' /\ Counted' /\ Spent' /\ Reads' /\ Distinct' /\ Asked'
    BY <1>2, <1>3, <1>4, Facts, QuietInv DEF Holding
  <1> QED
    BY <1>4, <1>5 DEF IInv

LEMMA AgeInv ==
  ASSUME IInv, Age
  PROVE  IInv'
  <1>1. /\ row # NoRow /\ row.age # "expired"
        /\ row' = [row EXCEPT !.age = IF @ = "young" THEN "valid" ELSE "expired"]
        /\ UNCHANGED <<issued, sends, guesses, day, pc, who, guess, read,
                       compared, accepted, wrong, stored, crossed>>
    BY DEF Age, budgets, history, call
  <1>2. row \in Pending
    BY <1>1 DEF IInv, TypeOK
  <1>3. /\ row' \in Pending /\ row' # NoRow
        /\ row'.code = row.code /\ row'.attempts = row.attempts
    BY <1>1, <1>2, Constants DEF Pending, Ages
  <1>4. TypeOK'
    BY <1>1, <1>3 DEF IInv, TypeOK
  <1>5. Counted' /\ Spent'
    BY <1>1, <1>3 DEF IInv, Counted, Spent
  <1>6. Reads' /\ Distinct'
    BY <1>1, <1>3 DEF IInv, Reads, Distinct, MayClear, Holding
  <1>7. Asked' /\ Charged'
    BY <1>1 DEF IInv, Asked, Charged, Senders, Guessers, HasSend, HasGuess
  <1> QED
    BY <1>4, <1>5, <1>6, <1>7 DEF IInv

(* At midnight what calls have is not of today's budgets.                      *)
LEMMA MidnightInv ==
  ASSUME IInv, Midnight
  PROVE  IInv'
  <1> DEFINE Going(k) == {c \in Calls : pc[c] # "idle" /\ k \in KeysOf(c)}
  <1>1. /\ day' = day + 1 /\ day < MaxDays
        /\ sends' = Zero /\ guesses' = Zero /\ wrong' = Zero /\ stored' = Zero
        /\ crossed' = [k \in Keys |-> Cardinality(Going(k))]
        /\ UNCHANGED <<row, issued, pc, who, guess, read, compared, accepted>>
    BY DEF Midnight, call
  <1>2. \A k \in Keys :
          /\ Cardinality(Going(k)) \in Nat
          /\ Cardinality(Senders(k)) <= Cardinality(Going(k))
          /\ Cardinality(Guessers(k)) <= Cardinality(Going(k))
          /\ Cardinality(Senders(k)) \in Nat /\ Cardinality(Guessers(k)) \in Nat
    <2> TAKE k \in Keys
    <2>1. /\ Going(k) \subseteq Calls /\ Senders(k) \subseteq Going(k)
          /\ Guessers(k) \subseteq Going(k)
      BY DEF Senders, Guessers, HasSend, HasGuess, KeysOf
    <2>2. IsFiniteSet(Going(k))
      BY <2>1, Constants, FS_Subset
    <2>3. IsFiniteSet(Senders(k)) /\ IsFiniteSet(Guessers(k))
      BY <2>1, <2>2, FS_Subset
    <2> QED
      BY <2>1, <2>2, <2>3, FS_Subset, FS_CardinalityType
  <1>3. TypeOK'
    <2>1. Zero \in [Keys -> Nat]
      BY DEF Zero
    <2>2. crossed' \in [Keys -> Nat]
      BY <1>1, <1>2
    <2>3. day \in 0 .. MaxDays
      BY DEF IInv, TypeOK
    <2>4. day' \in 0 .. MaxDays
      BY <1>1, <2>3, Constants
    <2> QED
      BY <1>1, <2>1, <2>2, <2>4 DEF IInv, TypeOK
  <1>4. Counted' /\ Spent' /\ Reads' /\ Distinct' /\ Asked'
    BY <1>1 DEF IInv, Counted, Spent, Reads, MayClear, Distinct, Asked
  <1>5. Charged'
    <2> SUFFICES ASSUME NEW k \in Keys
                 PROVE  /\ 0 <= SendCap[k] /\ 0 <= GuessCap[k]
                        /\ 0 + Cardinality(Senders(k)) <= 0 + Cardinality(Going(k))
                        /\ 0 + Cardinality(Guessers(k)) <= 0 + Cardinality(Going(k))
      BY <1>1 DEF Charged, Zero, Senders, Guessers, HasSend, HasGuess
    <2> QED
      BY <1>2, Constants
  <1> QED
    BY <1>3, <1>4, <1>5 DEF IInv

LEMMA NextInv == IInv /\ [Next]_vars => IInv'
  <1> SUFFICES ASSUME IInv, [Next]_vars PROVE IInv'
    OBVIOUS
  <1>1. CASE \E c \in Calls, r \in Requesters :
               Start(c, r) \/ \E n \in 0 .. issued : Guess(c, r, n)
    BY <1>1, BeginInv
  <1>2. CASE \E c \in Calls : CallStep(c)
    BY <1>2, TakeSendsInv, StoreInv, TakeGuessesInv, ClaimInv, EndInv, CompareInv,
       ClearInv, ConsumeInv, RefundsInv DEF CallStep
  <1>3. CASE UNCHANGED vars
    BY <1>3 DEF vars, budgets, call, history, IInv, TypeOK, Counted, Spent, Reads, MayClear,
       Distinct, Asked, Charged, Senders, Guessers, HasSend, HasGuess
  <1> QED
    BY <1>1, <1>2, <1>3, AgeInv, MidnightInv DEF Next

LEMMA Invariant == Spec => []IInv
  BY InitInv, NextInv, PTL DEF Spec

----------------------------------------------------------------------------
(* The types, for any number of people, calls and codes.                       *)
THEOREM TypesHold == Spec => []TypeOK
  <1>1. IInv => TypeOK
    BY DEF IInv
  <1> QED
    BY <1>1, Invariant, PTL

(* A code is compared MaxAttempts times at most and accepted once              *)
(* (verification_codes.sql, ClaimVerificationAttempt).                         *)
THEOREM CodesHold == Spec => []CodeHolds
  <1>1. IInv => CodeHolds
    BY DEF IInv, Counted, Spent, CodeHolds
  <1> QED
    BY <1>1, Invariant, PTL

(* The daily budgets hold whatever calls interleave to (otp_budgets.sql).      *)
THEOREM BudgetsAreKept == Spec => []BudgetsHold
  <1>1. IInv => BudgetsHold
    <2> SUFFICES ASSUME IInv, NEW k \in Keys
                 PROVE  stored[k] <= SendCap[k] + crossed[k]
                        /\ wrong[k] <= GuessCap[k] + crossed[k]
      BY DEF BudgetsHold
    <2>1. /\ sends[k] \in Nat /\ guesses[k] \in Nat /\ wrong[k] \in Nat
          /\ stored[k] \in Nat /\ crossed[k] \in Nat
      BY DEF IInv, TypeOK
    <2>2. Senders(k) \subseteq Calls /\ Guessers(k) \subseteq Calls
      BY DEF Senders, Guessers
    <2>3. IsFiniteSet(Senders(k)) /\ IsFiniteSet(Guessers(k))
      BY <2>2, Constants, FS_Subset
    <2>4. Cardinality(Senders(k)) \in Nat /\ Cardinality(Guessers(k)) \in Nat
      BY <2>3, FS_CardinalityType
    <2> QED
      BY <2>1, <2>4, Constants DEF IInv, Charged
  <1> QED
    BY <1>1, Invariant, PTL

(* How the pending code can be taken away: it is accepted, or a call that may  *)
(* clear it does.                                                              *)
LEMMA TakenAway ==
  ASSUME IInv, Next, row # NoRow, row' = NoRow
  PROVE  \/ accepted'[row.code] > accepted[row.code]
         \/ \E d \in Calls : pc[d] = "clear" /\ MayClear(d)
  <1>1. row \in Pending
    BY DEF IInv, TypeOK
  <1>2. ASSUME NEW d \in Calls, Clear(d)
        PROVE  pc[d] = "clear" /\ MayClear(d)
    BY <1>2 DEF Clear, IInv, Reads
  <1>3. ASSUME NEW d \in Calls, Consume(d)
        PROVE  accepted'[row.code] > accepted[row.code]
    <2>1. /\ accepted' = [accepted EXCEPT ![row.code] = @ + 1]
          /\ accepted \in [Codes -> Nat] /\ row.code \in Codes
      BY <1>1, <1>3 DEF Consume, Consumable, IInv, TypeOK, Pending
    <2>2. accepted'[row.code] = accepted[row.code] + 1 /\ accepted[row.code] \in Nat
      BY <2>1
    <2> QED
      BY <2>2
  <1>4. ASSUME NEW d \in Calls, Claim(d)
        PROVE  FALSE
    <2>1. CASE Claimable
      <3>1. row' = [row EXCEPT !.attempts = @ + 1] /\ row.attempts \in Nat
            /\ row.attempts < MaxAttempts
        BY <1>1, <1>4, <2>1, Facts DEF Claim, Claimable
      <3>2. row' \in Pending
        BY <1>1, <3>1, Constants DEF Pending
      <3> QED
        BY <3>2, Constants
    <2>2. CASE ~ Claimable
      BY <1>4, <2>2 DEF Claim
    <2> QED
      BY <2>1, <2>2
  <1>5. ASSUME NEW d \in Calls, Store(d)
        PROVE  FALSE
    <2>1. row' \in Pending
      BY <1>5, Facts, Constants DEF Store, Pending, Ages, Codes
    <2> QED
      BY <2>1, Constants
  <1>6. CASE Age
    <2>1. row' \in Pending
      BY <1>1, <1>6 DEF Age, Pending, Ages
    <2> QED
      BY <2>1, Constants
  <1>7. CASE \E d \in Calls, r \in Requesters :
               Start(d, r) \/ \E n \in 0 .. issued : Guess(d, r, n)
    BY <1>7 DEF Start, Guess
  <1>8. CASE Midnight
    BY <1>8 DEF Midnight
  <1>9. ASSUME NEW d \in Calls, CallStep(d)
        PROVE  \/ accepted'[row.code] > accepted[row.code]
               \/ pc[d] = "clear" /\ MayClear(d)
    <2>1. CASE TakeSends(d) \/ TakeGuesses(d) \/ Explain(d) \/ Compare(d)
               \/ Refunds(d) \/ Fail(d)
      BY <2>1 DEF TakeSends, TakeSend, TakeGuesses, TakeGuess, Explain, Compare,
         Refunds, Refund, Fail
    <2> QED
      BY <1>2, <1>3, <1>4, <1>5, <1>9, <2>1 DEF CallStep
  <1> QED
    BY <1>6, <1>7, <1>8, <1>9 DEF Next

(* What a call remembers of the row it has read.                               *)
LEMMA Remembered ==
  ASSUME IInv, NEW c \in Calls, pc[c] \in Holding
  PROVE  /\ read[c].attempts \in Nat /\ read[c].attempts <= MaxAttempts
         /\ read[c].code \in Nat /\ read[c].code <= issued
  <1>1. read[c] \in Seen /\ read[c].code <= issued
    BY DEF IInv, Reads
  <1>2. read[c].attempts \in 0 .. MaxAttempts /\ read[c].code \in Codes
    BY <1>1 DEF Seen
  <1>3. read[c].attempts \in Nat /\ read[c].attempts <= MaxAttempts
    BY <1>2, Constants
  <1> QED
    BY <1>1, <1>2, <1>3, Constants

(* A right guess under way loses the code only to expiry, to a call that meant *)
(* an older code, or to a wrong guess that spent the last attempt after it: no *)
(* two calls have the same attempt, so never when its own is the last          *)
(* (verification.go:578-586, explainUnclaimableAttempt).                       *)
THEOREM RightGuessesAreHeard == Spec => RightGuessIsHeard
  <1> DEFINE Robbed(c) ==
        /\ pc[c] \in {"compare", "consume"} /\ guess[c] = read[c].code
        /\ row # NoRow /\ row.code = read[c].code /\ row' = NoRow
      Excused(c) ==
        \/ accepted'[row.code] > accepted[row.code]
        \/ row.age = "expired"
        \/ \E d \in Calls :
             /\ pc[d] = "clear"
             /\ \/ read[d].code < row.code
                \/ guess[d] # row.code /\ read[d].attempts > read[c].attempts
  <1>1. IInv /\ [Next]_vars => [\A c \in Calls : Robbed(c) => Excused(c)]_vars
    <2> SUFFICES ASSUME IInv, Next, NEW c \in Calls, Robbed(c)
                 PROVE  Excused(c)
      BY DEF vars
    <2>1. CASE accepted'[row.code] > accepted[row.code]
      BY <2>1
    <2>2. CASE row.age = "expired"
      BY <2>2
    <2>3. ASSUME NEW d \in Calls, pc[d] = "clear", MayClear(d),
                 row.age # "expired"
          PROVE  Excused(c)
      <3>1. CASE read[d].code < row.code
        BY <2>3, <3>1
      <3>2. CASE ~ (read[d].code < row.code)
        <4>1. read[d].attempts = MaxAttempts /\ guess[d] # row.code
          BY <2>3, <3>2 DEF MayClear
        <4>2. c # d /\ pc[c] \in Holding /\ pc[d] \in Holding
          BY <2>3 DEF Holding
        <4>3. row.code = issued /\ row.code \in Nat
          BY Facts DEF Counted
        <4>4. /\ read[c].attempts \in Nat /\ read[c].attempts <= MaxAttempts
              /\ read[d].code \in Nat /\ read[d].code <= issued
          BY <4>2, Remembered
        <4>5. read[d].code = row.code
          BY <3>2, <4>3, <4>4
        <4>6. read[c].attempts # read[d].attempts
          BY <2>3, <4>2, <4>5, Facts DEF Distinct
        <4>7. read[d].attempts > read[c].attempts
          BY <4>1, <4>4, <4>6, Constants
        <4> QED
          BY <2>3, <4>1, <4>7
      <3> QED
        BY <3>1, <3>2
    <2> QED
      BY <2>1, <2>2, <2>3, TakenAway
  <1> QED
    BY <1>1, Invariant, PTL DEF Spec, RightGuessIsHeard
=============================================================================
