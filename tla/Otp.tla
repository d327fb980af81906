-------------------------------- MODULE Otp --------------------------------
(* One-time codes for one address: requested, sent, guessed at and spent.      *)
(* There is at most one pending code; a new one replaces it.  Whoever asks is  *)
(* held to a daily budget of codes and of wrong guesses, one of their own for  *)
(* this address and one of the address itself.                                 *)
(*                                                                             *)
(* Every statement is a step: nothing holds the row between them.              *)
EXTENDS Naturals, FiniteSets

CONSTANTS
  Requesters,   \* Who asks for codes and guesses at them.
  Target,       \* The address, as the key of its own budget.
  NoRow,        \* No pending code, and no row a call has read.
  Calls,        \* Calls that can be under way at once.
  MaxAttempts,  \* otpMaxAttempts: guesses at one code.
  SendCap,      \* Codes a day, for each requester and the target.
  GuessCap,     \* Wrong guesses a day, for each of them.
  Before,       \* Codes and wrong guesses of today that are history at the start.
  MaxCodes,     \* Bound: codes ever generated.
  MaxDays       \* Bound: midnights.

Keys == Requesters \cup {Target}
Codes == 1 .. MaxCodes

(* How old a code is: too young to ask for another, valid, or expired.         *)
Ages == {"young", "valid", "expired"}

Pending == [code : Codes, attempts : 0 .. MaxAttempts, age : Ages]

ASSUME OtpAssumption ==
  /\ NoRow \notin Pending
  /\ Target \notin Requesters
  /\ IsFiniteSet(Calls)
  /\ MaxAttempts \in Nat \ {0}
  /\ SendCap \in [Keys -> Nat] /\ GuessCap \in [Keys -> Nat]
  /\ Before \in [Keys -> Nat]
  /\ \A k \in Keys : Before[k] <= SendCap[k] /\ Before[k] <= GuessCap[k]
  /\ MaxCodes \in Nat /\ MaxDays \in Nat

VARIABLES
  row,          \* auth.verification_codes: the code, its attempts, its age.
  issued,       \* How many codes were generated; the last is the newest.
  sends,        \* auth.otp_budgets of today: codes,
  guesses,      \*   and guesses taken and not handed back.
  day,          \* How many midnights have passed.
  pc,           \* What a call does next.
  who,          \* Who calls.
  guess,        \* The code a call presents, 0 for one that was never sent.
  read,         \* The row it claimed an attempt of, or found expired.
  compared,     \* History: comparisons with the newest code.
  accepted,     \* History: calls that were told a code is right.
  wrong,        \* History: wrong guesses compared today.
  stored,       \* History: codes stored today.
  crossed       \* History: calls of each key under way at the last midnight.

budgets == <<sends, guesses, day>>
call == <<pc, who, guess, read>>
history == <<compared, accepted, wrong, stored, crossed>>
vars == <<row, issued, budgets, call, history>>

(* What a call remembers of a row it has read.                                 *)
Copy(r) == [code |-> r.code, attempts |-> r.attempts]

Zero == [k \in Keys |-> 0]

Init ==
  /\ row = NoRow /\ issued = 0
  /\ sends = Before /\ guesses = Before /\ day = 0
  /\ pc = [c \in Calls |-> "idle"]
  /\ who = [c \in Calls |-> Target]
  /\ guess = [c \in Calls |-> 0]
  /\ read = [c \in Calls |-> NoRow]
  /\ compared = 0
  /\ accepted = [n \in Codes |-> 0]
  /\ wrong = Before /\ stored = Before /\ crossed = Zero

Return(c) ==
  /\ pc' = [pc EXCEPT ![c] = "idle"]
  /\ who' = [who EXCEPT ![c] = Target]
  /\ guess' = [guess EXCEPT ![c] = 0]
  /\ read' = [read EXCEPT ![c] = NoRow]

(* The call goes on.                                                           *)
Goto(c, where) ==
  /\ pc' = [pc EXCEPT ![c] = where]
  /\ UNCHANGED <<who, guess, read>>

(* The keys whose budgets a step of c is charged to.                           *)
KeysOf(c) == {who[c], Target}

Bump(count, S) == [k \in Keys |-> IF k \in S THEN count[k] + 1 ELSE count[k]]

----------------------------------------------------------------------------
(* startTargetKeyedVerification: refused while the last code is young.         *)
Start(c, r) ==
  /\ pc[c] = "idle"
  /\ row # NoRow => row.age # "young"
  /\ pc' = [pc EXCEPT ![c] = "send"]
  /\ who' = [who EXCEPT ![c] = r]
  /\ UNCHANGED <<row, issued, budgets, guess, read, history>>

(* TakeOTPSend refuses at the cap, and takes one below it.                     *)
TakeSend(c, here, k, next) ==
  /\ pc[c] = here
  /\ IF sends[k] < SendCap[k]
       THEN sends' = [sends EXCEPT ![k] = @ + 1] /\ Goto(c, next)
       ELSE Return(c) /\ UNCHANGED sends
  /\ UNCHANGED <<row, issued, guesses, day, history>>

(* takeOTPSend: the requester's first.  If the address then refuses, the       *)
(* requester has spent one on nothing.                                         *)
TakeSends(c) ==
  \/ TakeSend(c, "send", who[c], "sendTarget")
  \/ TakeSend(c, "sendTarget", Target, "store")

(* UpsertVerificationCodeForSignup: a new code, with attempts of its own.      *)
(* Whether it can be delivered changes nothing here.                           *)
Store(c) ==
  /\ pc[c] = "store"
  /\ issued < MaxCodes
  /\ issued' = issued + 1
  /\ row' = [code |-> issued + 1, attempts |-> 0, age |-> "young"]
  /\ stored' = Bump(stored, KeysOf(c))
  /\ compared' = 0
  /\ Return(c)
  /\ UNCHANGED <<budgets, accepted, wrong, crossed>>

----------------------------------------------------------------------------
(* verifyAndConsumeTargetKeyedCode, with any code that was ever sent, or none. *)
Guess(c, r, n) ==
  /\ pc[c] = "idle"
  /\ n <= issued
  /\ pc' = [pc EXCEPT ![c] = "guess"]
  /\ who' = [who EXCEPT ![c] = r]
  /\ guess' = [guess EXCEPT ![c] = n]
  /\ UNCHANGED <<row, issued, budgets, read, history>>

(* TakeOTPGuess.                                                               *)
TakeGuess(c, here, k, next) ==
  /\ pc[c] = here
  /\ IF guesses[k] < GuessCap[k]
       THEN guesses' = [guesses EXCEPT ![k] = @ + 1] /\ Goto(c, next)
       ELSE Return(c) /\ UNCHANGED guesses
  /\ UNCHANGED <<row, issued, sends, day, history>>

TakeGuesses(c) ==
  \/ TakeGuess(c, "guess", who[c], "guessTarget")
  \/ TakeGuess(c, "guessTarget", Target, "claim")

(* Mutant: the attempts are checked in Go, on a row read earlier.              *)
ClaimableByReading == row # NoRow /\ row.age # "expired"

(* What ClaimVerificationAttemptByTarget matches.                              *)
Claimable == row # NoRow /\ row.age # "expired" /\ row.attempts < MaxAttempts

(* ClaimAttemptByTarget: the attempt is spent before the code is looked at.    *)
Claim(c) ==
  /\ pc[c] = "claim"
  /\ IF Claimable
       THEN /\ row' = [row EXCEPT !.attempts = @ + 1]
            /\ compared' = compared + 1
            /\ pc' = [pc EXCEPT ![c] = "compare"]
            /\ read' = [read EXCEPT ![c] = Copy(row')]
       ELSE /\ pc' = [pc EXCEPT ![c] = "explain"]
            /\ UNCHANGED <<row, compared, read>>
  /\ UNCHANGED <<issued, budgets, who, guess, accepted, wrong, stored, crossed>>

(* Mutant: a row whose attempts are spent is cleared by whoever finds it so.   *)
ExplainClearing(c) ==
  /\ pc[c] = "explain"
  /\ IF row # NoRow /\ (row.age = "expired" \/ row.attempts >= MaxAttempts)
       THEN /\ pc' = [pc EXCEPT ![c] = "clear"]
            /\ read' = [read EXCEPT ![c] = Copy(row)]
            /\ UNCHANGED <<who, guess>>
       ELSE Return(c)
  /\ UNCHANGED <<row, issued, budgets, history>>

(* explainUnclaimableTargetKeyedAttempt: an expired row is cleared, a row      *)
(* whose attempts are spent is left to whoever is still comparing.             *)
Explain(c) ==
  /\ pc[c] = "explain"
  /\ IF row # NoRow /\ row.age = "expired"
       THEN /\ pc' = [pc EXCEPT ![c] = "clear"]
            /\ read' = [read EXCEPT ![c] = Copy(row)]
            /\ UNCHANGED <<who, guess>>
       ELSE Return(c)
  /\ UNCHANGED <<row, issued, budgets, history>>

(* The guess that spends the last attempt clears the row.                      *)
LastGuess(c) == read[c].attempts >= MaxAttempts

(* Mutant: the guess is handed back whatever it was.                           *)
CompareRefunding(c) ==
  /\ pc[c] = "compare"
  /\ IF guess[c] = read[c].code
       THEN Goto(c, "consume") /\ UNCHANGED wrong
       ELSE wrong' = Bump(wrong, KeysOf(c)) /\ Goto(c, "refund")
  /\ UNCHANGED <<row, issued, budgets, compared, accepted, stored, crossed>>

(* otpMatches, on the row as it was claimed.                                   *)
Compare(c) ==
  /\ pc[c] = "compare"
  /\ IF guess[c] = read[c].code
       THEN Goto(c, "consume") /\ UNCHANGED wrong
       ELSE /\ wrong' = Bump(wrong, KeysOf(c))
            /\ IF LastGuess(c) THEN Goto(c, "clear") ELSE Return(c)
  /\ UNCHANGED <<row, issued, budgets, compared, accepted, stored, crossed>>

(* DeleteVerificationCodeByTarget: whatever code is there by now.              *)
Clear(c) ==
  /\ pc[c] = "clear"
  /\ row' = NoRow
  /\ Return(c)
  /\ UNCHANGED <<issued, budgets, history>>

(* What ConsumeVerificationCodeByTarget matches: the code that was claimed.    *)
Consumable(c) == row # NoRow /\ row.code = read[c].code

Consume(c) ==
  /\ pc[c] = "consume"
  /\ IF Consumable(c)
       THEN /\ row' = NoRow
            /\ accepted' = [accepted EXCEPT ![read[c].code] = @ + 1]
            /\ Goto(c, "refund")
       ELSE Return(c) /\ UNCHANGED <<row, accepted>>
  /\ UNCHANGED <<issued, budgets, compared, wrong, stored, crossed>>

(* RefundOTPGuess: a right guess is handed back, to the budget of today.  When *)
(* that fails the call goes on all the same.                                   *)
Refund(c, here, k, next) ==
  /\ pc[c] = here
  /\ \/ guesses' = [guesses EXCEPT ![k] = IF @ > 0 THEN @ - 1 ELSE 0]
     \/ UNCHANGED guesses
  /\ next
  /\ UNCHANGED <<row, issued, sends, day, history>>

Refunds(c) ==
  \/ Refund(c, "refund", who[c], Goto(c, "refundTarget"))
  \/ Refund(c, "refundTarget", Target, Return(c))

(* The call dies, or a statement of it fails: budgets taken stay taken.        *)
Fail(c) ==
  /\ pc[c] # "idle"
  /\ Return(c)
  /\ UNCHANGED <<row, issued, budgets, history>>

----------------------------------------------------------------------------
(* A minute after it was stored a code may be replaced, after ten it expires.  *)
Age ==
  /\ row # NoRow /\ row.age # "expired"
  /\ row' = [row EXCEPT !.age = IF @ = "young" THEN "valid" ELSE "expired"]
  /\ UNCHANGED <<issued, budgets, call, history>>

(* The budgets are rows of one day: at midnight everybody starts afresh.       *)
Midnight ==
  /\ day < MaxDays
  /\ day' = day + 1
  /\ sends' = Zero /\ guesses' = Zero
  /\ wrong' = Zero /\ stored' = Zero
  /\ crossed' = [k \in Keys |->
       Cardinality({c \in Calls : pc[c] # "idle" /\ k \in KeysOf(c)})]
  /\ UNCHANGED <<row, issued, call, compared, accepted>>

CallStep(c) ==
  \/ TakeSends(c) \/ Store(c) \/ TakeGuesses(c) \/ Claim(c) \/ Explain(c)
  \/ Compare(c) \/ Clear(c) \/ Consume(c) \/ Refunds(c) \/ Fail(c)

Next ==
  \/ \E c \in Calls, r \in Requesters :
       Start(c, r) \/ \E n \in 0 .. issued : Guess(c, r, n)
  \/ \E c \in Calls : CallStep(c)
  \/ Age
  \/ Midnight

Spec == Init /\ [][Next]_vars

----------------------------------------------------------------------------
Places == {"idle", "send", "sendTarget", "store", "guess", "guessTarget", "claim",
           "explain", "compare", "clear", "consume", "refund", "refundTarget"}

TypeOK ==
  /\ row \in Pending \cup {NoRow}
  /\ issued \in 0 .. MaxCodes
  /\ sends \in [Keys -> Nat] /\ guesses \in [Keys -> Nat] /\ day \in 0 .. MaxDays
  /\ pc \in [Calls -> Places] /\ who \in [Calls -> Keys]
  /\ guess \in [Calls -> 0 .. MaxCodes]
  /\ read \in [Calls -> [code : Codes, attempts : 0 .. MaxAttempts] \cup {NoRow}]
  /\ compared \in Nat /\ accepted \in [Codes -> Nat]
  /\ wrong \in [Keys -> Nat] /\ stored \in [Keys -> Nat] /\ crossed \in [Keys -> Nat]

(* However many guesses arrive at once, a code is compared MaxAttempts times   *)
(* at most, and is accepted once (verification_codes.sql,                      *)
(* ClaimVerificationAttempt and ConsumeVerificationCode).                      *)
CodeHolds ==
  /\ compared <= MaxAttempts
  /\ \A n \in Codes : accepted[n] <= 1

(* Nobody, and no address, gets more codes or more wrong guesses in a day than *)
(* its budget, although right guesses are handed back; unless a call was under *)
(* way at midnight (otp_budgets.sql).                                          *)
BudgetsHold ==
  \A k \in Keys :
    /\ stored[k] <= SendCap[k] + crossed[k]
    /\ wrong[k] <= GuessCap[k] + crossed[k]

(* While a call compares or consumes the right code, the code is only taken    *)
(* from under it by expiring, by a call that meant to clear an older one, or   *)
(* by a wrong guess that spent the last attempt after it: a right guess in the *)
(* last attempt is not refused because of others, who find the attempts spent  *)
(* (verification.go:578-586, explainUnclaimableAttempt: "deleting the row      *)
(* under them would make their Consume find nothing and report a correct code  *)
(* as invalid ... it just is not cleared by a bystander").                     *)
RightGuessIsHeard ==
  [][\A c \in Calls :
       /\ pc[c] \in {"compare", "consume"} /\ guess[c] = read[c].code
       /\ row # NoRow /\ row.code = read[c].code /\ row' = NoRow
       => \/ accepted'[row.code] > accepted[row.code]
          \/ row.age = "expired"
          \/ \E d \in Calls :
               /\ pc[d] = "clear"
               /\ \/ read[d].code < row.code
                  \/ guess[d] # row.code /\ read[d].attempts > read[c].attempts]_vars

=============================================================================
