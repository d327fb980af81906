-------------------------------- MODULE Fees --------------------------------
(***************************************************************************)
(* What a meetup costs its host, with no wallet, holds or events: each     *)
(* creation is asked for at the price its request was quoted, charged once *)
(* and in full, and settled once when the meetup ends, with all or half of *)
(* what was taken, or nothing, given back.                                 *)
(***************************************************************************)
EXTENDS Integers

CONSTANTS
  Calls,  \* create requests
  KeyOf,  \* a request and its retries have one key
  Price   \* what each request is quoted in credits

VARIABLE fee    \* of the meetup that each request made

\* price falls due in credits, or as one unit of the plan; a charge takes what
\* credits there are and the rest is owed; settled is the end of the matter.
NoFee == [state |-> "none", kind |-> "credits", price |-> 0, taken |-> 0, owed |-> 0,
          back |-> 0, forgiven |-> 0, settled |-> FALSE]

Quoted(c, kind) ==
  [NoFee EXCEPT !.state = "due", !.kind = kind,
                !.price = IF kind = "plan_quota" THEN 1 ELSE Price[c]]

Set(c, f) == fee' = [fee EXCEPT ![c] = f]

\* The ways to charge f in full: a unit of the plan costs no credits.
Charged(f) ==
  IF f.kind = "plan_quota" THEN {[f EXCEPT !.state = "charged"]}
  ELSE {[f EXCEPT !.state = "charged", !.taken = n, !.owed = f.price - n] : n \in 0 .. f.price}

\* A charge that is settled for percent: what was taken goes back in that
\* part, and what is owed is at most written off with a refund of all.
GivenBack(f, percent) ==
  {[f EXCEPT !.settled = TRUE, !.back = (f.taken * percent) \div 100, !.forgiven = n] :
     n \in IF percent = 100 THEN 0 .. f.owed ELSE {0}}

Init == fee = [c \in Calls |-> NoFee]

\* No request, retried or not, makes a second meetup.
Make(c) ==
  /\ \A d \in Calls : KeyOf[d] = KeyOf[c] => fee[d].state = "none"
  /\ \E kind \in {"credits", "plan_quota"} : Set(c, Quoted(c, kind))

Charge(c) == fee[c].state = "due" /\ \E f \in Charged(fee[c]) : Set(c, f)

\* A refund in full before the charge: there will be none.
Waive(c) ==
  /\ fee[c].state = "due" /\ ~fee[c].settled
  /\ Set(c, [fee[c] EXCEPT !.state = "waived", !.settled = TRUE])

\* The meetup ends; a charge that is late is made now.
Settle(c) ==
  /\ fee[c].state \in {"due", "charged"} /\ ~fee[c].settled
  /\ \E f \in IF fee[c].state = "due" THEN Charged(fee[c]) ELSE {fee[c]} :
       \E percent \in {0, 50, 100} : \E g \in GivenBack(f, percent) : Set(c, g)

\* A refund in full that finds the hold let go and no charge yet is entered
\* all the same, and the charge still comes.
Overlook(c) ==
  /\ fee[c].state = "due" /\ ~fee[c].settled
  /\ Set(c, [fee[c] EXCEPT !.settled = TRUE])

Next == \E c \in Calls : Make(c) \/ Charge(c) \/ Waive(c) \/ Settle(c) \/ Overlook(c)

Spec == Init /\ [][Next]_fee
=============================================================================
