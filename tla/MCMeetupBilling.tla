-------------------------- MODULE MCMeetupBilling --------------------------
(* Instances of MeetupBilling small enough for TLC. *)
EXTENDS MeetupBilling

CONSTANTS first, retry, other    \* a call, its retry, a call of its own

Pack(n)    == [kind |-> "purchase", amount |-> n, life |-> 0, percent |-> 0, every |-> 1]
Welcome(n) == [kind |-> "welcome", amount |-> n, life |-> 2, percent |-> 50, every |-> 1]

PackAndWelcome == {Pack(3), Welcome(2)}
OnePack == {Pack(3)}
Keys == [c \in Calls |-> IF c = other THEN "other" ELSE "shared"]
ThreeEach == [c \in Calls |-> 3]
=============================================================================
