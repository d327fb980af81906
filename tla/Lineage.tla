------------------------------- MODULE Lineage -------------------------------
(* What a sign-in promises, with no tables in sight.  A sign-in opens a        *)
(* family of refresh tokens.  While the family is open exactly one token of it *)
(* can be spent, spending it moves that right to a token never seen before,    *)
(* and once the family is over it stays over.                                  *)
EXTENDS Naturals, FiniteSets

CONSTANT Token    \* Every token that is ever minted.

VARIABLES
  tip,     \* tip[f]: the token family f can still spend: none or one.
  used     \* The tokens minted so far.

vars == <<tip, used>>

Init ==
  /\ tip = [f \in Token |-> {}]
  /\ used = {}

(* A sign-in: the family is named after its first token.                       *)
Open(f) ==
  /\ f \notin used
  /\ used' = used \cup {f}
  /\ tip' = [tip EXCEPT ![f] = {f}]

(* The one token that can be spent is spent for another.                       *)
Spend(f, c) ==
  /\ \E t \in Token : tip[f] = {t}
  /\ c \notin used
  /\ used' = used \cup {c}
  /\ tip' = [tip EXCEPT ![f] = {c}]

(* Some families are over, for good.                                           *)
End(F) ==
  /\ tip' = [f \in Token |-> IF f \in F THEN {} ELSE tip[f]]
  /\ UNCHANGED used

Next ==
  \/ \E c \in Token : Open(c)
  \/ \E f, c \in Token : Spend(f, c)
  \/ \E F \in SUBSET Token : End(F)

Spec == Init /\ [][Next]_vars

=============================================================================
