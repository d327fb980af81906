------------------------------- MODULE MCOtp -------------------------------
(* The instance TLC checks: two calls of one person at one address, of whose   *)
(* budgets somebody else has used two today.                                   *)
EXTENDS Otp, TLC

CONSTANTS ann, c1, c2

MCCalls == {c1, c2}
TwoAndThree == [k \in Keys |-> IF k = Target THEN 3 ELSE 2]
OthersTwo == [k \in Keys |-> IF k = Target THEN 2 ELSE 0]

Symmetry == Permutations(MCCalls)
=============================================================================
