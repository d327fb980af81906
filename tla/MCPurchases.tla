---------------------------- MODULE MCPurchases ----------------------------
(* The instances TLC checks: a pack or a subscription of either store; and an  *)
(* account that moves between a subscription of each, or an operator's plan.   *)
EXTENDS Purchases, TLC

CONSTANTS packA, packG, subA, subG, c1, c2

MCCalls == {c1, c2}
Scene(gets, calls, notices) == [gets |-> gets, calls |-> calls, notices |-> notices]
MCScenarios == {Scene({packA}, 2, 3), Scene({packG}, 2, 3),
                Scene({subA}, 2, 3), Scene({subA}, 1, 4), Scene({subG}, 2, 3),
                Scene({subA, subG}, 1, 3), Scene({subA, Operator}, 1, 3)}

Symmetry == Permutations(MCCalls)
=============================================================================
