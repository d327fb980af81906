------------------------------ MODULE MCSessions ------------------------------
(* The instance TLC checks: one user, two refreshes at a time, three tokens.   *)
EXTENDS Sessions

CONSTANTS u1, r1, r2

MCUsers == {u1}
MCRequests == {r1, r2}

=============================================================================
