----------------------------- MODULE MCReputation -----------------------------
(* The instances TLC checks: three people, two of whom rate, two calls.        *)
EXTENDS Reputation, TLC

CONSTANTS c1, c2, m1, m2

MCPeople == 1 .. 3
MCReviewers == {1, 3}
MCCalls == {c1, c2}
MCMeetups == {m1, m2}
MCAttends == m1 :> {1, 2} @@ m2 :> {1}

(* Nobody has rated and everything is over, or the other way round.            *)
MCStarts == {[reviewed |-> {}, ended |-> MCMeetups], [reviewed |-> MCReviewers, ended |-> {}]}

(* The first and the last have the same hash.                                  *)
Colliding == [p \in MCPeople |-> IF p = 3 THEN 1 ELSE p]

Symmetry == Permutations(MCCalls)

===============================================================================
