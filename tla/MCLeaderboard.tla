--------------------------- MODULE MCLeaderboard ---------------------------
(***************************************************************************)
(* Instances of Leaderboard: two users; Alice submits twice, Bob once.     *)
(***************************************************************************)
EXTENDS Leaderboard

CONSTANTS alice, bob, p1, p2, s1, s2, s3

\* Both of Alice's submissions are for one problem.
SameProblem == [s \in Subs |-> p1]

Authors == [s \in Subs |-> IF s = s3 THEN bob ELSE alice]

Times == [s \in Subs |-> IF s = s1 THEN 2 ELSE IF s = s2 THEN 3 ELSE 4]
=============================================================================
