--------------------------- MODULE MCJudgeWorker ---------------------------
(***************************************************************************)
(* An instance of JudgeWorker: a program that is right on one case and     *)
(* hangs on the next, requested twice, and a right one of another problem. *)
(* All cases have the same data, so all requests share the cached files.   *)
(***************************************************************************)
EXTENDS JudgeWorker

CONSTANTS a, b, r1, r2, r3, input, output

Owner == [r \in Requests |-> IF r = r3 THEN b ELSE a]

Same == [in |-> input, out |-> output]
OneOrTwo == [s \in Subs |-> IF s = a THEN <<Same, Same>> ELSE <<Same>>]

Right == [ends |-> "zero", over |-> FALSE, right |-> TRUE]
Hangs == [Right EXCEPT !.ends = "hangs"]

Programs ==
    [s \in Subs |-> [compiles |-> TRUE,
                     runs |-> IF s = a THEN <<Right, Hangs>> ELSE <<Right>>,
                     astray |-> {[ends |-> "zero", over |-> FALSE]}]]
=============================================================================
