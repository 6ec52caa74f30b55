--------------------------- MODULE JudgeContract ---------------------------
(***************************************************************************)
(* What the judge pipeline promises of a submission it has accepted: it is *)
(* judged at least once, or given up for a reason somebody can see (its    *)
(* task is in the dead-letter queue) or nobody can (the broker lost it).   *)
(* A job given up may still be judged, when a copy of its task survives;   *)
(* a judged one stays judged.                                              *)
(***************************************************************************)
CONSTANT Jobs
VARIABLE phase

Init == phase = [j \in Jobs |-> "new"]

Move(j, from, to) ==
    /\ phase[j] \in from
    /\ phase' = [phase EXCEPT ![j] = to]

\* Accepting a job and losing it are one step when the broker drops the task.
Accept(j)  == Move(j, {"new"}, "accepted") \/ Move(j, {"new"}, "abandoned")
Settle(j)  == Move(j, {"accepted", "abandoned"}, "settled")
Abandon(j) == Move(j, {"accepted"}, "abandoned")

Next == \E j \in Jobs : Accept(j) \/ Settle(j) \/ Abandon(j)

\* The safety half: which moves there are.
Moves == Init /\ [][Next]_phase

\* Accepted jobs do not wait for ever; nobody has to send one.
Spec == /\ Moves
        /\ \A j \in Jobs : WF_phase(phase[j] = "accepted" /\ (Settle(j) \/ Abandon(j)))
=============================================================================
