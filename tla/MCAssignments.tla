--------------------------- MODULE MCAssignments ---------------------------
(***************************************************************************)
(* Edits are interchangeable, and so are the problems other than First.  A *)
(* behaviour starts with that one and without the assignment or with one   *)
(* that has not started, or with all problems and an assignment that ends  *)
(* early.                                                                  *)
(***************************************************************************)
EXTENDS Assignments, TLC

CONSTANT First   \* one of Ids

Symmetry == Permutations(Edits) \cup Permutations(Ids \ {First})

Planned(start) == [start |-> start, end |-> start + 1, items |-> <<First>>]

SmallInit ==
    /\ Init
    /\ \/ Existing = {First} /\ assignment \in {Nothing, Planned(MaxTime - 1)}
       \/ Existing = Ids /\ assignment = Planned(0)

SmallSpec == SmallInit /\ [][Next]_vars

\* A behaviour has a reader or a submission: they change nothing the other reads.
Apart == (\A r \in Readers : At(r) = "new") \/ (\A s \in Subs : At(s) = "new")
=============================================================================
