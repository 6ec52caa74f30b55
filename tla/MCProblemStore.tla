-------------------------- MODULE MCProblemStore --------------------------
(***************************************************************************)
(* Uploads and imports are interchangeable.                                *)
(***************************************************************************)
EXTENDS ProblemStore, TLC

CONSTANTS u1, u2, i1, i2

Symmetry == Permutations(Uploads) \cup Permutations(Imports)
=============================================================================
