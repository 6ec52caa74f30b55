-------------------------- MODULE MCJudgePipeline --------------------------
(* Small instances of JudgePipeline for TLC: fault budgets and symmetry.    *)
EXTENDS JudgePipeline, TLC

Faults(f) == [k \in FaultKinds |-> IF k \in DOMAIN f THEN f[k] ELSE 0]

BudgetNone == Faults(<<>>)
BudgetCopies == Faults([crash |-> 1, drop |-> 1, delete |-> 1])
BudgetLive == Faults([crash |-> 1, stop |-> 1, db |-> 1, publish |-> 1, lose |-> 1])

Symmetry == Permutations(MsgIds) \cup Permutations(Subs)
=============================================================================
