----------------------------- MODULE MCAiBudget -----------------------------
(* AiBudget for TLC.                                                        *)
EXTENDS AiBudget, TLC

CONSTANTS r1, r2

MCLimit == [b \in Budgets |-> 1]
MCSymmetry == Permutations(Requests)
=============================================================================
