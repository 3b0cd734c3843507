------------------------------ MODULE MCUpkeep ------------------------------
(* Model values and symmetry for the runs of Upkeep.                       *)
EXTENDS Upkeep, TLC

CONSTANTS r1, r2, p1, p2

Symmetry == Permutations(Run)
=============================================================================
