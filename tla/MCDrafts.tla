------------------------------ MODULE MCDrafts ------------------------------
(* Model values for the runs of Drafts.                                    *)
EXTENDS Drafts, TLC

CONSTANTS t1, t2, x1, x2, g1, u1, u2, o1

Tabs == Permutations(Tab)
=============================================================================
