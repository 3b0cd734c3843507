--------------------------- MODULE MCRunLifecycle ---------------------------
(* Model values and symmetry for the runs of RunLifecycle.                 *)
EXTENDS RunLifecycle, TLC

CONSTANTS w1, w2, c1, c2

TwoWorkers == {w1, w2}
\* Workers are alike: which one may be killed makes no difference.
FirstWorker == {w1}
NoOne == {}
OneClient == {c1}
TwoClients == {c1, c2}

Symmetry == Permutations(TwoWorkers)
=============================================================================
