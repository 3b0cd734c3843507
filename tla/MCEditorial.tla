---------------------------- MODULE MCEditorial ----------------------------
(* Model values for the runs of Editorial.                                 *)
EXTENDS Editorial

CONSTANTS w1, k1, k2, c1, c2

OneWorker == {w1}
OneClaim == {k1}
TwoClaims == {k1, k2}
OneClient == {c1}
TwoClients == {c1, c2}

\* A recheck that fails and is retried, with another page; one that meets a review and
\* a publication; and both writers of the report at once.
Reviewed ==
    {[decisions |-> 1, rechecks |-> 1, rebuilds |-> 0, pages |-> 1, mortal |-> TRUE],
     [decisions |-> 2, rechecks |-> 1, rebuilds |-> 0, pages |-> 0, mortal |-> TRUE],
     [decisions |-> 2, rechecks |-> 1, rebuilds |-> 1, pages |-> 0, mortal |-> FALSE]}
Overlapping == {[decisions |-> 4, rechecks |-> 1, rebuilds |-> 0, pages |-> 0, mortal |-> FALSE]}
Rejecting == {[decisions |-> 1, rechecks |-> 0, rebuilds |-> 1, pages |-> 0, mortal |-> FALSE]}
=============================================================================
