------------------------------ MODULE MCOutbox ------------------------------
(* Model values for the runs of Outbox.                                    *)
EXTENDS Outbox

CONSTANTS h1, h2, i1, i2, k1, s1, w1, w2, publish, cancel, subscribe,
          followA, followB, question

\* One question, asked of two runs.
Hashes == [op \in Operation |-> IF op \in FollowUp THEN question ELSE op]
=============================================================================
