----------------------------- MODULE MCPipeline -----------------------------
(* Model values for the runs of Pipeline.                                  *)
EXTENDS Pipeline

CONSTANTS p1, p2, t1, t2, u1, u2, x1, x2, x3

OneProcess == {p1}
TwoProcesses == {p1, p2}
OneTask == {t1}
TwoTasks == {t1, t2}
OnePage == {u1}
TwoPages == {u1, u2}
OneText == {x1}
TwoTexts == {x1, x2}
ThreeTexts == {x1, x2, x3}
=============================================================================
