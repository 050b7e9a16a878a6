----------------------------- MODULE MCJobQueue -----------------------------
(* JobQueue with the values TLC gives its constants. *)
EXTENDS JobQueue

CONSTANTS j1, j2, w1, w2, w3

TwoJobs == {j1, j2}
OneUnhandled == {j2}
NoneUnhandled == {}
TwoWorkers == {w1, w2}
ThreeWorkers == {w1, w2, w3}
=============================================================================
