------------------------ MODULE MCReleasePipeline ------------------------
(* ReleasePipeline with the values TLC gives its constants. *)
EXTENDS ReleasePipeline

CONSTANTS f1, f2, good, bad, j1, j2, j3, w1, w2, u1, u2, p1, m1

OneFile == {f1}
TwoFiles == {f1, f2}
GoodOrBad == {good, bad}
OnlyBad == {bad}
TwoJobs == {j1, j2}
ThreeJobs == {j1, j2, j3}
OneWorker == {w1}
TwoWorkers == {w1, w2}
OneUploader == {u1}
TwoUploaders == {u1, u2}
OnePublisher == {p1}
OneManager == {m1}
Nobody == {}
NoFailure == {}
AnyButScanner == {"request", "handler", "worker"}
=============================================================================
