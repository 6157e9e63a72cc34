---------------------- MODULE MCOrchestrationRequests ----------------------
(* Two worker processes that may overlap, and a client that may give up and   *)
(* ask again, in two minutes; enqueueing is one stretch of JavaScript, so      *)
(* more clients at once do nothing to the table that one in turn does not.     *)
EXTENDS OrchestrationRequests, TLC

CONSTANTS c1, a, w1, w2

OneCaller    == {c1}
OneContent   == {a}
TwoWorkers   == {w1, w2}
=============================================================================
