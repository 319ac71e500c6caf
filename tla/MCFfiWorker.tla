---------------------------- MODULE MCFfiWorker ----------------------------
(* Callers that own their threads, and as many goroutines on shared ones.  *)
EXTENDS FfiWorker, TLC

CONSTANTS c1, c2, c3, t1, t2, t3

MCHome == c1 :> t1 @@ c2 :> t2 @@ c3 :> t3
=============================================================================
