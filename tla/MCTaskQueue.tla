---------------------------- MODULE MCTaskQueue ----------------------------
(* Small instances of TaskQueue. *)
EXTENDS TaskQueue, TLC

CONSTANTS w1, w2, s1, s2

TwoWorkers == (s1 :> w1) @@ (s2 :> w2)
=============================================================================
