--------------------------- MODULE MC_ThreadPool ---------------------------
(* Values for checking ThreadPool: three workers, two clients, four tasks, *)
(* two of which are enqueued by others while they run.                     *)
EXTENDS ThreadPool, TLC

CONSTANTS t1, t2, t3, t4

MCFollowUp == (t1 :> t3) @@ (t2 :> t4) @@ (t3 :> NoTask) @@ (t4 :> NoTask)
=============================================================================
