----------------------------- MODULE MCWorkerHost -----------------------------
(* Two session tasks that compete for two players, two quanta of production *)
(* and one failing storage operation.                                       *)
EXTENDS WorkerHost
=============================================================================
