--------------------------- MODULE MCWorkerThread ---------------------------
(* Two messages each way: enough for order, duplicates and a backlog when   *)
(* terminate() comes.                                                       *)
EXTENDS WorkerThread
=============================================================================
