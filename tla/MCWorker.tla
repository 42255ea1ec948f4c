------------------------------ MODULE MCWorker ------------------------------
(* The worker with a send queue shorter than the response, so that a      *)
(* write of the response meets a full queue (EAGAIN), and a size_t of     *)
(* four bits, so that sum wraps in reach.                                 *)
EXTENDS Worker
====
