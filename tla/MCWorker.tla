------------------------------ MODULE MCWorker ------------------------------
(* A worker on the trips. *)
EXTENDS Worker, Trips
=============================================================================
