----------------------------- MODULE MCWorkers ------------------------------
(* A pool of two Workers, one place each, and two calls.  The entry queues *)
(* one call or two: with one it refuses a call behind a handler that its   *)
(* caller no longer waits for, with two it queues the call there.          *)
EXTENDS Workers
=============================================================================
