----------------------------- MODULE MCThrottle -----------------------------
(* A small instance of Throttle: two replicas, windows of three ticks. *)
EXTENDS Throttle
=============================================================================
