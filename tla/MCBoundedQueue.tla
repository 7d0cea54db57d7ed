--------------------------- MODULE MCBoundedQueue ---------------------------
(* BoundedQueue on small capacities, for TLC.                              *)
EXTENDS BoundedQueue
=============================================================================
