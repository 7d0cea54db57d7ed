---------------------------- MODULE MCComponents ----------------------------
(* Components, for TLC                                                     *)
EXTENDS Components
=============================================================================
