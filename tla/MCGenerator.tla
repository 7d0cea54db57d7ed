----------------------------- MODULE MCGenerator -----------------------------
(* A generator with two readers, for TLC.                                  *)
EXTENDS Generator
=============================================================================
