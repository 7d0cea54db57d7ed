------------------------------ MODULE MCChannel ------------------------------
(* Channel with a few readers and writers, for TLC.                        *)
EXTENDS Channel, TLC

\* Readers are alike, and so are writers.
Symmetry == Permutations(Readers) \cup Permutations(Writers)
=============================================================================
