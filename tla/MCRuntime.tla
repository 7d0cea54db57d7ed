------------------------------ MODULE MCRuntime ------------------------------
(* Runtime on a few coroutine frames, for TLC.                             *)
EXTENDS Runtime, TLC

CONSTANTS c1, c2, c3

\* The frames that no constant tells apart, in a run for safety: all but main and
\* those of coroutines that return Promise<void>.
Symmetry == Permutations({c1, c2, c3} \ Void)
=============================================================================
