---------------------------- MODULE MCFlushQueue ----------------------------
(***************************************************************************)
(* FlushQueue for TLC.  The bounds are in the .cfg files.                  *)
(***************************************************************************)
EXTENDS FlushQueue, TLC

\* Goroutines are interchangeable.
Symmetry == Permutations(Threads)

=============================================================================
