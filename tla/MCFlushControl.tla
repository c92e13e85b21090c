--------------------------- MODULE MCFlushControl ---------------------------
(***************************************************************************)
(* FlushControl for TLC.  The bounds are in the .cfg files.                *)
(***************************************************************************)
EXTENDS FlushControl, TLC

\* Indexing goroutines are interchangeable.
Symmetry == Permutations(Threads)

=============================================================================
