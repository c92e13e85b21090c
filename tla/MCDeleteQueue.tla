---------------------------- MODULE MCDeleteQueue ---------------------------
(***************************************************************************)
(* DeleteQueue for TLC, in two sizes: two DWPTs with a document each, one  *)
(* that does not fail, and two nodes; or one DWPT with several documents   *)
(* and every node.                                                         *)
(***************************************************************************)
EXTENDS DeleteQueue, TLC

\* DWPTs are interchangeable.
Symmetry == Permutations(Writers)

Bounded ==
  \/ tail <= 2 /\ \A w \in Writers : Len(docs[w]) <= 1 /\ docs[w] # <<0>>
  \/ \E v \in Writers : \A w \in Writers \ {v} : pc[w] = "new"

BoundedSpec == Init /\ [][Next /\ Bounded']_vars
=============================================================================
