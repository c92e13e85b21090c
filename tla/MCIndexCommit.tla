--------------------------- MODULE MCIndexCommit ---------------------------
(***************************************************************************)
(* Model checking instance of IndexCommit: the bounds are in the .cfg      *)
(* files.  PoliciesSpec checks two writers that share no behaviour, the    *)
(* one of the .cfg file and one that keeps two commits and may be closed;  *)
(* writer says which one a behaviour is about.                             *)
(***************************************************************************)
EXTENDS IndexCommit, TLC

CONSTANTS p1, p2

\* Goroutines are interchangeable.
Symmetry == Permutations(Procs)

VARIABLE writer

\* A policy that keeps two commits, without calls of PrepareCommit and
\* without failures, and with an application that calls Close.
KeepsTwo ==
  INSTANCE IndexCommit WITH Keep <- 2, MaxPrepares <- 0, MaxFailures <- 0, Closes <- TRUE

\* Bound: crashes, failures and calls of PrepareCommit in one behaviour.
MaxEvents == 2

PoliciesInit == Init /\ writer \in {"keeps one", "keeps two"}
PoliciesNext ==
  /\ \/ writer = "keeps one" /\ Next
     \/ writer = "keeps two" /\ KeepsTwo!Next
  /\ crashes' + failures' + prepares' <= MaxEvents
  /\ UNCHANGED writer
PoliciesSpec == PoliciesInit /\ [][PoliciesNext]_<<vars, writer>>
=============================================================================
