------------------------------ MODULE MCServices ------------------------------
(***************************************************************************)
(* The parts around the writer for TLC: the merge scheduler, the two lock  *)
(* factories and the snapshot policy.  They share no state, so a behaviour *)
(* exercises one of them, chosen in its first state, and the others rest:  *)
(* what is explored is the sum of their state spaces.                      *)
(***************************************************************************)
EXTENDS MergeScheduler, LockFactories, Snapshots

CONSTANTS
  a1, a2, b1, b2, A, B,    \* goroutines and processes for NativeFSLock
  w1, w2, w3,              \* goroutines for SimpleFSLock
  c1, c2, m1, m2, m3,      \* callers and merges for MergeScheduler
  p1, p2                   \* goroutines for Snapshots

TwoByTwo == [w \in Writers |-> IF w \in {a1, a2} THEN A ELSE B]

VARIABLE part      \* what is exercised

locks == <<native, simple>>

ServicesInit ==
  /\ part \in {"merges", "locks", "snapshots"}
  /\ Init /\ FactoriesInit /\ SnapshotsInit
  /\ part # "snapshots" => careful

ServicesNext ==
  /\ UNCHANGED part
  /\ \/ part = "merges" /\ Next /\ UNCHANGED <<locks, careful, snapshots>>
     \/ part = "locks" /\ FactoriesNext /\ UNCHANGED <<vars, careful, snapshots>>
     \/ part = "snapshots" /\ SnapshotsNext /\ UNCHANGED <<vars, locks>>

ServicesSpec == ServicesInit /\ [][ServicesNext]_<<part, vars, locks, careful, snapshots>>
=============================================================================
