------------------------------- MODULE MCSearch -------------------------------
(***************************************************************************)
(* The search side for TLC.  A behaviour exercises SearcherManager or the  *)
(* reopen thread, chosen in its first state, and the other rests.          *)
(***************************************************************************)
EXTENDS Searching

CONSTANTS
  s1, s2, p1, p2,    \* searcher goroutines and refreshers of SearcherManager
  g1, g2, r1         \* waiters and a refresher of ReopenThread

VARIABLE part        \* what is exercised

SearchInit == part \in {"searchers", "reopen"} /\ Init /\ Reopening!Init

\* A step of the reopen thread's world.
Reopens(A) == part = "reopen" /\ A /\ UNCHANGED <<part, vars>>

SearchNext ==
  \/ part = "searchers" /\ Next /\ UNCHANGED <<part, reopening>>
  \/ Reopens(Reopening!Next)

\* The fairness of ReopenThread!FairSpec.
SearchSpec ==
  /\ SearchInit /\ [][SearchNext]_<<part, vars, reopening>>
  /\ WF_reopening(Reopens(Reopening!Run)) /\ SF_reopening(Reopens(Reopening!Due))
  /\ WF_reopening(Reopens(Reopening!Closing))
  /\ \A w \in Waiters : WF_reopening(Reopens(Reopening!Check(w)))
  /\ \A r \in Reopeners : WF_reopening(Reopens(Reopening!Refreshing(r)))
=============================================================================
