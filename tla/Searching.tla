------------------------------- MODULE Searching -------------------------------
(***************************************************************************)
(* The search side: SearcherManager, and ControlledRealTimeReopenThread    *)
(* with the manager it reopens.  They share no state.                      *)
(***************************************************************************)
EXTENDS SearcherManager

CONSTANTS
  Waiters,       \* goroutines that call WaitForGeneration
  Reopeners,     \* goroutines that call Refresh of the reopened manager
  MaxGen,        \* bound on the generations
  Closes,        \* TRUE: the application closes the thread, then the manager
  Timed          \* TRUE: waiters may time out

ASSUME GenAssumption == MaxGen \in Nat
ASSUME ReopenerAssumption == None \notin Reopeners

VARIABLES
  published, refreshed, start, searching, waiting, finish, signal,
  mu, rmClosed, wpc, target, step, thread, closer        \* ReopenThread

reopening == <<published, refreshed, start, searching, waiting, finish, signal,
               mu, rmClosed, wpc, target, step, thread, closer>>

Reopening == INSTANCE ReopenThread WITH
  Refreshers <- Reopeners, Nobody <- None, pc <- wpc

-----------------------------------------------------------------------------
\* WaitForGeneration returns true only for a generation published before a
\* refresh that was counted, or because the thread was closed
\* (ControlledRealTimeReopenThread).
WaitTruthful == Reopening!TypeOK /\ Reopening!WaitTruthful

\* A goroutine whose generation became searchable is woken.
Woken == Reopening!Woken
=============================================================================
