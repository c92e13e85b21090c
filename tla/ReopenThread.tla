----------------------------- MODULE ReopenThread -----------------------------
(***************************************************************************)
(* ControlledRealTimeReopenThread and the index.ReferenceManager it        *)
(* reopens: goroutines wait for a generation to become searchable, the     *)
(* thread reopens after a while or when signalled, the application may     *)
(* call Refresh itself, close the thread and then the manager.             *)
(*                                                                         *)
(* Time is left out: the thread may find that it has to sleep on, or that  *)
(* it has slept long enough.  A waiter takes the notification channel in   *)
(* the critical section of mu in which it found its generation missing, so *)
(* closing the channel wakes the waiters parked at that moment.            *)
(***************************************************************************)
EXTENDS Integers, FiniteSetsExt

CONSTANTS
  Waiters,        \* goroutines that call WaitForGeneration
  Refreshers,     \* goroutines that call ReferenceManager.Refresh
  Nobody,
  MaxGen,         \* bound on the generations
  Closes,         \* TRUE: the application closes the thread, then the manager
  Timed           \* TRUE: waiters may time out

Gens == 0 .. MaxGen
Inf == MaxGen + 1       \* math.MaxInt64

VARIABLES
  published,   \* IndexWriter.publishedSeqNo
  refreshed,   \* history: published when Refresh last counted a refresh
  start,       \* refreshStartGen
  searching,   \* searchingGen
  waiting,     \* waitingGen
  finish,      \* finish
  signal,      \* reopenSignal holds a signal
  mu,          \* ReferenceManager.mu: who holds it across steps
  rmClosed,    \* ReferenceManager.closed
  pc,          \* waiter -> its step
  target,      \* waiter -> targetGen
  step,        \* refresher -> its step in Refresh
  thread,      \* the step of run
  closer       \* the step of Close

gens == <<published, refreshed, start>>
crt == <<searching, waiting, finish, signal>>
rm == <<mu, rmClosed>>
waits == <<pc, target>>
vars == <<gens, crt, rm, waits, step, thread, closer>>

Init ==
  /\ published = 0 /\ refreshed = 0 /\ start = 0
  /\ searching = 0 /\ waiting = 0 /\ finish = FALSE /\ signal = FALSE
  /\ mu = Nobody /\ rmClosed = FALSE
  /\ pc = [w \in Waiters |-> "idle"] /\ target = [w \in Waiters |-> 0]
  /\ step = [r \in Refreshers |-> "idle"] /\ thread = "loop" /\ closer = "idle"

\* The writer publishes the sequence number of a flush.
Publish ==
  /\ published < MaxGen /\ published' = published + 1
  /\ UNCHANGED <<refreshed, start, crt, rm, waits, step, thread, closer>>

-----------------------------------------------------------------------------
(* WaitForGeneration *)

WaitForGeneration(w, g) ==
  /\ pc[w] = "idle" /\ target' = [target EXCEPT ![w] = g]
  /\ \/ /\ g <= searching /\ pc' = [pc EXCEPT ![w] = "true"]
        /\ UNCHANGED <<waiting, signal>>
     \/ /\ g > searching /\ pc' = [pc EXCEPT ![w] = "check"]
        /\ waiting' = Max({g, waiting}) /\ signal' = TRUE
  /\ UNCHANGED <<gens, searching, finish, rm, step, thread, closer>>

\* Mutant: the channel is read after mu is released.
MutantCheckLate(w) ==
  /\ \/ pc[w] = "check" /\ pc' = [pc EXCEPT ![w] = IF target[w] <= searching THEN "true" ELSE "late"]
     \/ pc[w] = "late" /\ pc' = [pc EXCEPT ![w] = "parked"]
  /\ UNCHANGED <<gens, crt, rm, target, step, thread, closer>>

Check(w) ==
  /\ pc[w] = "check"
  /\ pc' = [pc EXCEPT ![w] = IF target[w] <= searching THEN "true" ELSE "parked"]
  /\ UNCHANGED <<gens, crt, rm, target, step, thread, closer>>

TimesOut(w) ==
  /\ Timed /\ pc[w] = "parked" /\ pc' = [pc EXCEPT ![w] = "false"]
  /\ UNCHANGED <<gens, crt, rm, target, step, thread, closer>>

\* The channel is closed and replaced.
Broadcast == pc' = [w \in Waiters |-> IF pc[w] = "parked" THEN "check" ELSE pc[w]]

-----------------------------------------------------------------------------
(* ReferenceManager.Refresh: its listeners are called with mu held *)

BeforeRefresh(r) ==
  /\ step[r] = "idle" /\ mu = Nobody /\ ~rmClosed
  /\ mu' = r /\ start' = published /\ step' = [step EXCEPT ![r] = "refresh"]
  /\ UNCHANGED <<published, refreshed, crt, rmClosed, waits, thread, closer>>

\* Refresh increments the manager's generation, which the listener does not
\* look at, and renews no reference: current is the one the manager was made
\* with.  What was published at the increment is noted for WaitTruthful.
Refresh(r) ==
  /\ step[r] = "refresh" /\ refreshed' = published /\ step' = [step EXCEPT ![r] = "after"]
  /\ UNCHANGED <<published, start, crt, rm, waits, thread, closer>>

\* Mutant: the generation is the one published by now.
MutantAfterRefreshNow(r) ==
  /\ step[r] = "after" /\ mu' = Nobody /\ step' = [step EXCEPT ![r] = "idle"]
  /\ searching' = published /\ Broadcast
  /\ UNCHANGED <<gens, waiting, finish, signal, rmClosed, target, thread, closer>>

AfterRefresh(r) ==
  /\ step[r] = "after" /\ mu' = Nobody /\ step' = [step EXCEPT ![r] = "idle"]
  /\ searching' = start /\ Broadcast
  /\ UNCHANGED <<gens, waiting, finish, signal, rmClosed, target, thread, closer>>

-----------------------------------------------------------------------------
(* run *)

Thread(from, to) == thread = from /\ thread' = to

\* The inner loop: sleep on, or the reopen is due.
Sleep ==
  /\ ~finish /\ Thread("loop", "select")
  /\ UNCHANGED <<gens, crt, rm, waits, step, closer>>

Timer ==
  /\ Thread("select", "loop")
  /\ UNCHANGED <<gens, crt, rm, waits, step, closer>>

Signalled ==
  /\ signal /\ signal' = FALSE /\ Thread("select", "loop")
  /\ UNCHANGED <<gens, searching, waiting, finish, rm, waits, step, closer>>

Due ==
  /\ ~finish /\ Thread("loop", "reopen")
  /\ UNCHANGED <<gens, crt, rm, waits, step, closer>>

Finished ==
  /\ finish /\ Thread("loop", "gone")
  /\ UNCHANGED <<gens, crt, rm, waits, step, closer>>

\* ReferenceManager.MaybeRefresh refreshes nothing and calls no listener; its
\* error on a closed manager is a panic.
MaybeRefresh ==
  /\ mu = Nobody /\ Thread("reopen", IF rmClosed THEN "panic" ELSE "loop")
  /\ UNCHANGED <<gens, crt, rm, waits, step, closer>>

-----------------------------------------------------------------------------
(* Close *)

Close ==
  /\ Closes /\ closer = "idle" /\ closer' = "max"
  /\ finish' = TRUE /\ signal' = TRUE
  /\ UNCHANGED <<gens, searching, waiting, rm, waits, step, thread>>

\* Stored without mu.
CloseMax ==
  /\ closer = "max" /\ closer' = "notify" /\ searching' = Inf
  /\ UNCHANGED <<gens, waiting, finish, signal, rm, waits, step, thread>>

CloseNotify ==
  /\ closer = "notify" /\ closer' = "closed" /\ Broadcast
  /\ UNCHANGED <<gens, crt, rm, target, step, thread>>

\* ReferenceManager.Close, once Close of the thread has returned.
ManagerClose ==
  /\ closer = "closed" /\ closer' = "done"
  /\ mu = Nobody /\ rmClosed' = TRUE
  /\ UNCHANGED <<gens, crt, mu, waits, step, thread>>

Run == Sleep \/ Timer \/ Signalled \/ Due \/ Finished \/ MaybeRefresh
Closing == CloseMax \/ CloseNotify
Refreshing(r) == Refresh(r) \/ AfterRefresh(r)

Next ==
  /\ thread # "panic"
  /\ \/ Publish \/ Run \/ Close \/ Closing \/ ManagerClose
     \/ \E w \in Waiters : (\E g \in Gens : WaitForGeneration(w, g)) \/ Check(w) \/ TimesOut(w)
     \/ \E r \in Refreshers : BeforeRefresh(r) \/ Refreshing(r)

Spec == Init /\ [][Next]_vars
\* Goroutines are scheduled, and the time the thread has to sleep elapses.
FairSpec ==
  /\ Spec /\ WF_vars(Run) /\ SF_vars(Due) /\ WF_vars(Closing)
  /\ \A w \in Waiters : WF_vars(Check(w))
  /\ \A r \in Refreshers : WF_vars(Refreshing(r))

-----------------------------------------------------------------------------
\* Types of the state; the reopen thread is told of every waiter's generation.
TypeOK ==
  /\ published \in Gens /\ refreshed \in Gens /\ start \in Gens
  /\ searching \in Gens \cup {Inf} /\ waiting \in Gens
  /\ {finish, signal, rmClosed} \subseteq BOOLEAN
  /\ mu \in Refreshers \cup {Nobody}
  /\ \A w \in Waiters : pc[w] \in {"check", "parked"} => target[w] <= waiting

\* WaitForGeneration returns true only for a generation that was published
\* before a refresh the manager has counted, whatever was published while that
\* refresh and later ones ran; or because the thread has been closed.
WaitTruthful == \A w \in Waiters : pc[w] = "true" => target[w] <= refreshed \/ finish

\* No lost wake-up: a goroutine whose generation became searchable returns,
\* whenever it checked and parked, unless the thread is closed meanwhile.
Woken ==
  \A w \in Waiters :
    pc[w] \in {"check", "parked"} /\ target[w] <= searching
      ~> pc[w] \in {"true", "false"} \/ finish

-----------------------------------------------------------------------------
(* What comments and tests of the code say and the code does not do: TLC   *)
(* reports each of these violated, with the constants README.md gives.     *)

\* A goroutine that waits for a published generation returns, with nobody but
\* the reopen thread there to refresh.
GenerationReached ==
  \A w \in Waiters :
    pc[w] = "parked" /\ target[w] <= published ~> pc[w] \in {"true", "false"}

\* The generation a goroutine waited for is visible to the searcher it gets
\* next: the manager still has the reference of before the first publication.
AnswerVisible == \A w \in Waiters : pc[w] = "true" => target[w] = 0 \/ finish

\* Closing the thread lets every waiting goroutine return.
CloseWakes == \A w \in Waiters : finish /\ pc[w] = "parked" ~> pc[w] \in {"true", "false"}

\* Closing the thread and then the manager does not bring the process down.
NoPanic == thread # "panic"
=============================================================================
